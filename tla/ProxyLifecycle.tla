--------------------------- MODULE ProxyLifecycle ---------------------------
(***************************************************************************)
(* The life of the entities that one ZstHierarchy looks after: how a       *)
(* network thread creates a proxy, how it or another thread asks for it to *)
(* go, how the thread that calls process_events delivers the entity's      *)
(* events and how the reaper frees it; how the replies to activate_entity  *)
(* and deactivate_entity change a local entity, and how the application    *)
(* may delete it.                                                          *)
(*                                                                         *)
(* Entities are handed between threads as raw pointers: through the lookup *)
(* table, through the deferred "arriving" events of the hierarchy and      *)
(* through the has_event queue of ZstSynchronisableModule.  Every touch of *)
(* an entity is therefore a step of its own that first asks whether its    *)
(* memory is still there; a touch of freed memory is undefined behaviour   *)
(* and ends the behaviour in a state with fault # "none".  So does a call  *)
(* of process_events from within itself, which is not followed further.    *)
(*                                                                         *)
(* Event queues are moodycamel::ConcurrentQueues: one FIFO per producer,   *)
(* and no order between producers.  An entity stands for a whole subtree   *)
(* without a parent; ZstComponent's tree is not part of this module.       *)
(***************************************************************************)
EXTENDS Naturals, Sequences

CONSTANTS
  Names,        \* entity URIs
  Proxies,      \* instances of proxy entities that may be created
  Locals,       \* instances of entities the host application owns
  Uri,          \* the URI of each instance
  Creators,     \* threads that handle the arrival of a remote entity
  Removers,     \* threads that find a proxy by its URI to remove it
  Timers,       \* threads that find a proxy in m_proxies to remove it
  Updaters,     \* threads that call announce_update on a proxy
  Activators,   \* threads that run the reply callbacks of local entities
  App,          \* the thread that calls process_events
  NoObject,     \* the null pointer
  MaxCalls      \* bound: updates announced and requests made

Objects == Proxies \union Locals
Threads == Creators \union Removers \union Timers \union Updaters
             \union Activators
Producers == Threads \union {App}

ASSUME LifecycleAssumption ==
  /\ Proxies \intersect Locals = {}
  /\ NoObject \notin Objects
  /\ App \notin Threads
  /\ Uri \in [Objects -> Names]
  /\ \A a \in Locals, o \in Objects : Uri[a] = Uri[o] => a = o
  /\ MaxCalls \in Nat

VARIABLES
  memory,       \* whether the instance's storage is there
  status,       \* ZstSynchronisable::m_sync_status
  events,       \* ZstSynchronisable::m_synchronisable_events
  wakeups,      \* ZstSynchronisableModule::m_synchronisable_events
  arrivals,     \* ZstHierarchy::m_hierarchy_events, the "arriving" ones
  lookup,       \* ZstHierarchy::m_entity_lookup
  cleanup,      \* ZstReaper::m_cleanup_callbacks
  dead,         \* ZstSynchronisableModule::m_dead_syncronisable_IDS
  call,         \* where each thread is, and the pointer it holds
  loop,         \* where process_events is, and the entity it is draining
  budget,       \* calls left under MaxCalls
  fault         \* the first touch of freed memory, or the first re-entry

vars == <<memory, status, events, wakeups, arrivals, lookup, cleanup, dead,
          call, loop, budget, fault>>

Status == {"DEACTIVATED", "ACTIVATING", "ACTIVATION_QUEUED", "ACTIVATED",
           "DEACTIVATING", "DEACTIVATION_QUEUED", "DESTROYED"}
Event == {"activated", "deactivated", "destroyed", "updated"}
CallAt == {"idle", "insert", "check_off", "set_off", "defer_off",
           "defer_destroyed", "defer_updated", "reply", "check_on",
           "set_on", "defer_on", "wake_on", "announce", "wake", "reply_off"}
LoopAt == {"idle", "arrivals", "wakeups", "object", "reap"}
Fault == {"none", "call", "arrival", "wakeup", "cleanup", "nested"}

\* Every variable has its type.
TypeOK ==
  /\ memory \in [Objects -> {"unborn", "live", "freed"}]
  /\ status \in [Objects -> Status]
  /\ events \in [Objects -> [Producers -> Seq(Event)]]
  /\ wakeups \in [Producers -> Seq(Objects)]
  /\ arrivals \in [Threads -> Seq(Objects)]
  /\ lookup \in [Names -> Objects \union {NoObject}]
  /\ cleanup \in Seq(Objects)
  /\ dead \in SUBSET Objects
  /\ call \in [Threads -> [at : CallAt, obj : Objects \union {NoObject}]]
  /\ loop \in [at : LoopAt, obj : Objects \union {NoObject}]
  /\ budget \in 0..MaxCalls
  /\ fault \in Fault

-----------------------------------------------------------------------------
Idle == [at |-> "idle", obj |-> NoObject]

\* Local entities are registered, hence in the lookup; no proxy has arrived.
Init ==
  /\ memory = [o \in Objects |-> IF o \in Locals THEN "live" ELSE "unborn"]
  /\ status = [o \in Objects |-> "DEACTIVATED"]
  /\ events = [o \in Objects |-> [p \in Producers |-> <<>>]]
  /\ wakeups = [p \in Producers |-> <<>>]
  /\ arrivals = [t \in Threads |-> <<>>]
  /\ lookup = [n \in Names |-> IF \E o \in Locals : Uri[o] = n
                                 THEN CHOOSE o \in Locals : Uri[o] = n
                                 ELSE NoObject]
  /\ cleanup = <<>>
  /\ dead = {}
  /\ call = [t \in Threads |-> Idle]
  /\ loop = Idle
  /\ budget = MaxCalls
  /\ fault = "none"

Running == fault = "none"

Live(o) == memory[o] = "live"

\* Thread t goes on to step at, keeping the pointer o.
GoTo(t, at, o) == call' = [call EXCEPT ![t] = [at |-> at, obj |-> o]]

Return(t) == call' = [call EXCEPT ![t] = Idle]

\* Thread t is at step at of a call on an entity that is still there.
Touches(t, at) ==
  /\ Running
  /\ call[t].at = at
  /\ Live(call[t].obj)

-----------------------------------------------------------------------------
(* A remote entity arrives.                                                *)

\* Mutant: create_proxy_entity without its search for a duplicate.
CreateCheck_NoSearch(t, o) ==
  /\ Running
  /\ call[t] = Idle
  /\ memory[o] = "unborn"
  /\ \A u \in Threads : call[u].obj # o
  /\ GoTo(t, "insert", o)
  /\ UNCHANGED <<memory, status, events, wakeups, arrivals, lookup, cleanup,
                 dead, loop, budget, fault>>

\* create_proxy_entity: the lookup is searched and the entity unpacked; it
\* is add_proxy_entity that registers it, later and under no common lock.
CreateCheck(t, o) ==
  /\ Running
  /\ call[t] = Idle
  /\ memory[o] = "unborn"
  /\ \A u \in Threads : call[u].obj # o
  /\ lookup[Uri[o]] = NoObject
  /\ GoTo(t, "insert", o)
  /\ UNCHANGED <<memory, status, events, wakeups, arrivals, lookup, cleanup,
                 dead, loop, budget, fault>>

\* add_proxy_entity: register, activate, move into m_proxies, and defer the
\* arriving event, which captures the pointer.
CreateInsert(t) ==
  LET o == call[t].obj IN
  /\ Running
  /\ call[t].at = "insert"
  /\ memory' = [memory EXCEPT ![o] = "live"]
  /\ status' = [status EXCEPT ![o] = "ACTIVATED"]
  /\ lookup' = [lookup EXCEPT ![Uri[o]] = o]
  /\ arrivals' = [arrivals EXCEPT ![t] = Append(@, o)]
  /\ Return(t)
  /\ UNCHANGED <<events, wakeups, cleanup, dead, loop, budget, fault>>

-----------------------------------------------------------------------------
(* A proxy is asked to go: destroy_entity_complete and, step by step,      *)
(* enqueue_deactivation.                                                   *)

\* A message names the entity: find_entity.
RemoveFind(t, o) ==
  /\ Running
  /\ call[t] = Idle
  /\ lookup[Uri[o]] = o
  /\ GoTo(t, "check_off", o)
  /\ UNCHANGED <<memory, status, events, wakeups, arrivals, lookup, cleanup,
                 dead, loop, budget, fault>>

\* The heartbeat timer picks a silent performer out of m_proxies.
TimerFind(t, o) ==
  /\ Running
  /\ call[t] = Idle
  /\ Live(o)
  /\ GoTo(t, "check_off", o)
  /\ UNCHANGED <<memory, status, events, wakeups, arrivals, lookup, cleanup,
                 dead, loop, budget, fault>>

\* The status is read without a lock that covers the assignment below.
CheckOff(t) ==
  /\ Touches(t, "check_off")
  /\ IF status[call[t].obj] \in {"ACTIVATED", "DEACTIVATING"}
       THEN GoTo(t, "set_off", call[t].obj)
       ELSE Return(t)
  /\ UNCHANGED <<memory, status, events, wakeups, arrivals, lookup, cleanup,
                 dead, loop, budget, fault>>

SetOff(t) ==
  /\ Touches(t, "set_off")
  /\ status' = [status EXCEPT ![call[t].obj] = "DEACTIVATION_QUEUED"]
  /\ GoTo(t, "defer_off", call[t].obj)
  /\ UNCHANGED <<memory, events, wakeups, arrivals, lookup, cleanup, dead,
                 loop, budget, fault>>

\* One step of a call that defers an event on the entity: ZstEventDispatcher
\* ::defer enqueues it in the entity's own queue.
Defer(t, at, event, next) ==
  LET o == call[t].obj IN
  /\ Touches(t, at)
  /\ events' = [events EXCEPT ![o][t] = Append(@, event)]
  /\ GoTo(t, next, o)
  /\ UNCHANGED <<memory, status, wakeups, arrivals, lookup, cleanup, dead,
                 loop, budget, fault>>

DeferDeactivated(t) == Defer(t, "defer_off", "deactivated", "defer_destroyed")

\* Mutant: enqueue_deactivation forgets to tell the module.
DeferDestroyed_NoNotice(t) ==
  Defer(t, "defer_destroyed", "destroyed", "announce")

DeferDestroyed(t) == Defer(t, "defer_destroyed", "destroyed", "wake")

\* synchronisable_has_event: the module is told to come back to the entity.
Wake(t) ==
  /\ Touches(t, "wake")
  /\ wakeups' = [wakeups EXCEPT ![t] = Append(@, call[t].obj)]
  /\ Return(t)
  /\ UNCHANGED <<memory, status, events, arrivals, lookup, cleanup, dead,
                 loop, budget, fault>>

-----------------------------------------------------------------------------
(* A value arrives for a proxy plug: find_entity and announce_update.      *)

UpdateFind(t, o) ==
  /\ Running
  /\ call[t] = Idle
  /\ budget > 0
  /\ lookup[Uri[o]] = o
  /\ budget' = budget - 1
  /\ GoTo(t, "defer_updated", o)
  /\ UNCHANGED <<memory, status, events, wakeups, arrivals, lookup, cleanup,
                 dead, loop, fault>>

\* Mutant: announce_update forgets to tell the module.
DeferUpdated_NoNotice(t) == Defer(t, "defer_updated", "updated", "announce")

DeferUpdated(t) == Defer(t, "defer_updated", "updated", "wake")

-----------------------------------------------------------------------------
(* A local entity is activated or deactivated: the request captures the    *)
(* pointer, and its reply is handled on another thread.                    *)

\* activate_entity registers the entity, which lists it, before it asks.  The
\* application has given the entity a parent (again, after a removal).
ActivateRequest(t, o) ==
  /\ Running
  /\ call[t] = Idle
  /\ budget > 0
  /\ Live(o)
  /\ status[o] # "ACTIVATED"
  /\ lookup' = [lookup EXCEPT ![Uri[o]] = o]
  /\ budget' = budget - 1
  /\ GoTo(t, "reply", o)
  /\ UNCHANGED <<memory, status, events, wakeups, arrivals, cleanup, dead,
                 loop, fault>>

\* activate_entity_complete, up to the call of enqueue_activation.
ActivateReplyOK(t) ==
  LET o == call[t].obj IN
  /\ Touches(t, "reply")
  /\ lookup' = [lookup EXCEPT ![Uri[o]] = o]
  /\ status' = [status EXCEPT ![o] = "ACTIVATING"]
  /\ GoTo(t, "check_on", o)
  /\ UNCHANGED <<memory, events, wakeups, arrivals, cleanup, dead, loop,
                 budget, fault>>

\* deactivate_entity marks the entity before the stage is asked.
DeactivateRequest(t, o) ==
  /\ Running
  /\ call[t] = Idle
  /\ budget > 0
  /\ Live(o)
  /\ status' = [status EXCEPT ![o] = IF @ = "DESTROYED" THEN @
                                                      ELSE "DEACTIVATING"]
  /\ budget' = budget - 1
  /\ GoTo(t, "reply_off", o)
  /\ UNCHANGED <<memory, events, wakeups, arrivals, lookup, cleanup, dead,
                 loop, fault>>

\* destroy_entity_complete, and so enqueue_deactivation, on a local entity.
DeactivateReplyOK(t) ==
  /\ Touches(t, "reply_off")
  /\ GoTo(t, "check_off", call[t].obj)
  /\ UNCHANGED <<memory, status, events, wakeups, arrivals, lookup, cleanup,
                 dead, loop, budget, fault>>

\* A request failed or timed out: verify_signal is false.
RequestFailed(t) ==
  /\ Running
  /\ call[t].at \in {"reply", "reply_off"}
  /\ Return(t)
  /\ UNCHANGED <<memory, status, events, wakeups, arrivals, lookup, cleanup,
                 dead, loop, budget, fault>>

CheckOn(t) ==
  /\ Touches(t, "check_on")
  /\ IF status[call[t].obj] = "ACTIVATING"
       THEN GoTo(t, "set_on", call[t].obj)
       ELSE Return(t)
  /\ UNCHANGED <<memory, status, events, wakeups, arrivals, lookup, cleanup,
                 dead, loop, budget, fault>>

SetOn(t) ==
  /\ Touches(t, "set_on")
  /\ status' = [status EXCEPT ![call[t].obj] = "ACTIVATION_QUEUED"]
  /\ GoTo(t, "defer_on", call[t].obj)
  /\ UNCHANGED <<memory, events, wakeups, arrivals, lookup, cleanup, dead,
                 loop, budget, fault>>

\* Mutant: enqueue_activation forgets to tell the module.
DeferActivated_NoNotice(t) == Defer(t, "defer_on", "activated", "announce")

DeferActivated(t) == Defer(t, "defer_on", "activated", "wake_on")

WakeOn(t) ==
  /\ Touches(t, "wake_on")
  /\ wakeups' = [wakeups EXCEPT ![t] = Append(@, call[t].obj)]
  /\ GoTo(t, "announce", call[t].obj)
  /\ UNCHANGED <<memory, status, events, arrivals, lookup, cleanup, dead,
                 loop, budget, fault>>

\* ZstClientHierarchy::activate_entity_complete shows the entity to the
\* hierarchy's adaptors once more.
Announce(t) ==
  /\ Touches(t, "announce")
  /\ Return(t)
  /\ UNCHANGED <<memory, status, events, wakeups, arrivals, lookup, cleanup,
                 dead, loop, budget, fault>>

\* A call goes on with the pointer of an entity that has been freed.
UseAfterFree(t) ==
  /\ Running
  /\ call[t].at \notin {"idle", "insert"}
  /\ memory[call[t].obj] = "freed"
  /\ fault' = "call"
  /\ UNCHANGED <<memory, status, events, wakeups, arrivals, lookup, cleanup,
                 dead, call, loop, budget>>

-----------------------------------------------------------------------------
(* process_events, on the application's thread or the stage's event loop.  *)

LoopGoTo(at, o) == loop' = [at |-> at, obj |-> o]

\* Mutant: the dead IDs are cleared before the queue is drained, not after.
LoopStart_ClearsDead ==
  /\ Running
  /\ loop = Idle
  /\ LoopGoTo("arrivals", NoObject)
  /\ dead' = {}
  /\ UNCHANGED <<memory, status, events, wakeups, arrivals, lookup, cleanup,
                 call, budget, fault>>

LoopStart ==
  /\ Running
  /\ loop = Idle
  /\ LoopGoTo("arrivals", NoObject)
  /\ UNCHANGED <<memory, status, events, wakeups, arrivals, lookup, cleanup,
                 dead, call, budget, fault>>

\* One deferred arriving event: the adaptors are given the pointer.
LoopArrival(t) ==
  /\ Running
  /\ loop.at = "arrivals"
  /\ arrivals[t] # <<>>
  /\ arrivals' = [arrivals EXCEPT ![t] = Tail(@)]
  /\ fault' = IF Live(Head(arrivals[t])) THEN "none" ELSE "arrival"
  /\ UNCHANGED <<memory, status, events, wakeups, lookup, cleanup, dead,
                 call, loop, budget>>

LoopArrivalsDone ==
  /\ Running
  /\ loop.at = "arrivals"
  /\ \A t \in Threads : arrivals[t] = <<>>
  /\ LoopGoTo("wakeups", NoObject)
  /\ UNCHANGED <<memory, status, events, wakeups, arrivals, lookup, cleanup,
                 dead, call, budget, fault>>

\* One has_event notice: skipped when the ID is dead, else the entity's own
\* queue is processed.
LoopWakeup(p) ==
  LET o == Head(wakeups[p]) IN
  /\ Running
  /\ loop.at = "wakeups"
  /\ wakeups[p] # <<>>
  /\ wakeups' = [wakeups EXCEPT ![p] = Tail(@)]
  /\ \/ /\ o \in dead
        /\ UNCHANGED <<loop, fault>>
     \/ /\ o \notin dead
        /\ ~Live(o)
        /\ fault' = "wakeup"
        /\ UNCHANGED loop
     \/ /\ o \notin dead
        /\ Live(o)
        /\ LoopGoTo("object", o)
        /\ UNCHANGED fault
  /\ UNCHANGED <<memory, status, events, arrivals, lookup, cleanup, dead,
                 call, budget>>

\* What processing one event does to the entity's status.  For "destroyed"
\* this is ZstHierarchy::on_synchronisable_destroyed, which ends with
\* set_destroyed.
StatusAfter(event, s) ==
  CASE event = "activated" -> "ACTIVATED"
    [] event = "deactivated" -> "DEACTIVATED"
    [] event = "destroyed" -> "DESTROYED"
    [] event = "updated" -> s

\* Mutant: remove_entity_from_lookup finds nothing to erase.
Unlisted_Kept(o) == lookup

\* The lookup without the entry under o's URI, whoever is stored there.
Unlisted(o) == [lookup EXCEPT ![Uri[o]] = NoObject]

\* on_synchronisable_destroyed finds a local entity that is ACTIVATED (again)
\* or DESTROYED (already): it deactivates it with SYNC_REPLY, which waits for
\* the stage and calls process_events.
Reenters(o, event) ==
  event = "destroyed" /\ o \in Locals /\ status[o] \in {"ACTIVATED", "DESTROYED"}

\* One event of the entity being drained.  `reaps` says for which events the
\* reaper is told, `listed` what the lookup is afterwards.
DeliverEvent(p, reaps, listed) ==
  LET o == loop.obj
      event == Head(events[o][p])
  IN
  /\ Running
  /\ loop.at = "object"
  /\ events[o][p] # <<>>
  /\ ~Reenters(o, event)
  /\ events' = [events EXCEPT ![o][p] = Tail(@)]
  /\ status' = [status EXCEPT ![o] = StatusAfter(event, @)]
  /\ cleanup' = IF event \in reaps THEN Append(cleanup, o) ELSE cleanup
  /\ lookup' = IF event \in reaps THEN listed ELSE lookup
  /\ UNCHANGED <<memory, wakeups, arrivals, dead, call, loop, budget, fault>>

\* Mutant: the reaper is told when the entity is deactivated.
LoopEvent_EarlyReap(p) == DeliverEvent(p, {"deactivated"}, lookup)

\* Mutant: the reaper is told by either farewell event.
LoopEvent_ReapTwice(p) ==
  DeliverEvent(p, {"deactivated", "destroyed"}, lookup)

LoopEvent(p) == DeliverEvent(p, {"destroyed"}, lookup)

\* process_events is called from within itself.
LoopReenter(p) ==
  /\ Running
  /\ loop.at = "object"
  /\ events[loop.obj][p] # <<>>
  /\ Reenters(loop.obj, Head(events[loop.obj][p]))
  /\ fault' = "nested"
  /\ UNCHANGED <<memory, status, events, wakeups, arrivals, lookup, cleanup,
                 dead, call, loop, budget>>

LoopObjectDone ==
  /\ Running
  /\ loop.at = "object"
  /\ \A p \in Producers : events[loop.obj][p] = <<>>
  /\ LoopGoTo("wakeups", NoObject)
  /\ UNCHANGED <<memory, status, events, wakeups, arrivals, lookup, cleanup,
                 dead, call, budget, fault>>

LoopWakeupsDone ==
  /\ Running
  /\ loop.at = "wakeups"
  /\ \A p \in Producers : wakeups[p] = <<>>
  /\ LoopGoTo("reap", NoObject)
  /\ UNCHANGED <<memory, status, events, wakeups, arrivals, lookup, cleanup,
                 dead, call, budget, fault>>

\* One cleanup operation.  Erasing a proxy from m_proxies runs its
\* destructor, which reports the ID dead unless the status is DESTROYED.
LoopReap ==
  LET o == Head(cleanup) IN
  /\ Running
  /\ loop.at = "reap"
  /\ cleanup # <<>>
  /\ cleanup' = Tail(cleanup)
  /\ \/ /\ o \in dead
        /\ UNCHANGED <<memory, lookup, dead, fault>>
     \/ /\ o \notin dead
        /\ ~Live(o)
        /\ fault' = "cleanup"
        /\ UNCHANGED <<memory, lookup, dead>>
     \/ /\ o \notin dead
        /\ Live(o)
        /\ lookup' = Unlisted(o)
        /\ memory' = IF o \in Proxies THEN [memory EXCEPT ![o] = "freed"]
                                      ELSE memory
        /\ dead' = IF o \in Proxies /\ status[o] # "DESTROYED"
                     THEN dead \union {o} ELSE dead
        /\ UNCHANGED fault
  /\ UNCHANGED <<status, events, wakeups, arrivals, call, loop, budget>>

\* reap_all is through; "the event queue is clear so remove dead IDs".
LoopEnd ==
  /\ Running
  /\ loop.at = "reap"
  /\ cleanup = <<>>
  /\ dead' = {}
  /\ loop' = Idle
  /\ UNCHANGED <<memory, status, events, wakeups, arrivals, lookup, cleanup,
                 call, budget, fault>>

-----------------------------------------------------------------------------
\* The application deletes its entity between two calls of process_events:
\* dispatch_destroyed and on_synchronisable_destroyed(this, true).  A status
\* of ACTIVATED makes it publish the removal and queue the farewell events.
DeleteLocal(o) ==
  /\ Running
  /\ loop = Idle
  /\ Live(o)
  /\ memory' = [memory EXCEPT ![o] = "freed"]
  /\ IF status[o] = "ACTIVATED"
       THEN /\ status' = [status EXCEPT ![o] = "DEACTIVATION_QUEUED"]
            /\ events' = [events EXCEPT ![o][App] =
                            @ \o <<"deactivated", "destroyed">>]
            /\ wakeups' = [wakeups EXCEPT ![App] = Append(@, o)]
       ELSE UNCHANGED <<status, events, wakeups>>
  /\ IF status[o] # "DESTROYED"
       THEN /\ dead' = dead \union {o}
            /\ lookup' = Unlisted(o)
       ELSE UNCHANGED <<dead, lookup>>
  /\ UNCHANGED <<arrivals, cleanup, call, loop, budget, fault>>

\* Nothing is said of what a program does after it touched freed memory.
Crashed == ~Running /\ UNCHANGED vars

CallStep(t) ==
  \/ CreateInsert(t)
  \/ CheckOff(t) \/ SetOff(t) \/ DeferDeactivated(t) \/ DeferDestroyed(t)
  \/ DeferUpdated(t)
  \/ ActivateReplyOK(t) \/ DeactivateReplyOK(t) \/ RequestFailed(t)
  \/ CheckOn(t) \/ SetOn(t) \/ DeferActivated(t) \/ WakeOn(t) \/ Announce(t)
  \/ Wake(t)
  \/ UseAfterFree(t)

LoopStep ==
  \/ LoopStart
  \/ \E t \in Threads : LoopArrival(t)
  \/ LoopArrivalsDone
  \/ \E p \in Producers : LoopWakeup(p)
  \/ \E p \in Producers : LoopEvent(p)
  \/ \E p \in Producers : LoopReenter(p)
  \/ LoopObjectDone
  \/ LoopWakeupsDone
  \/ LoopReap
  \/ LoopEnd

Next ==
  \/ \E t \in Creators, o \in Proxies : CreateCheck(t, o)
  \/ \E t \in Removers, o \in Proxies : RemoveFind(t, o)
  \/ \E t \in Timers, o \in Proxies : TimerFind(t, o)
  \/ \E t \in Updaters, o \in Proxies : UpdateFind(t, o)
  \/ \E t \in Activators, o \in Locals : ActivateRequest(t, o)
  \/ \E t \in Activators, o \in Locals : DeactivateRequest(t, o)
  \/ \E t \in Threads : CallStep(t)
  \/ LoopStep
  \/ \E o \in Locals : DeleteLocal(o)
  \/ Crashed

Spec == Init /\ [][Next]_vars

(***************************************************************************)
(* A thread that has begun a call goes on with it, and process_events is   *)
(* called again and again: by the stage's event loop, and on a client by   *)
(* the application, whose duty it is.  No request is ever sure to come.    *)
(***************************************************************************)
FairSpec ==
  /\ Spec
  /\ \A t \in Threads : WF_vars(CallStep(t))
  /\ WF_vars(LoopStep)

-----------------------------------------------------------------------------
(* Properties.                                                             *)

Elements(s) == {s[i] : i \in DOMAIN s}

\* Thread p has put an event in o's queue and has not yet told the module.
WakePending(o, p) ==
  /\ p \in Threads
  /\ call[p].obj = o
  /\ call[p].at \in {"defer_destroyed", "wake", "wake_on"}

\* An event that some thread deferred on an entity that is still there is
\* never stranded: the has_event notice that makes process_events deliver it
\* is queued, or about to be queued by the same thread, or the entity's queue
\* is being drained right now (the defer-then-notify order of
\* enqueue_activation, enqueue_deactivation and announce_update).
WakeupNotLost ==
  \A o \in Objects, p \in Producers :
    Live(o) /\ events[o][p] # <<>> =>
      \/ o \in Elements(wakeups[p])
      \/ WakePending(o, p)
      \/ loop = [at |-> "object", obj |-> o]

\* The application deleted its entity after the destroyed event had been
\* delivered: dispatch_destroyed then does nothing.
DeletedUntold(o) ==
  o \in Locals /\ memory[o] = "freed" /\ status[o] = "DESTROYED"

\* The lookup that every network thread reads its raw pointers from holds each
\* entity under its own URI, and never one that the reaper or the application
\* has freed.  The exception is a local entity that activate_entity listed
\* again after its destroyed event, and that was deleted before the reply: its
\* destructor leaves the entry where it is.
LookupLive ==
  \A n \in Names :
    lookup[n] # NoObject =>
      /\ Uri[lookup[n]] = n
      /\ Live(lookup[n]) \/ DeletedUntold(lookup[n])

\* A proxy can be found under its URI from its arrival until it is freed, so
\* no second proxy of that URI is ever created beside it (the duplicate check
\* of create_proxy_entity, the order of the steps of the reaper).
OneProxyPerURI ==
  \A o \in Proxies : Live(o) => lookup[Uri[o]] = o

\* The reaper is given an entity at most once, and never one already freed:
\* the unlocked check of enqueue_deactivation lets only one request through.
CleanupOnce ==
  /\ \A i, j \in DOMAIN cleanup : cleanup[i] = cleanup[j] => i = j
  /\ \A i \in DOMAIN cleanup : memory[cleanup[i]] # "freed"
  /\ fault # "cleanup"

\* The notices still queued for an entity that the application deleted are
\* all disarmed: process_events clears the dead IDs only when no notice of a
\* dead entity can be left in the queue.  The exception is an entity deleted
\* after its destroyed event was delivered: dispatch_destroyed then reports
\* nothing, although a thread may have given notice of it since.
DeadIDsCoverWakeups ==
  \A o \in Locals, p \in Producers :
    memory[o] = "freed" /\ o \in Elements(wakeups[p]) =>
      o \in dead \/ status[o] = "DESTROYED"

\* A proxy is only freed after its deactivated and destroyed events were both
\* delivered to the adaptors.
FarewellFirst ==
  [][\A o \in Proxies :
       Live(o) /\ ~Live(o)' =>
         /\ status[o] = "DESTROYED"
         /\ \A p \in Producers :
              {"deactivated", "destroyed"} \intersect
                Elements(events[o][p]) = {}]_vars

\* A proxy that was asked to go is freed in the end: its farewell events are
\* delivered, and the reaper erases it (or memory was misused before).
RemovedIsReaped ==
  \A o \in Proxies :
    status[o] = "DEACTIVATION_QUEUED" ~> memory[o] = "freed" \/ ~Running

\* An activation that was confirmed by the stage is completed by
\* process_events, unless the application deletes the entity first.
ActivationCompletes ==
  \A o \in Locals :
    status[o] = "ACTIVATION_QUEUED" ~>
      status[o] = "ACTIVATED" \/ memory[o] = "freed" \/ ~Running

=============================================================================
