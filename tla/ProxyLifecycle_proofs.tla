------------------------ MODULE ProxyLifecycle_proofs ------------------------
(***************************************************************************)
(* Theorems about ProxyLifecycle, for every set of threads, entities and   *)
(* names.                                                                  *)
(***************************************************************************)
EXTENDS ProxyLifecycle, TLAPS

\* A thread holds a pointer exactly while it is inside a call.
CallOK ==
  \A t \in Threads : IF call[t].at = "idle" THEN call[t].obj = NoObject
                                            ELSE call[t].obj \in Objects

\* process_events holds a pointer exactly while it drains an entity's queue.
LoopOK == IF loop.at = "object" THEN loop.obj \in Objects
                                ELSE loop.obj = NoObject

TypeInv == TypeOK /\ CallOK /\ LoopOK

-----------------------------------------------------------------------------
(* Facts about single steps.                                               *)

\* What a thread inside a call holds is an entity.
LEMMA CallObject ==
  ASSUME TypeInv, NEW t \in Threads, call[t].at # "idle"
  PROVE  call[t].obj \in Objects
BY DEF TypeInv, CallOK

\* The threads of the named kinds are threads, threads are producers, and
\* proxies and local entities are entities.
LEMMA Kinds ==
  /\ Creators \subseteq Threads
  /\ Removers \subseteq Threads
  /\ Timers \subseteq Threads
  /\ Updaters \subseteq Threads
  /\ Activators \subseteq Threads
  /\ Threads \subseteq Producers
  /\ App \in Producers
  /\ Proxies \subseteq Objects
  /\ Locals \subseteq Objects
BY DEF Threads, Producers, Objects

\* A thread that goes on inside its call keeps a pointer to an entity.
LEMMA GoToOK ==
  ASSUME TypeInv, NEW t \in Threads, NEW at \in CallAt \ {"idle"},
         NEW o \in Objects, GoTo(t, at, o)
  PROVE  /\ call' \in [Threads -> [at : CallAt, obj : Objects \union {NoObject}]]
         /\ CallOK'
<1>1. [at |-> at, obj |-> o] \in [at : CallAt, obj : Objects \union {NoObject}]
  OBVIOUS
<1> QED
  BY <1>1 DEF TypeInv, TypeOK, CallOK, GoTo

\* A thread that returns holds no pointer.
LEMMA ReturnOK ==
  ASSUME TypeInv, NEW t \in Threads, Return(t)
  PROVE  /\ call' \in [Threads -> [at : CallAt, obj : Objects \union {NoObject}]]
         /\ CallOK'
<1>1. Idle \in [at : CallAt, obj : Objects \union {NoObject}]
  BY DEF Idle, CallAt
<1> QED
  BY <1>1 DEF TypeInv, TypeOK, CallOK, Return, Idle

\* An event put at the end of one of an entity's queues.
LEMMA EventsAppended ==
  ASSUME TypeInv, NEW o \in Objects, NEW p \in Producers, NEW e \in Event
  PROVE  [events EXCEPT ![o][p] = Append(@, e)]
           \in [Objects -> [Producers -> Seq(Event)]]
<1>1. events[o] \in [Producers -> Seq(Event)]
  BY DEF TypeInv, TypeOK
<1>2. Append(events[o][p], e) \in Seq(Event)
  BY <1>1
<1>3. [events[o] EXCEPT ![p] = Append(@, e)] \in [Producers -> Seq(Event)]
  BY <1>1, <1>2
<1> QED
  BY <1>3 DEF TypeInv, TypeOK

\* An event taken from the front of one of an entity's queues.
LEMMA EventsTaken ==
  ASSUME TypeInv, NEW o \in Objects, NEW p \in Producers,
         events[o][p] # <<>>
  PROVE  /\ [events EXCEPT ![o][p] = Tail(@)]
              \in [Objects -> [Producers -> Seq(Event)]]
         /\ Head(events[o][p]) \in Event
<1>1. events[o] \in [Producers -> Seq(Event)]
  BY DEF TypeInv, TypeOK
<1>2. Tail(events[o][p]) \in Seq(Event) /\ Head(events[o][p]) \in Event
  BY <1>1
<1>3. [events[o] EXCEPT ![p] = Tail(@)] \in [Producers -> Seq(Event)]
  BY <1>1, <1>2
<1> QED
  BY <1>2, <1>3 DEF TypeInv, TypeOK

\* A step of Defer keeps the types.
LEMMA DeferType ==
  ASSUME TypeInv, NEW t \in Threads, NEW at \in CallAt \ {"idle"},
         NEW event \in Event, NEW next \in CallAt \ {"idle"},
         Defer(t, at, event, next)
  PROVE  TypeInv'
<1> DEFINE o == call[t].obj
<1>1. o \in Objects
  BY CallObject DEF Defer, Touches
<1>2. events' \in [Objects -> [Producers -> Seq(Event)]]
  BY <1>1, EventsAppended, Kinds DEF Defer
<1>3. GoTo(t, next, o)
  BY DEF Defer
<1>4. /\ call' \in [Threads -> [at : CallAt, obj : Objects \union {NoObject}]]
      /\ CallOK'
  BY <1>1, <1>3, GoToOK
<1> QED
  BY <1>2, <1>4 DEF TypeInv, TypeOK, LoopOK, Defer

\* The initial state has its types.
LEMMA InitType == Init => TypeInv
BY LifecycleAssumption
   DEF Init, TypeInv, TypeOK, CallOK, LoopOK, Idle, Objects, Status, Event,
       CallAt, LoopAt, Fault, Producers

\* Every step keeps the types.
LEMMA TypeStep ==
  ASSUME TypeInv, [Next]_vars
  PROVE  TypeInv'
<1> USE Kinds
<1> DEFINE CallType == [at : CallAt, obj : Objects \union {NoObject}]
<1> DEFINE CallGood == call' \in [Threads -> CallType] /\ CallOK'
<1>1. ASSUME NEW t \in Creators, NEW o \in Proxies, CreateCheck(t, o)
      PROVE  TypeInv'
  <2>1. CallGood
    BY <1>1, GoToOK DEF CreateCheck, CallAt
  <2> QED
    BY <1>1, <2>1 DEF TypeInv, TypeOK, LoopOK, CreateCheck
<1>2. ASSUME NEW t \in Removers, NEW o \in Proxies, RemoveFind(t, o)
      PROVE  TypeInv'
  <2>1. CallGood
    BY <1>2, GoToOK DEF RemoveFind, CallAt
  <2> QED
    BY <1>2, <2>1 DEF TypeInv, TypeOK, LoopOK, RemoveFind
<1>3. ASSUME NEW t \in Timers, NEW o \in Proxies, TimerFind(t, o)
      PROVE  TypeInv'
  <2>1. CallGood
    BY <1>3, GoToOK DEF TimerFind, CallAt
  <2> QED
    BY <1>3, <2>1 DEF TypeInv, TypeOK, LoopOK, TimerFind
<1>4. ASSUME NEW t \in Updaters, NEW o \in Proxies, UpdateFind(t, o)
      PROVE  TypeInv'
  <2>1. CallGood
    BY <1>4, GoToOK DEF UpdateFind, CallAt
  <2>2. budget' \in 0..MaxCalls
    BY <1>4, LifecycleAssumption DEF UpdateFind, TypeInv, TypeOK
  <2> QED
    BY <1>4, <2>1, <2>2 DEF TypeInv, TypeOK, LoopOK, UpdateFind
<1>5. ASSUME NEW t \in Activators, NEW o \in Locals, ActivateRequest(t, o)
      PROVE  TypeInv'
  <2>1. CallGood
    BY <1>5, GoToOK DEF ActivateRequest, CallAt
  <2>2. budget' \in 0..MaxCalls
    BY <1>5, LifecycleAssumption DEF ActivateRequest, TypeInv, TypeOK
  <2>3. lookup' \in [Names -> Objects \union {NoObject}]
    BY <1>5, LifecycleAssumption DEF ActivateRequest, TypeInv, TypeOK
  <2> QED
    BY <1>5, <2>1, <2>2, <2>3 DEF TypeInv, TypeOK, LoopOK, ActivateRequest
<1>6. ASSUME NEW t \in Activators, NEW o \in Locals, DeactivateRequest(t, o)
      PROVE  TypeInv'
  <2>1. CallGood
    BY <1>6, GoToOK DEF DeactivateRequest, CallAt
  <2>2. budget' \in 0..MaxCalls
    BY <1>6, LifecycleAssumption DEF DeactivateRequest, TypeInv, TypeOK
  <2>3. status' \in [Objects -> Status]
    BY <1>6 DEF DeactivateRequest, TypeInv, TypeOK, Status
  <2> QED
    BY <1>6, <2>1, <2>2, <2>3 DEF TypeInv, TypeOK, LoopOK, DeactivateRequest
<1>7. ASSUME NEW t \in Threads, CallStep(t)
      PROVE  TypeInv'
  <2> DEFINE o == call[t].obj
  <2>1. CASE CreateInsert(t)
    <3>1. o \in Objects
      BY <2>1, CallObject DEF CreateInsert
    <3>2. CallGood
      BY <2>1, ReturnOK DEF CreateInsert
    <3>3. arrivals' \in [Threads -> Seq(Objects)]
      BY <2>1, <3>1 DEF CreateInsert, TypeInv, TypeOK
    <3> QED
      BY <2>1, <3>1, <3>2, <3>3, LifecycleAssumption
         DEF TypeInv, TypeOK, LoopOK, CreateInsert, Status
  <2>2. CASE CheckOff(t)
    <3>1. CallGood
      BY <2>2, CallObject, GoToOK, ReturnOK DEF CheckOff, Touches, CallAt
    <3> QED
      BY <2>2, <3>1 DEF TypeInv, TypeOK, LoopOK, CheckOff
  <2>3. CASE SetOff(t)
    <3>1. CallGood
      BY <2>3, CallObject, GoToOK DEF SetOff, Touches, CallAt
    <3> QED
      BY <2>3, <3>1 DEF TypeInv, TypeOK, LoopOK, SetOff, Status
  <2>4. CASE DeferDeactivated(t)
    BY <2>4, DeferType DEF DeferDeactivated, CallAt, Event
  <2>5. CASE DeferDestroyed(t)
    BY <2>5, DeferType DEF DeferDestroyed, CallAt, Event
  <2>6. CASE DeferUpdated(t)
    BY <2>6, DeferType DEF DeferUpdated, CallAt, Event
  <2>7. CASE ActivateReplyOK(t)
    <3>1. o \in Objects
      BY <2>7, CallObject DEF ActivateReplyOK, Touches
    <3>2. CallGood
      BY <2>7, <3>1, GoToOK DEF ActivateReplyOK, CallAt
    <3> QED
      BY <2>7, <3>1, <3>2, LifecycleAssumption
         DEF TypeInv, TypeOK, LoopOK, ActivateReplyOK, Status
  <2>8. CASE RequestFailed(t)
    <3>1. CallGood
      BY <2>8, ReturnOK DEF RequestFailed
    <3> QED
      BY <2>8, <3>1 DEF TypeInv, TypeOK, LoopOK, RequestFailed
  <2>9. CASE CheckOn(t)
    <3>1. CallGood
      BY <2>9, CallObject, GoToOK, ReturnOK DEF CheckOn, Touches, CallAt
    <3> QED
      BY <2>9, <3>1 DEF TypeInv, TypeOK, LoopOK, CheckOn
  <2>10. CASE SetOn(t)
    <3>1. CallGood
      BY <2>10, CallObject, GoToOK DEF SetOn, Touches, CallAt
    <3> QED
      BY <2>10, <3>1 DEF TypeInv, TypeOK, LoopOK, SetOn, Status
  <2>11. CASE DeferActivated(t)
    BY <2>11, DeferType DEF DeferActivated, CallAt, Event
  <2>12. CASE WakeOn(t)
    <3>1. o \in Objects
      BY <2>12, CallObject DEF WakeOn, Touches
    <3>2. CallGood
      BY <2>12, <3>1, GoToOK DEF WakeOn, CallAt
    <3>3. wakeups' \in [Producers -> Seq(Objects)]
      BY <2>12, <3>1 DEF WakeOn, TypeInv, TypeOK
    <3> QED
      BY <2>12, <3>2, <3>3 DEF TypeInv, TypeOK, LoopOK, WakeOn
  <2>13. CASE Announce(t)
    <3>1. CallGood
      BY <2>13, ReturnOK DEF Announce
    <3> QED
      BY <2>13, <3>1 DEF TypeInv, TypeOK, LoopOK, Announce
  <2>14. CASE Wake(t)
    <3>1. o \in Objects
      BY <2>14, CallObject DEF Wake, Touches
    <3>2. CallGood
      BY <2>14, ReturnOK DEF Wake
    <3>3. wakeups' \in [Producers -> Seq(Objects)]
      BY <2>14, <3>1 DEF Wake, TypeInv, TypeOK
    <3> QED
      BY <2>14, <3>2, <3>3 DEF TypeInv, TypeOK, LoopOK, Wake
  <2>15. CASE DeactivateReplyOK(t)
    <3>1. CallGood
      BY <2>15, CallObject, GoToOK DEF DeactivateReplyOK, Touches, CallAt
    <3> QED
      BY <2>15, <3>1 DEF TypeInv, TypeOK, LoopOK, DeactivateReplyOK
  <2>16. CASE UseAfterFree(t)
    BY <2>16 DEF TypeInv, TypeOK, CallOK, LoopOK, UseAfterFree, Fault
  <2> QED
    BY <1>7, <2>1, <2>2, <2>3, <2>4, <2>5, <2>6, <2>7, <2>8, <2>9, <2>10,
       <2>11, <2>12, <2>13, <2>14, <2>15, <2>16 DEF CallStep
<1>8. ASSUME LoopStep
      PROVE  TypeInv'
  <2>1. CASE LoopStart
    BY <2>1 DEF TypeInv, TypeOK, CallOK, LoopOK, LoopStart, LoopGoTo, LoopAt
  <2>2. CASE \E t \in Threads : LoopArrival(t)
    <3>1. PICK t \in Threads : LoopArrival(t)
      BY <2>2
    <3>2. arrivals' \in [Threads -> Seq(Objects)]
      BY <3>1 DEF LoopArrival, TypeInv, TypeOK
    <3> QED
      BY <3>1, <3>2
         DEF TypeInv, TypeOK, CallOK, LoopOK, LoopArrival, Fault
  <2>3. CASE LoopArrivalsDone
    BY <2>3
       DEF TypeInv, TypeOK, CallOK, LoopOK, LoopArrivalsDone, LoopGoTo, LoopAt
  <2>4. CASE \E p \in Producers : LoopWakeup(p)
    <3>1. PICK p \in Producers : LoopWakeup(p)
      BY <2>4
    <3>2. wakeups' \in [Producers -> Seq(Objects)]
      BY <3>1 DEF LoopWakeup, TypeInv, TypeOK
    <3>3. Head(wakeups[p]) \in Objects
      BY <3>1 DEF LoopWakeup, TypeInv, TypeOK
    <3>4. loop' \in [at : LoopAt, obj : Objects \union {NoObject}] /\ LoopOK'
      BY <3>1, <3>3 DEF LoopWakeup, LoopGoTo, LoopAt, LoopOK, TypeInv, TypeOK
    <3>5. fault' \in Fault
      BY <3>1 DEF LoopWakeup, Fault, TypeInv, TypeOK
    <3> QED
      BY <3>1, <3>2, <3>4, <3>5 DEF TypeInv, TypeOK, CallOK, LoopWakeup
  <2>5. CASE \E p \in Producers : LoopEvent(p)
    <3>1. PICK p \in Producers : LoopEvent(p)
      BY <2>5
    <3> DEFINE o == loop.obj
    <3>2. o \in Objects
      BY <3>1 DEF LoopEvent, DeliverEvent, TypeInv, LoopOK
    <3>3. /\ events' \in [Objects -> [Producers -> Seq(Event)]]
          /\ Head(events[o][p]) \in Event
      BY <3>1, <3>2, EventsTaken DEF LoopEvent, DeliverEvent
    <3>4. StatusAfter(Head(events[o][p]), status[o]) \in Status
      BY <3>2, <3>3 DEF StatusAfter, Event, Status, TypeInv, TypeOK
    <3>5. status' \in [Objects -> Status]
      BY <3>1, <3>2, <3>4 DEF LoopEvent, DeliverEvent, TypeInv, TypeOK
    <3>6. cleanup' \in Seq(Objects)
      BY <3>1, <3>2 DEF LoopEvent, DeliverEvent, TypeInv, TypeOK
    <3> QED
      BY <3>1, <3>3, <3>5, <3>6
         DEF TypeInv, TypeOK, CallOK, LoopOK, LoopEvent, DeliverEvent
  <2>6. CASE LoopObjectDone
    BY <2>6
       DEF TypeInv, TypeOK, CallOK, LoopOK, LoopObjectDone, LoopGoTo, LoopAt
  <2>7. CASE LoopWakeupsDone
    BY <2>7
       DEF TypeInv, TypeOK, CallOK, LoopOK, LoopWakeupsDone, LoopGoTo, LoopAt
  <2>8. CASE LoopReap
    <3>1. Head(cleanup) \in Objects /\ cleanup' \in Seq(Objects)
      BY <2>8 DEF LoopReap, TypeInv, TypeOK
    <3>2. lookup' \in [Names -> Objects \union {NoObject}]
      BY <2>8, <3>1 DEF LoopReap, Unlisted, TypeInv, TypeOK
    <3>3. memory' \in [Objects -> {"unborn", "live", "freed"}]
      BY <2>8, <3>1 DEF LoopReap, TypeInv, TypeOK
    <3>4. dead' \in SUBSET Objects /\ fault' \in Fault
      BY <2>8, <3>1 DEF LoopReap, TypeInv, TypeOK, Fault
    <3> QED
      BY <2>8, <3>1, <3>2, <3>3, <3>4
         DEF TypeInv, TypeOK, CallOK, LoopOK, LoopReap
  <2>9. CASE \E p \in Producers : LoopReenter(p)
    BY <2>9 DEF TypeInv, TypeOK, CallOK, LoopOK, LoopReenter, Fault
  <2>10. CASE LoopEnd
    BY <2>10 DEF TypeInv, TypeOK, CallOK, LoopOK, LoopEnd, Idle, LoopAt
  <2> QED
    BY <1>8, <2>1, <2>2, <2>3, <2>4, <2>5, <2>6, <2>7, <2>8, <2>10, <2>9
       DEF LoopStep
<1>9. ASSUME NEW o \in Locals, DeleteLocal(o)
      PROVE  TypeInv'
  <2>1. events' \in [Objects -> [Producers -> Seq(Event)]]
    <3>1. events[o] \in [Producers -> Seq(Event)]
      BY DEF TypeInv, TypeOK
    <3>2. <<"deactivated", "destroyed">> \in Seq(Event)
      BY DEF Event
    <3>3. events[o][App] \o <<"deactivated", "destroyed">> \in Seq(Event)
      BY <3>1, <3>2
    <3>4. [events[o] EXCEPT ![App] = @ \o <<"deactivated", "destroyed">>]
            \in [Producers -> Seq(Event)]
      BY <3>1, <3>3
    <3> QED
      BY <1>9, <3>4 DEF DeleteLocal, TypeInv, TypeOK
  <2>2. o \in Objects
    OBVIOUS
  <2>3. /\ wakeups' \in [Producers -> Seq(Objects)]
        /\ status' \in [Objects -> Status]
    <3>1. CASE status[o] = "ACTIVATED"
      <4>1. Append(wakeups[App], o) \in Seq(Objects)
        BY <2>2 DEF TypeInv, TypeOK
      <4>2. /\ wakeups' = [wakeups EXCEPT ![App] = Append(@, o)]
            /\ status' = [status EXCEPT ![o] = "DEACTIVATION_QUEUED"]
        BY <1>9, <3>1 DEF DeleteLocal
      <4> QED
        BY <2>2, <4>1, <4>2 DEF TypeInv, TypeOK, Status
    <3>2. CASE status[o] # "ACTIVATED"
      BY <1>9, <3>2 DEF DeleteLocal, TypeInv, TypeOK
    <3> QED
      BY <3>1, <3>2
  <2>4. memory' \in [Objects -> {"unborn", "live", "freed"}]
    BY <1>9, <2>2 DEF DeleteLocal, TypeInv, TypeOK
  <2>5. dead' \in SUBSET Objects
    BY <1>9, <2>2 DEF DeleteLocal, TypeInv, TypeOK
  <2>6. lookup' \in [Names -> Objects \union {NoObject}]
    BY <1>9 DEF DeleteLocal, Unlisted, TypeInv, TypeOK
  <2> QED
    BY <1>9, <2>1, <2>3, <2>6, <2>4, <2>5
       DEF DeleteLocal, TypeInv, TypeOK, CallOK, LoopOK
<1>10. CASE UNCHANGED vars
  BY <1>10 DEF vars, TypeInv, TypeOK, CallOK, LoopOK
<1> QED
  BY <1>1, <1>2, <1>3, <1>4, <1>5, <1>7, <1>8, <1>9, <1>10, <1>6
     DEF Next, Crashed

\* Every variable keeps its type: none of the steps of the network threads,
\* of process_events or of the application takes a queue, a pointer or a
\* status out of its domain.
THEOREM TypeCorrect == Spec => []TypeOK
<1>1. Init => TypeInv
  BY InitType
<1>2. TypeInv /\ [Next]_vars => TypeInv'
  BY TypeStep
<1>3. TypeInv => TypeOK
  BY DEF TypeInv
<1> QED
  BY <1>1, <1>2, <1>3, PTL DEF Spec

-----------------------------------------------------------------------------
(* Birth and death.  An instance is constructed once: between create_      *)
(* proxy_entity and add_proxy_entity it is known to one thread alone.      *)

\* The entity that a thread is about to insert is not there yet, and no other
\* thread has its pointer.
InsertOwned ==
  \A t \in Threads : call[t].at = "insert" =>
    /\ memory[call[t].obj] = "unborn"
    /\ \A u \in Threads \ {t} : call[u].obj # call[t].obj

\* An entity that is not there yet has no events, and is not in the lookup.
UnbornUnknown ==
  /\ \A o \in Objects : memory[o] = "unborn" =>
       \A p \in Producers : events[o][p] = <<>>
  /\ \A n \in Names : lookup[n] # NoObject => memory[lookup[n]] # "unborn"

\* Only an entity that has been freed has a dead ID.
DeadAreFreed == \A o \in dead : memory[o] = "freed"

\* What holds of an entity's memory from its birth on.
Births == InsertOwned /\ UnbornUnknown /\ DeadAreFreed

\* At first no thread inserts and no ID is dead.
LEMMA InitBirths == Init => Births
BY LifecycleAssumption
   DEF Init, Births, InsertOwned, UnbornUnknown, DeadAreFreed, Idle, Objects

\* A thread that goes on with the pointer it has, takes up one to an entity
\* that has been born, or returns, leaves other threads' insertions alone.
LEMMA CallKeepsInsertOwned ==
  ASSUME TypeInv, InsertOwned, NEW t \in Threads,
         NEW at \in CallAt \ {"insert"}, NEW o \in Objects \union {NoObject},
         call' = [call EXCEPT ![t] = [at |-> at, obj |-> o]],
         o = NoObject \/ o = call[t].obj \/ memory[o] # "unborn",
         \A x \in Objects : memory[x] = "unborn" => memory'[x] = "unborn"
  PROVE  InsertOwned'
<1> SUFFICES ASSUME NEW v \in Threads, call'[v].at = "insert"
             PROVE  /\ memory'[call'[v].obj] = "unborn"
                    /\ \A u \in Threads \ {v} : call'[u].obj # call'[v].obj
  BY DEF InsertOwned
<1>1. v # t /\ call'[v] = call[v] /\ call[v].at = "insert"
  BY DEF TypeInv, TypeOK
<1>2. call[v].obj \in Objects /\ memory[call[v].obj] = "unborn"
  BY <1>1, CallObject DEF InsertOwned
<1>3. ASSUME NEW u \in Threads \ {v}
      PROVE  call'[u].obj # call'[v].obj
  <2>1. CASE u = t
    BY <1>1, <1>2, <2>1, LifecycleAssumption
       DEF InsertOwned, TypeInv, TypeOK
  <2>2. CASE u # t
    BY <1>1, <2>2 DEF InsertOwned, TypeInv, TypeOK
  <2> QED
    BY <2>1, <2>2
<1> QED
  BY <1>1, <1>2, <1>3

\* Deferring an event on an entity that is there keeps Births.
LEMMA DeferBirths ==
  ASSUME TypeInv, Births, NEW t \in Threads,
         NEW at \in CallAt \ {"idle", "insert"}, NEW event \in Event,
         NEW next \in CallAt \ {"idle", "insert"}, Defer(t, at, event, next)
  PROVE  Births'
<1>1. call[t].obj \in Objects
  BY CallObject DEF Defer, Touches
<1>2. InsertOwned'
  BY <1>1, CallKeepsInsertOwned DEF Births, Defer, GoTo
<1>3. ASSUME NEW o \in Objects, memory'[o] = "unborn", NEW p \in Producers
      PROVE  events'[o][p] = <<>>
  <2>1. o # call[t].obj /\ memory[o] = "unborn"
    BY <1>3 DEF Defer, Touches, Live
  <2>2. events'[o] = events[o]
    BY <1>1, <2>1 DEF Defer, TypeInv, TypeOK
  <2> QED
    BY <2>1, <2>2 DEF Births, UnbornUnknown
<1> QED
  BY <1>2, <1>3 DEF Births, UnbornUnknown, DeadAreFreed, Defer

\* A step that changes only the call of one thread keeps Births, if the
\* pointer it takes up is to an entity that has been born.
LEMMA CallBirths ==
  ASSUME TypeInv, Births, NEW t \in Threads,
         NEW at \in CallAt \ {"insert"}, NEW o \in Objects \union {NoObject},
         call' = [call EXCEPT ![t] = [at |-> at, obj |-> o]],
         o = NoObject \/ o = call[t].obj \/ memory[o] # "unborn",
         UNCHANGED <<memory, events, lookup, dead>>
  PROVE  Births'
<1>1. InsertOwned'
  BY CallKeepsInsertOwned DEF Births
<1> QED
  BY <1>1 DEF Births, UnbornUnknown, DeadAreFreed

\* Every step keeps Births.
LEMMA BirthsStep ==
  ASSUME TypeInv, Births, [Next]_vars
  PROVE  Births'
<1> USE Kinds
<1>1. ASSUME NEW t \in Creators, NEW o \in Proxies, CreateCheck(t, o)
      PROVE  Births'
  <2>1. InsertOwned'
    BY <1>1 DEF Births, InsertOwned, CreateCheck, GoTo, TypeInv, TypeOK
  <2> QED
    BY <1>1, <2>1 DEF Births, UnbornUnknown, DeadAreFreed, CreateCheck
<1>2. ASSUME NEW t \in Removers, NEW o \in Proxies, RemoveFind(t, o)
      PROVE  Births'
  <2>1. memory[o] # "unborn"
    BY <1>2, LifecycleAssumption DEF Births, UnbornUnknown, RemoveFind
  <2> QED
    BY <1>2, <2>1, CallBirths DEF RemoveFind, GoTo, CallAt
<1>3. ASSUME NEW t \in Timers, NEW o \in Proxies, TimerFind(t, o)
      PROVE  Births'
  BY <1>3, CallBirths DEF TimerFind, Live, GoTo, CallAt
<1>4. ASSUME NEW t \in Updaters, NEW o \in Proxies, UpdateFind(t, o)
      PROVE  Births'
  <2>1. memory[o] # "unborn"
    BY <1>4, LifecycleAssumption DEF Births, UnbornUnknown, UpdateFind
  <2> QED
    BY <1>4, <2>1, CallBirths DEF UpdateFind, GoTo, CallAt
<1>5. ASSUME NEW t \in Activators, NEW o \in Locals, ActivateRequest(t, o)
      PROVE  Births'
  <2>1. InsertOwned'
    BY <1>5, CallKeepsInsertOwned
       DEF Births, ActivateRequest, Live, GoTo, CallAt
  <2>2. UnbornUnknown'
    BY <1>5, LifecycleAssumption
       DEF Births, UnbornUnknown, ActivateRequest, Live, TypeInv, TypeOK
  <2> QED
    BY <1>5, <2>1, <2>2 DEF Births, DeadAreFreed, ActivateRequest
<1>6. ASSUME NEW t \in Activators, NEW o \in Locals, DeactivateRequest(t, o)
      PROVE  Births'
  BY <1>6, CallBirths DEF DeactivateRequest, Live, GoTo, CallAt
<1>7. ASSUME NEW t \in Threads, CallStep(t)
      PROVE  Births'
  <2> DEFINE o == call[t].obj
  <2>1. CASE CreateInsert(t)
    <3>1. o \in Objects /\ memory[o] = "unborn"
      BY <2>1, CallObject DEF CreateInsert, Births, InsertOwned
    <3>2. ASSUME NEW v \in Threads, call'[v].at = "insert"
          PROVE  /\ memory'[call'[v].obj] = "unborn"
                 /\ \A u \in Threads \ {v} : call'[u].obj # call'[v].obj
      <4>1. v # t /\ call'[v] = call[v] /\ call'[t].obj = NoObject
        BY <2>1, <3>2 DEF CreateInsert, Return, Idle, TypeInv, TypeOK
      <4>2. call[v].obj \in Objects /\ call[v].obj # o
        BY <3>2, <4>1, CallObject DEF Births, InsertOwned
      <4>3. memory'[call[v].obj] = "unborn"
        BY <2>1, <3>1, <3>2, <4>1, <4>2
           DEF CreateInsert, Births, InsertOwned, TypeInv, TypeOK
      <4>4. ASSUME NEW u \in Threads \ {v} PROVE call'[u].obj # call'[v].obj
        <5>1. call'[u].obj = IF u = t THEN NoObject ELSE call[u].obj
          BY <2>1 DEF CreateInsert, Return, Idle, TypeInv, TypeOK
        <5> QED
          BY <3>2, <4>1, <4>2, <5>1, LifecycleAssumption
             DEF Births, InsertOwned
      <4> QED
        BY <4>1, <4>3, <4>4
    <3>3. UnbornUnknown'
      BY <2>1, <3>1, LifecycleAssumption
         DEF CreateInsert, Births, UnbornUnknown, TypeInv, TypeOK
    <3>4. DeadAreFreed'
      BY <2>1, <3>1 DEF CreateInsert, Births, DeadAreFreed, TypeInv, TypeOK
    <3> QED
      BY <3>2, <3>3, <3>4 DEF Births, InsertOwned
  <2>2. CASE CheckOff(t)
    BY <2>2, CallObject, CallBirths
       DEF CheckOff, Touches, GoTo, Return, Idle, CallAt
  <2>3. CASE SetOff(t)
    BY <2>3, CallObject, CallBirths DEF SetOff, Touches, GoTo, CallAt
  <2>4. CASE DeferDeactivated(t)
    BY <2>4, DeferBirths DEF DeferDeactivated, CallAt, Event
  <2>5. CASE DeferDestroyed(t)
    BY <2>5, DeferBirths DEF DeferDestroyed, CallAt, Event
  <2>6. CASE DeferUpdated(t)
    BY <2>6, DeferBirths DEF DeferUpdated, CallAt, Event
  <2>7. CASE ActivateReplyOK(t)
    <3>1. o \in Objects /\ memory[o] = "live"
      BY <2>7, CallObject DEF ActivateReplyOK, Touches, Live
    <3>2. InsertOwned'
      BY <2>7, <3>1, CallKeepsInsertOwned
         DEF Births, ActivateReplyOK, GoTo, CallAt
    <3>3. UnbornUnknown'
      BY <2>7, <3>1, LifecycleAssumption
         DEF ActivateReplyOK, Births, UnbornUnknown, TypeInv, TypeOK
    <3> QED
      BY <2>7, <3>2, <3>3 DEF Births, DeadAreFreed, ActivateReplyOK
  <2>8. CASE RequestFailed(t)
    BY <2>8, CallBirths DEF RequestFailed, Return, Idle, CallAt
  <2>9. CASE CheckOn(t)
    BY <2>9, CallObject, CallBirths
       DEF CheckOn, Touches, GoTo, Return, Idle, CallAt
  <2>10. CASE SetOn(t)
    BY <2>10, CallObject, CallBirths DEF SetOn, Touches, GoTo, CallAt
  <2>11. CASE DeferActivated(t)
    BY <2>11, DeferBirths DEF DeferActivated, CallAt, Event
  <2>12. CASE WakeOn(t)
    BY <2>12, CallObject, CallBirths DEF WakeOn, Touches, GoTo, CallAt
  <2>13. CASE Announce(t)
    BY <2>13, CallBirths DEF Announce, Return, Idle, CallAt
  <2>14. CASE Wake(t)
    BY <2>14, CallBirths DEF Wake, Return, Idle, CallAt
  <2>15. CASE DeactivateReplyOK(t)
    BY <2>15, CallObject, CallBirths
       DEF DeactivateReplyOK, Touches, GoTo, CallAt
  <2>16. CASE UseAfterFree(t)
    BY <2>16
       DEF UseAfterFree, Births, InsertOwned, UnbornUnknown, DeadAreFreed
  <2> QED
    BY <1>7, <2>1, <2>2, <2>3, <2>4, <2>5, <2>6, <2>7, <2>8, <2>9, <2>10,
       <2>11, <2>12, <2>13, <2>14, <2>15, <2>16 DEF CallStep
<1>8. ASSUME LoopStep
      PROVE  Births'
  <2>1. CASE \E p \in Producers : LoopEvent(p)
    <3>1. PICK p \in Producers : LoopEvent(p)
      BY <2>1
    <3>2. loop.obj \in Objects /\ memory[loop.obj] # "unborn"
      BY <3>1
         DEF LoopEvent, DeliverEvent, TypeInv, LoopOK, Births, UnbornUnknown
    <3>3. ASSUME NEW o \in Objects, memory[o] = "unborn"
          PROVE  events'[o] = events[o]
      BY <3>1, <3>2, <3>3 DEF LoopEvent, DeliverEvent, TypeInv, TypeOK
    <3> QED
      BY <3>1, <3>3
         DEF LoopEvent, DeliverEvent, Births, InsertOwned, UnbornUnknown,
             DeadAreFreed
  <2>2. CASE LoopReap
    <3>1. Head(cleanup) \in Objects
      BY <2>2 DEF LoopReap, TypeInv, TypeOK
    <3>2. \A x \in Objects : memory[x] = "unborn" <=> memory'[x] = "unborn"
      BY <2>2, <3>1 DEF LoopReap, Live, TypeInv, TypeOK
    <3>3. \A n \in Names : lookup'[n] # NoObject => lookup'[n] = lookup[n]
      BY <2>2, <3>1, LifecycleAssumption
         DEF LoopReap, Unlisted, TypeInv, TypeOK
    <3>4. InsertOwned'
      BY <2>2, <3>2, CallObject DEF LoopReap, Births, InsertOwned
    <3>5. UnbornUnknown'
      BY <2>2, <3>2, <3>3 DEF LoopReap, Births, UnbornUnknown, TypeInv, TypeOK
    <3>6. DeadAreFreed'
      BY <2>2, <3>1 DEF LoopReap, Births, DeadAreFreed, TypeInv, TypeOK
    <3> QED
      BY <3>4, <3>5, <3>6 DEF Births
  <2>3. CASE LoopEnd
    BY <2>3 DEF LoopEnd, Births, InsertOwned, UnbornUnknown, DeadAreFreed
  <2>4. CASE \/ LoopStart \/ LoopArrivalsDone \/ LoopObjectDone
             \/ LoopWakeupsDone
             \/ \E t \in Threads : LoopArrival(t)
             \/ \E p \in Producers : LoopWakeup(p)
             \/ \E p \in Producers : LoopReenter(p)
    <3>1. UNCHANGED <<memory, events, lookup, dead, call>>
      BY <2>4
         DEF LoopStart, LoopArrivalsDone, LoopObjectDone, LoopWakeupsDone,
             LoopArrival, LoopWakeup, LoopReenter
    <3> QED
      BY <3>1 DEF Births, InsertOwned, UnbornUnknown, DeadAreFreed
  <2> QED
    BY <1>8, <2>1, <2>2, <2>3, <2>4 DEF LoopStep
<1>9. ASSUME NEW o \in Locals, DeleteLocal(o)
      PROVE  Births'
  <2>1. memory[o] = "live" /\ memory' = [memory EXCEPT ![o] = "freed"]
    BY <1>9 DEF DeleteLocal, Live
  <2>2. \A x \in Objects : memory[x] = "unborn" <=> memory'[x] = "unborn"
    BY <2>1 DEF TypeInv, TypeOK
  <2>3. InsertOwned'
    BY <1>9, <2>2, CallObject DEF DeleteLocal, Births, InsertOwned
  <2>4. \A n \in Names : lookup'[n] # NoObject => lookup'[n] = lookup[n]
    BY <1>9, LifecycleAssumption DEF DeleteLocal, Unlisted, TypeInv, TypeOK
  <2>5. ASSUME NEW x \in Objects, memory[x] = "unborn"
        PROVE  events'[x] = events[x]
    BY <1>9, <2>1, <2>5 DEF DeleteLocal, TypeInv, TypeOK
  <2>6. UnbornUnknown'
    BY <2>2, <2>4, <2>5 DEF Births, UnbornUnknown, TypeInv, TypeOK
  <2>7. dead' \subseteq dead \union {o}
    BY <1>9 DEF DeleteLocal
  <2>8. DeadAreFreed'
    BY <2>1, <2>7 DEF Births, DeadAreFreed, TypeInv, TypeOK
  <2> QED
    BY <2>3, <2>6, <2>8 DEF Births
<1>10. CASE UNCHANGED vars
  BY <1>10 DEF vars, Births, InsertOwned, UnbornUnknown, DeadAreFreed
<1> QED
  BY <1>1, <1>2, <1>3, <1>4, <1>5, <1>7, <1>8, <1>9, <1>10, <1>6
     DEF Next, Crashed

-----------------------------------------------------------------------------
(* Deferred events are not stranded.                                       *)

\* Appending to a queue adds its one new element.
LEMMA ElementsAppend ==
  ASSUME NEW S, NEW s \in Seq(S), NEW e \in S
  PROVE  /\ e \in Elements(Append(s, e))
         /\ \A x : x \in Elements(s) => x \in Elements(Append(s, e))
<1>1. Len(Append(s, e)) = Len(s) + 1 /\ Append(s, e)[Len(s) + 1] = e
  OBVIOUS
<1>2. \A i \in 1..Len(s) : Append(s, e)[i] = s[i]
  OBVIOUS
<1>3. DOMAIN s = 1..Len(s) /\ DOMAIN Append(s, e) = 1..(Len(s) + 1)
  OBVIOUS
<1>4. Len(s) \in Nat
  OBVIOUS
<1>5. e \in Elements(Append(s, e))
  BY <1>1, <1>3, <1>4 DEF Elements
<1>6. ASSUME NEW x, x \in Elements(s) PROVE x \in Elements(Append(s, e))
  <2>1. PICK i \in 1..Len(s) : x = s[i]
    BY <1>3, <1>6 DEF Elements
  <2>2. i \in DOMAIN Append(s, e) /\ x = Append(s, e)[i]
    BY <1>2, <1>3, <1>4, <2>1
  <2> QED
    BY <2>2 DEF Elements
<1> QED
  BY <1>5, <1>6

\* Taking the front of a queue removes at most that element.
LEMMA ElementsTail ==
  ASSUME NEW S, NEW s \in Seq(S), s # <<>>
  PROVE  \A x : x \in Elements(s) /\ x # Head(s) => x \in Elements(Tail(s))
<1> SUFFICES ASSUME NEW x, x \in Elements(s), x # Head(s)
             PROVE  x \in Elements(Tail(s))
  OBVIOUS
<1>1. PICK i \in DOMAIN s : x = s[i]
  BY DEF Elements
<1>2. i \in 1..Len(s) /\ Len(s) \in Nat /\ i # 1
  BY <1>1
<1>3. i - 1 \in 1..Len(Tail(s)) /\ Tail(s)[i - 1] = s[i]
  BY <1>2
<1>4. DOMAIN Tail(s) = 1..Len(Tail(s))
  OBVIOUS
<1> QED
  BY <1>1, <1>3, <1>4 DEF Elements

\* The three ways in which process_events is sure to come to o's events of p.
Noticed(o, p) ==
  \/ o \in Elements(wakeups[p])
  \/ WakePending(o, p)
  \/ loop = [at |-> "object", obj |-> o]

NoticeAt == {"defer_destroyed", "wake", "wake_on"}

\* A step of one thread that owes no notice, defers no event and frees or
\* creates no entity that has events.
LEMMA QuietCall ==
  ASSUME TypeInv, WakeupNotLost, NEW t \in Threads, NEW c,
         call[t].at \notin NoticeAt, call' = [call EXCEPT ![t] = c],
         UNCHANGED <<events, wakeups, loop>>,
         \A o \in Objects, p \in Producers :
           events[o][p] # <<>> /\ Live(o)' => Live(o)
  PROVE  WakeupNotLost'
<1> SUFFICES ASSUME NEW o \in Objects, NEW p \in Producers,
                    Live(o)', events'[o][p] # <<>>
             PROVE  Noticed(o, p)'
  BY DEF WakeupNotLost, Noticed
<1>1. Noticed(o, p)
  BY DEF WakeupNotLost, Noticed
<1>2. WakePending(o, p) => WakePending(o, p)'
  BY DEF WakePending, NoticeAt, TypeInv, TypeOK
<1> QED
  BY <1>1, <1>2 DEF Noticed

\* A step that defers an event and goes on to give notice of it.
LEMMA DeferNoticed ==
  ASSUME TypeInv, WakeupNotLost, NEW t \in Threads,
         NEW at \in CallAt \ {"idle"}, NEW event \in Event,
         NEW next \in NoticeAt, Defer(t, at, event, next)
  PROVE  WakeupNotLost'
<1> DEFINE b == call[t].obj
<1>1. b \in Objects
  BY CallObject DEF Defer, Touches
<1>2. call'[t].obj = b /\ call'[t].at \in NoticeAt
  BY DEF NoticeAt, Defer, GoTo, TypeInv, TypeOK
<1> SUFFICES ASSUME NEW o \in Objects, NEW p \in Producers,
                    Live(o)', events'[o][p] # <<>>
             PROVE  Noticed(o, p)'
  BY DEF WakeupNotLost, Noticed
<1>3. CASE o = b /\ p = t
  BY <1>2, <1>3 DEF Noticed, WakePending, NoticeAt
<1>4. CASE ~(o = b /\ p = t)
  <2>1. events'[o][p] = events[o][p]
    BY <1>1, <1>4 DEF Defer, TypeInv, TypeOK
  <2>2. Noticed(o, p)
    BY <2>1 DEF WakeupNotLost, Noticed, Defer, Live
  <2>3. WakePending(o, p) => WakePending(o, p)'
    BY <1>4 DEF WakePending, Defer, GoTo, TypeInv, TypeOK
  <2> QED
    BY <2>2, <2>3 DEF Noticed, Defer
<1> QED
  BY <1>3, <1>4

\* A step that gives the notice a thread owes.
LEMMA NoticeGiven ==
  ASSUME TypeInv, WakeupNotLost, NEW t \in Threads, NEW c,
         call[t].obj \in Objects, call' = [call EXCEPT ![t] = c],
         wakeups' = [wakeups EXCEPT ![t] = Append(@, call[t].obj)],
         UNCHANGED <<memory, events, loop>>
  PROVE  WakeupNotLost'
<1> USE Kinds
<1> SUFFICES ASSUME NEW o \in Objects, NEW p \in Producers,
                    Live(o)', events'[o][p] # <<>>
             PROVE  Noticed(o, p)'
  BY DEF WakeupNotLost, Noticed
<1>1. Noticed(o, p)
  BY DEF WakeupNotLost, Noticed, Live
<1>2. wakeups[t] \in Seq(Objects) /\ wakeups'[t] = Append(wakeups[t], call[t].obj)
  BY DEF TypeInv, TypeOK
<1>3. /\ call[t].obj \in Elements(wakeups'[t])
      /\ \A x : x \in Elements(wakeups[t]) => x \in Elements(wakeups'[t])
  BY <1>2, ElementsAppend
<1>4. CASE p = t
  BY <1>1, <1>3, <1>4 DEF Noticed, WakePending
<1>5. CASE p # t
  <2>1. wakeups'[p] = wakeups[p] /\ (WakePending(o, p) => WakePending(o, p)')
    BY <1>5 DEF WakePending, TypeInv, TypeOK
  <2> QED
    BY <1>1, <2>1 DEF Noticed
<1> QED
  BY <1>4, <1>5

\* Every step keeps each deferred event noticed.
LEMMA WakeupStep ==
  ASSUME TypeInv, Births, WakeupNotLost, [Next]_vars
  PROVE  WakeupNotLost'
<1> USE Kinds
<1>1. ASSUME NEW t \in Threads, call[t].at \notin NoticeAt, NEW c,
             call' = [call EXCEPT ![t] = c],
             UNCHANGED <<events, wakeups, loop, memory>>
      PROVE  WakeupNotLost'
  BY <1>1, QuietCall DEF Live
<1>2. ASSUME NEW t \in Threads, NEW o \in Objects,
             \/ CreateCheck(t, o) \/ RemoveFind(t, o) \/ TimerFind(t, o)
             \/ UpdateFind(t, o) \/ ActivateRequest(t, o)
             \/ DeactivateRequest(t, o)
      PROVE  WakeupNotLost'
  <2>1. call[t].at = "idle"
    BY <1>2
       DEF CreateCheck, RemoveFind, TimerFind, UpdateFind, ActivateRequest,
           DeactivateRequest, Idle
  <2>2. \E c : call' = [call EXCEPT ![t] = c]
    BY <1>2
       DEF CreateCheck, RemoveFind, TimerFind, UpdateFind, ActivateRequest,
           DeactivateRequest, GoTo
  <2>3. UNCHANGED <<events, wakeups, loop, memory>>
    BY <1>2
       DEF CreateCheck, RemoveFind, TimerFind, UpdateFind, ActivateRequest,
           DeactivateRequest
  <2> QED
    BY <1>1, <2>1, <2>2, <2>3 DEF NoticeAt
<1>3. ASSUME NEW t \in Threads, CallStep(t)
      PROVE  WakeupNotLost'
  <2>1. CASE CreateInsert(t)
    <3> DEFINE b == call[t].obj
    <3>1. b \in Objects /\ memory[b] = "unborn"
      BY <2>1, CallObject DEF CreateInsert, Births, InsertOwned
    <3>2. \A p \in Producers : events[b][p] = <<>>
      BY <3>1 DEF Births, UnbornUnknown
    <3>3. \A o \in Objects, p \in Producers :
            events[o][p] # <<>> /\ Live(o)' => Live(o)
      BY <2>1, <3>1, <3>2 DEF CreateInsert, Live, TypeInv, TypeOK
    <3> QED
      BY <2>1, <3>3, QuietCall DEF CreateInsert, Return, NoticeAt
  <2>2. CASE \/ CheckOff(t) \/ CheckOn(t) \/ SetOff(t) \/ SetOn(t)
             \/ ActivateReplyOK(t) \/ DeactivateReplyOK(t) \/ RequestFailed(t)
             \/ Announce(t)
    <3>1. call[t].at \notin NoticeAt
      BY <2>2
         DEF CheckOff, CheckOn, SetOff, SetOn, ActivateReplyOK,
             DeactivateReplyOK, RequestFailed, Announce, Touches, NoticeAt
    <3>2. \E c : call' = [call EXCEPT ![t] = c]
      BY <2>2
         DEF CheckOff, CheckOn, SetOff, SetOn, ActivateReplyOK,
             DeactivateReplyOK, RequestFailed, Announce, GoTo, Return
    <3>3. UNCHANGED <<events, wakeups, loop, memory>>
      BY <2>2
         DEF CheckOff, CheckOn, SetOff, SetOn, ActivateReplyOK,
             DeactivateReplyOK, RequestFailed, Announce
    <3> QED
      BY <1>1, <3>1, <3>2, <3>3
  <2>3. CASE DeferDeactivated(t)
    BY <2>3, DeferNoticed DEF DeferDeactivated, CallAt, Event, NoticeAt
  <2>4. CASE DeferDestroyed(t)
    BY <2>4, DeferNoticed DEF DeferDestroyed, CallAt, Event, NoticeAt
  <2>5. CASE DeferUpdated(t)
    BY <2>5, DeferNoticed DEF DeferUpdated, CallAt, Event, NoticeAt
  <2>6. CASE DeferActivated(t)
    BY <2>6, DeferNoticed DEF DeferActivated, CallAt, Event, NoticeAt
  <2>7. CASE Wake(t)
    BY <2>7, CallObject, NoticeGiven DEF Wake, Touches, Return
  <2>8. CASE WakeOn(t)
    BY <2>8, CallObject, NoticeGiven DEF WakeOn, Touches, GoTo
  <2>9. CASE UseAfterFree(t)
    BY <2>9 DEF UseAfterFree, WakeupNotLost, WakePending, Live
  <2> QED
    BY <1>3, <2>1, <2>2, <2>3, <2>4, <2>5, <2>6, <2>7, <2>8, <2>9
       DEF CallStep
<1>4. ASSUME LoopStep
      PROVE  WakeupNotLost'
  <2>1. CASE \/ LoopStart \/ LoopArrivalsDone \/ LoopWakeupsDone \/ LoopEnd
             \/ \E t \in Threads : LoopArrival(t)
    <3>1. UNCHANGED <<memory, events, wakeups, call>>
      BY <2>1
         DEF LoopStart, LoopArrivalsDone, LoopWakeupsDone, LoopEnd, LoopArrival
    <3>2. loop.at # "object"
      BY <2>1
         DEF LoopStart, LoopArrivalsDone, LoopWakeupsDone, LoopEnd,
             LoopArrival, Idle
    <3> QED
      BY <3>1, <3>2 DEF WakeupNotLost, WakePending, Live
  <2>2. CASE \E p \in Producers : LoopWakeup(p)
    <3>1. PICK q \in Producers : LoopWakeup(q)
      BY <2>2
    <3> SUFFICES ASSUME NEW o \in Objects, NEW p \in Producers,
                        Live(o)', events'[o][p] # <<>>
                 PROVE  Noticed(o, p)'
      BY DEF WakeupNotLost, Noticed
    <3>2. Live(o) /\ Noticed(o, p) /\ loop.at = "wakeups"
      BY <3>1 DEF LoopWakeup, WakeupNotLost, Noticed, Live
    <3>3. WakePending(o, p) => WakePending(o, p)'
      BY <3>1 DEF LoopWakeup, WakePending
    <3>4. ASSUME o \in Elements(wakeups[p])
          PROVE  Noticed(o, p)'
      <4>1. CASE p # q
        BY <3>1, <3>4, <4>1 DEF LoopWakeup, Noticed, TypeInv, TypeOK
      <4>2. CASE p = q /\ o # Head(wakeups[q])
        <5>1. wakeups[q] \in Seq(Objects) /\ wakeups[q] # <<>>
              /\ wakeups'[q] = Tail(wakeups[q])
          BY <3>1 DEF LoopWakeup, TypeInv, TypeOK
        <5> QED
          BY <3>4, <4>2, <5>1, ElementsTail DEF Noticed
      <4>3. CASE p = q /\ o = Head(wakeups[q])
        <5>1. o \notin dead
          BY <3>2 DEF Births, DeadAreFreed, Live
        <5>2. LoopGoTo("object", o)
          BY <3>1, <3>2, <4>3, <5>1 DEF LoopWakeup
        <5> QED
          BY <5>2 DEF LoopGoTo, Noticed
      <4> QED
        BY <4>1, <4>2, <4>3
    <3> QED
      BY <3>2, <3>3, <3>4 DEF Noticed
  <2>3. CASE \E p \in Producers : LoopEvent(p)
    <3>1. PICK q \in Producers : LoopEvent(q)
      BY <2>3
    <3> SUFFICES ASSUME NEW o \in Objects, NEW p \in Producers,
                        Live(o)', events'[o][p] # <<>>
                 PROVE  Noticed(o, p)'
      BY DEF WakeupNotLost, Noticed
    <3>2. CASE o = loop.obj
      BY <3>1, <3>2 DEF LoopEvent, DeliverEvent, Noticed, TypeInv, TypeOK
    <3>3. CASE o # loop.obj
      <4>1. events'[o] = events[o]
        BY <3>1, <3>3 DEF LoopEvent, DeliverEvent, TypeInv, TypeOK
      <4>2. Noticed(o, p)
        BY <3>1, <4>1
           DEF LoopEvent, DeliverEvent, WakeupNotLost, Noticed, Live
      <4> QED
        BY <3>1, <4>2 DEF LoopEvent, DeliverEvent, Noticed, WakePending
    <3> QED
      BY <3>2, <3>3
  <2>4. CASE LoopObjectDone
    <3> SUFFICES ASSUME NEW o \in Objects, NEW p \in Producers,
                        Live(o)', events'[o][p] # <<>>
                 PROVE  Noticed(o, p)'
      BY DEF WakeupNotLost, Noticed
    <3>1. o # loop.obj /\ Noticed(o, p)
      BY <2>4 DEF LoopObjectDone, WakeupNotLost, Noticed, Live
    <3> QED
      BY <2>4, <3>1 DEF LoopObjectDone, Noticed, WakePending
  <2>5. CASE \E p \in Producers : LoopReenter(p)
    BY <2>5 DEF LoopReenter, WakeupNotLost, WakePending, Live
  <2>6. CASE LoopReap
    <3>1. Head(cleanup) \in Objects
      BY <2>6 DEF LoopReap, TypeInv, TypeOK
    <3>2. \A o \in Objects : Live(o)' => Live(o)
      BY <2>6, <3>1 DEF LoopReap, Live, TypeInv, TypeOK
    <3> QED
      BY <2>6, <3>2 DEF LoopReap, WakeupNotLost, WakePending
  <2> QED
    BY <1>4, <2>1, <2>2, <2>3, <2>4, <2>6, <2>5 DEF LoopStep
<1>5. ASSUME NEW b \in Locals, DeleteLocal(b)
      PROVE  WakeupNotLost'
  <2> SUFFICES ASSUME NEW o \in Objects, NEW p \in Producers,
                      Live(o)', events'[o][p] # <<>>
               PROVE  Noticed(o, p)'
    BY DEF WakeupNotLost, Noticed
  <2>1. o # b /\ Live(o)
    BY <1>5 DEF DeleteLocal, Live, TypeInv, TypeOK
  <2>2. events'[o] = events[o]
    BY <1>5, <2>1 DEF DeleteLocal, TypeInv, TypeOK
  <2>3. Noticed(o, p)
    BY <2>1, <2>2 DEF WakeupNotLost, Noticed
  <2>4. o \in Elements(wakeups[p]) => o \in Elements(wakeups'[p])
    <3>1. CASE wakeups' = wakeups
      BY <3>1
    <3>2. CASE wakeups' = [wakeups EXCEPT ![App] = Append(@, b)]
      <4>1. wakeups[App] \in Seq(Objects) /\ b \in Objects
        BY DEF TypeInv, TypeOK
      <4>2. CASE p = App
        <5>1. wakeups'[p] = Append(wakeups[App], b)
          BY <3>2, <4>2 DEF TypeInv, TypeOK
        <5> QED
          BY <4>1, <4>2, <5>1, ElementsAppend
      <4>3. CASE p # App
        BY <3>2, <4>3 DEF TypeInv, TypeOK
      <4> QED
        BY <4>2, <4>3
    <3> QED
      BY <1>5, <3>1, <3>2 DEF DeleteLocal
  <2> QED
    BY <1>5, <2>3, <2>4 DEF DeleteLocal, Noticed, WakePending
<1>6. CASE UNCHANGED vars
  BY <1>6 DEF vars, WakeupNotLost, WakePending, Live
<1> QED
  BY <1>2, <1>3, <1>4, <1>5, <1>6 DEF Next, Crashed

\* No deferred event of an entity that is there is ever stranded, however
\* many threads defer events on it while process_events runs: the module is
\* told after the event is in the queue, a notice delivers all that is queued
\* at that time, and only the notices of dead entities are skipped.
THEOREM NoWakeupLost == Spec => []WakeupNotLost
<1> DEFINE Inv == TypeInv /\ Births /\ WakeupNotLost
<1>1. Init => Inv
  <2>1. Init => WakeupNotLost
    BY DEF Init, WakeupNotLost
  <2> QED
    BY <2>1, InitType, InitBirths
<1>2. Inv /\ [Next]_vars => Inv'
  BY TypeStep, BirthsStep, WakeupStep
<1>3. Inv => WakeupNotLost
  OBVIOUS
<1> QED
  BY <1>1, <1>2, <1>3, PTL DEF Spec

-----------------------------------------------------------------------------
(* The lookup holds no freed entity.                                       *)

\* process_events drains the queue of an entity that is there.
DrainedIsLive == loop.at = "object" => Live(loop.obj)

Listing == LookupLive /\ DrainedIsLive

\* At first the lookup holds the local entities, which are there.
LEMMA InitListing == Init => Listing
<1> SUFFICES ASSUME Init PROVE Listing
  OBVIOUS
<1>1. LookupLive
  BY LifecycleAssumption DEF Init, LookupLive, Live, Objects
<1>2. DrainedIsLive
  BY DEF Init, DrainedIsLive, Idle
<1> QED
  BY <1>1, <1>2 DEF Listing

\* A step that lists nothing new, frees nothing, and changes no status but
\* that of one entity that is there.
LEMMA QuietListing ==
  ASSUME TypeInv, Listing, NEW b \in Objects, Live(b),
         \A o \in Objects : o # b => status'[o] = status[o],
         UNCHANGED <<memory, loop>>,
         \A n \in Names : \/ lookup'[n] = lookup[n]
                          \/ lookup'[n] = b /\ n = Uri[b]
  PROVE  Listing'
<1>1. ASSUME NEW n \in Names, lookup'[n] # NoObject
      PROVE  /\ Uri[lookup'[n]] = n
             /\ Live(lookup[n])' \/ DeletedUntold(lookup[n])'
  <2>1. CASE lookup'[n] = b
    BY <2>1, <1>1 DEF Listing, LookupLive, Live
  <2>2. CASE lookup'[n] # b
    <3>1. lookup'[n] = lookup[n] /\ lookup[n] \in Objects
      BY <1>1, <2>2 DEF TypeInv, TypeOK
    <3> QED
      BY <1>1, <2>2, <3>1 DEF Listing, LookupLive, DeletedUntold, Live
  <2> QED
    BY <2>1, <2>2
<1> QED
  BY <1>1 DEF Listing, LookupLive, DrainedIsLive, Live

\* Every step keeps Listing.
LEMMA ListingStep ==
  ASSUME TypeInv, Births, Listing, [Next]_vars
  PROVE  Listing'
<1> USE Kinds
<1>1. ASSUME UNCHANGED <<memory, status, lookup>>,
             loop'.at = "object" => loop' = loop \/ Live(loop'.obj)
      PROVE  Listing'
  BY <1>1 DEF Listing, LookupLive, DrainedIsLive, DeletedUntold, Live
<1>2. ASSUME NEW t \in Threads, NEW o \in Objects,
             \/ CreateCheck(t, o) \/ RemoveFind(t, o) \/ TimerFind(t, o)
             \/ UpdateFind(t, o)
      PROVE  Listing'
  BY <1>1, <1>2 DEF CreateCheck, RemoveFind, TimerFind, UpdateFind
<1>3. ASSUME NEW t \in Threads, NEW o \in Objects,
             ActivateRequest(t, o) \/ DeactivateRequest(t, o)
      PROVE  Listing'
  BY <1>3, QuietListing, LifecycleAssumption
     DEF ActivateRequest, DeactivateRequest, TypeInv, TypeOK
<1>4. ASSUME NEW t \in Threads, CallStep(t)
      PROVE  Listing'
  <2> DEFINE b == call[t].obj
  <2>1. CASE CreateInsert(t)
    <3>1. b \in Objects /\ memory[b] = "unborn"
      BY <2>1, CallObject DEF CreateInsert, Births, InsertOwned
    <3>2. ASSUME NEW n \in Names, lookup'[n] # NoObject
          PROVE  /\ Uri[lookup'[n]] = n
                 /\ Live(lookup[n])' \/ DeletedUntold(lookup[n])'
      <4>1. CASE lookup'[n] = b
        BY <2>1, <3>1, <3>2, <4>1, LifecycleAssumption
           DEF CreateInsert, Listing, LookupLive, Live, TypeInv, TypeOK
      <4>2. CASE lookup'[n] # b
        <5>1. lookup'[n] = lookup[n] /\ lookup[n] \in Objects
          BY <2>1, <3>1, <3>2, <4>2 DEF CreateInsert, TypeInv, TypeOK
        <5> QED
          BY <2>1, <3>1, <3>2, <4>2, <5>1
             DEF CreateInsert, Listing, LookupLive, DeletedUntold, Live,
                 TypeInv, TypeOK
      <4> QED
        BY <4>1, <4>2
    <3>3. DrainedIsLive'
      BY <2>1, <3>1
         DEF CreateInsert, Listing, DrainedIsLive, Live, TypeInv, TypeOK,
             LoopOK
    <3> QED
      BY <3>2, <3>3 DEF Listing, LookupLive
  <2>2. CASE SetOff(t) \/ SetOn(t) \/ ActivateReplyOK(t)
    <3>1. b \in Objects /\ Live(b)
      BY <2>2, CallObject DEF SetOff, SetOn, ActivateReplyOK, Touches
    <3> QED
      BY <2>2, <3>1, QuietListing, LifecycleAssumption
         DEF SetOff, SetOn, ActivateReplyOK, TypeInv, TypeOK
  <2>3. CASE \/ CheckOff(t) \/ DeferDeactivated(t) \/ DeferDestroyed(t)
             \/ DeferUpdated(t) \/ RequestFailed(t) \/ CheckOn(t)
             \/ DeactivateReplyOK(t)
             \/ DeferActivated(t) \/ WakeOn(t) \/ Announce(t) \/ Wake(t)
             \/ UseAfterFree(t)
    BY <1>1, <2>3
       DEF CheckOff, DeferDeactivated, DeferDestroyed, DeferUpdated,
           RequestFailed, CheckOn, DeactivateReplyOK, DeferActivated, WakeOn,
           Announce,
           Wake, UseAfterFree, Defer
  <2> QED
    BY <1>4, <2>1, <2>2, <2>3 DEF CallStep
<1>5. ASSUME LoopStep
      PROVE  Listing'
  <2>1. CASE \/ LoopStart \/ LoopArrivalsDone \/ LoopWakeupsDone \/ LoopEnd
             \/ LoopObjectDone
             \/ \E t \in Threads : LoopArrival(t)
             \/ \E p \in Producers : LoopReenter(p)
    BY <1>1, <2>1
       DEF LoopStart, LoopArrivalsDone, LoopWakeupsDone, LoopEnd, Idle,
           LoopObjectDone, LoopArrival, LoopReenter, LoopGoTo
  <2>2. CASE \E p \in Producers : LoopWakeup(p)
    <3>1. PICK p \in Producers : LoopWakeup(p)
      BY <2>2
    <3>2. UNCHANGED <<memory, status, lookup>>
      BY <3>1 DEF LoopWakeup
    <3>3. loop' = loop \/ Live(loop'.obj)
      BY <3>1 DEF LoopWakeup, LoopGoTo
    <3> QED
      BY <1>1, <3>2, <3>3
  <2>3. CASE \E p \in Producers : LoopEvent(p)
    <3>1. PICK p \in Producers : LoopEvent(p)
      BY <2>3
    <3>2. loop.obj \in Objects /\ Live(loop.obj)
      BY <3>1
         DEF LoopEvent, DeliverEvent, Listing, DrainedIsLive, TypeInv, LoopOK
    <3>3. /\ UNCHANGED <<memory, loop, lookup>>
          /\ \A o \in Objects : o # loop.obj => status'[o] = status[o]
      BY <3>1 DEF LoopEvent, DeliverEvent, TypeInv, TypeOK
    <3> QED
      BY <3>2, <3>3, QuietListing
  <2>4. CASE LoopReap
    <3> DEFINE b == Head(cleanup)
    <3>1. /\ b \in Objects /\ status' = status /\ loop' = loop
          /\ loop.at = "reap"
      BY <2>4 DEF LoopReap, TypeInv, TypeOK
    <3>2. CASE b \in dead \/ ~Live(b)
      <4>1. UNCHANGED <<memory, lookup>>
        BY <2>4, <3>2 DEF LoopReap
      <4> QED
        BY <1>1, <3>1, <4>1
    <3>3. CASE b \notin dead /\ Live(b)
      <4>1. lookup' = Unlisted(b)
        BY <2>4, <3>3 DEF LoopReap
      <4>2. \A o \in Objects : o # b => memory'[o] = memory[o]
        BY <2>4, <3>1, <3>3 DEF LoopReap, TypeInv, TypeOK
      <4>3. ASSUME NEW n \in Names, lookup'[n] # NoObject
            PROVE  /\ lookup'[n] = lookup[n] /\ lookup[n] # b
                   /\ lookup[n] \in Objects
        BY <3>1, <4>1, <4>3
           DEF Unlisted, Listing, LookupLive, TypeInv, TypeOK
      <4>4. LookupLive'
        BY <3>1, <4>2, <4>3 DEF Listing, LookupLive, DeletedUntold, Live
      <4> QED
        BY <3>1, <4>4 DEF Listing, DrainedIsLive
    <3> QED
      BY <3>2, <3>3
  <2> QED
    BY <1>5, <2>1, <2>2, <2>3, <2>4 DEF LoopStep
<1>6. ASSUME NEW b \in Locals, DeleteLocal(b)
      PROVE  Listing'
  <2>1. DrainedIsLive'
    BY <1>6 DEF DeleteLocal, DrainedIsLive, Idle
  <2>2. /\ memory'[b] = "freed"
        /\ \A o \in Objects :
             o # b => memory'[o] = memory[o] /\ status'[o] = status[o]
    BY <1>6 DEF DeleteLocal, TypeInv, TypeOK
  <2>3. CASE status[b] = "DESTROYED"
    <3>1. lookup' = lookup /\ status' = status
      BY <1>6, <2>3 DEF DeleteLocal
    <3>2. DeletedUntold(b)'
      BY <2>2, <2>3, <3>1 DEF DeletedUntold
    <3>3. \A n \in Names : lookup[n] \in Objects \union {NoObject}
      BY DEF TypeInv, TypeOK
    <3>4. LookupLive'
      BY <2>2, <3>1, <3>2, <3>3 DEF Listing, LookupLive, DeletedUntold, Live
    <3> QED
      BY <2>1, <3>4 DEF Listing
  <2>4. CASE status[b] # "DESTROYED"
    <3>1. lookup' = Unlisted(b)
      BY <1>6, <2>4 DEF DeleteLocal
    <3>2. ASSUME NEW n \in Names, lookup'[n] # NoObject
          PROVE  /\ lookup'[n] = lookup[n] /\ lookup[n] # b
                 /\ lookup[n] \in Objects
      BY <3>1, <3>2 DEF Unlisted, Listing, LookupLive, TypeInv, TypeOK
    <3>3. LookupLive'
      BY <2>2, <3>2 DEF Listing, LookupLive, DeletedUntold, Live
    <3> QED
      BY <2>1, <3>3 DEF Listing
  <2> QED
    BY <2>3, <2>4
<1>7. CASE UNCHANGED vars
  BY <1>1, <1>7 DEF vars
<1> QED
  BY <1>2, <1>4, <1>5, <1>6, <1>7, <1>3 DEF Next, Crashed

\* Every entity is found in the lookup under its own URI only, and no pointer
\* there is to a freed proxy: the reaper erases the entry in the same step that
\* frees the proxy.  An entity that the application deletes is taken out too,
\* unless its destroyed event was delivered before (it may have been listed
\* again since, by activate_entity).
THEOREM LookupHoldsLive == Spec => []LookupLive
<1> DEFINE Inv == TypeInv /\ Births /\ Listing
<1>1. Init => Inv
  BY InitType, InitBirths, InitListing
<1>2. Inv /\ [Next]_vars => Inv'
  BY TypeStep, BirthsStep, ListingStep
<1>3. Inv => LookupLive
  BY DEF Listing
<1> QED
  BY <1>1, <1>2, <1>3, PTL DEF Spec

-----------------------------------------------------------------------------
(* One proxy for each URI.  The duplicate check of create_proxy_entity and *)
(* the insertion of add_proxy_entity are two steps, so this needs that     *)
(* only one thread creates proxies.                                        *)

\* The thread that is about to insert a proxy found its URI free, and nothing
\* has taken it since; only local entities are activated.
UriReserved ==
  \A t \in Threads :
    /\ call[t].at = "insert" => /\ t \in Creators
                                /\ call[t].obj \in Proxies
                                /\ lookup[Uri[call[t].obj]] = NoObject
    /\ call[t].at = "reply" => call[t].obj \in Locals

Unique == OneProxyPerURI /\ UriReserved

\* A step that changes the call of one thread only, and neither inserts nor
\* waits for the reply to an activation afterwards.
LEMMA CallUnique ==
  ASSUME TypeInv, Unique, NEW t \in Threads, NEW c,
         c.at \notin {"insert", "reply"}, call' = [call EXCEPT ![t] = c],
         UNCHANGED <<memory, lookup>>
  PROVE  Unique'
<1>1. OneProxyPerURI'
  BY DEF Unique, OneProxyPerURI, Live
<1>2. UriReserved'
  BY DEF Unique, UriReserved, TypeInv, TypeOK
<1> QED
  BY <1>1, <1>2 DEF Unique

\* Every step keeps Unique, if at most one thread creates proxies.
LEMMA UniqueStep ==
  ASSUME \A s, t \in Creators : s = t,
         TypeInv, Births, Unique, [Next]_vars
  PROVE  Unique'
<1> USE Kinds
<1>1. ASSUME NEW t \in Creators, NEW o \in Proxies, CreateCheck(t, o)
      PROVE  Unique'
  <2>1. OneProxyPerURI'
    BY <1>1 DEF CreateCheck, Unique, OneProxyPerURI, Live
  <2>2. UriReserved'
    BY <1>1 DEF CreateCheck, GoTo, Unique, UriReserved, TypeInv, TypeOK
  <2> QED
    BY <2>1, <2>2 DEF Unique
<1>2. ASSUME NEW t \in Threads, NEW o \in Objects,
             \/ RemoveFind(t, o) \/ TimerFind(t, o) \/ UpdateFind(t, o)
             \/ DeactivateRequest(t, o)
      PROVE  Unique'
  <2>1. \E c : c.at \notin {"insert", "reply"} /\ call' = [call EXCEPT ![t] = c]
    BY <1>2 DEF RemoveFind, TimerFind, UpdateFind, DeactivateRequest, GoTo
  <2>2. UNCHANGED <<memory, lookup>>
    BY <1>2 DEF RemoveFind, TimerFind, UpdateFind, DeactivateRequest
  <2> QED
    BY <2>1, <2>2, CallUnique
<1>3. ASSUME NEW t \in Activators, NEW o \in Locals, ActivateRequest(t, o)
      PROVE  Unique'
  <2> DEFINE kept(x) == lookup'[Uri[x]] = lookup[Uri[x]]
  <2>0. \A x \in Proxies : kept(x)
    BY <1>3, LifecycleAssumption DEF ActivateRequest, TypeInv, TypeOK
  <2>1. OneProxyPerURI'
    BY <1>3, <2>0 DEF ActivateRequest, Unique, OneProxyPerURI, Live
  <2>2. UriReserved'
    BY <1>3, <2>0
       DEF ActivateRequest, GoTo, Unique, UriReserved, TypeInv, TypeOK
  <2> QED
    BY <2>1, <2>2 DEF Unique
<1>4. ASSUME NEW t \in Threads, CallStep(t)
      PROVE  Unique'
  <2> DEFINE b == call[t].obj
  <2>1. CASE CreateInsert(t)
    <3>1. /\ t \in Creators /\ b \in Proxies /\ lookup[Uri[b]] = NoObject
      BY <2>1 DEF CreateInsert, Unique, UriReserved
    <3>2. ASSUME NEW o \in Proxies, Live(o)'
          PROVE  lookup'[Uri[o]] = o
      <4>1. CASE o = b
        BY <2>1, <3>1, <4>1, LifecycleAssumption
           DEF CreateInsert, TypeInv, TypeOK
      <4>2. CASE o # b
        <5>1. lookup[Uri[o]] = o
          BY <2>1, <3>1, <3>2, <4>2
             DEF CreateInsert, Live, Unique, OneProxyPerURI, TypeInv, TypeOK
        <5>2. Uri[o] # Uri[b] /\ Uri[o] \in Names
          BY <3>1, <5>1, LifecycleAssumption
        <5> QED
          BY <2>1, <5>1, <5>2 DEF CreateInsert, TypeInv, TypeOK
      <4> QED
        BY <4>1, <4>2
    <3>3. ASSUME NEW u \in Threads
          PROVE  /\ call'[u].at # "insert"
                 /\ call'[u].at = "reply" => call'[u].obj \in Locals
      <4>1. call'[u] = IF u = t THEN Idle ELSE call[u]
        BY <2>1 DEF CreateInsert, Return, TypeInv, TypeOK
      <4> QED
        BY <3>1, <4>1 DEF Idle, Unique, UriReserved
    <3> QED
      BY <3>2, <3>3 DEF Unique, OneProxyPerURI, UriReserved
  <2>2. CASE ActivateReplyOK(t)
    <3>1. b \in Locals
      BY <2>2 DEF ActivateReplyOK, Touches, Unique, UriReserved
    <3>2. ASSUME NEW o \in Proxies
          PROVE  lookup'[Uri[o]] = lookup[Uri[o]]
      <4>1. Uri[o] # Uri[b] /\ Uri[o] \in Names
        BY <3>1, LifecycleAssumption
      <4> QED
        BY <2>2, <4>1 DEF ActivateReplyOK, TypeInv, TypeOK
    <3>3. OneProxyPerURI'
      BY <2>2, <3>2 DEF ActivateReplyOK, Unique, OneProxyPerURI, Live
    <3>4. UriReserved'
      BY <2>2, <3>2
         DEF ActivateReplyOK, GoTo, Unique, UriReserved, TypeInv, TypeOK
    <3> QED
      BY <3>3, <3>4 DEF Unique
  <2>3. CASE \/ CheckOff(t) \/ SetOff(t) \/ DeferDeactivated(t)
             \/ DeferDestroyed(t) \/ DeferUpdated(t) \/ DeactivateReplyOK(t)
             \/ RequestFailed(t) \/ CheckOn(t) \/ SetOn(t) \/ DeferActivated(t)
             \/ WakeOn(t) \/ Announce(t) \/ Wake(t)
    <3>1. \E c : c.at \notin {"insert", "reply"} /\ call' = [call EXCEPT ![t] = c]
      BY <2>3
         DEF CheckOff, SetOff, DeferDeactivated, DeferDestroyed, DeferUpdated,
             DeactivateReplyOK, RequestFailed, CheckOn, SetOn, DeferActivated,
             WakeOn, Announce, Wake, Defer, GoTo, Return, Idle
    <3>2. UNCHANGED <<memory, lookup>>
      BY <2>3
         DEF CheckOff, SetOff, DeferDeactivated, DeferDestroyed, DeferUpdated,
             DeactivateReplyOK, RequestFailed, CheckOn, SetOn, DeferActivated,
             WakeOn, Announce, Wake, Defer
    <3> QED
      BY <3>1, <3>2, CallUnique
  <2>4. CASE UseAfterFree(t)
    BY <2>4 DEF UseAfterFree, Unique, OneProxyPerURI, UriReserved, Live
  <2> QED
    BY <1>4, <2>1, <2>2, <2>3, <2>4 DEF CallStep
<1>5. ASSUME NEW b \in Objects, Live(b), call' = call,
             lookup' = Unlisted(b),
             b \in Proxies => ~Live(b)',
             \A o \in Proxies : o # b => memory'[o] = memory[o]
      PROVE  Unique'
  <2>1. ASSUME NEW o \in Proxies, Live(o)'
        PROVE  lookup'[Uri[o]] = o
    <3>1. o # b /\ lookup[Uri[o]] = o
      BY <1>5, <2>1 DEF Unique, OneProxyPerURI, Live
    <3>2. Uri[o] # Uri[b]
      BY <1>5, <3>1, LifecycleAssumption DEF Objects, Unique, OneProxyPerURI
    <3> QED
      BY <1>5, <3>1, <3>2, LifecycleAssumption DEF Unlisted, TypeInv, TypeOK
  <2>2. \A n \in Names : lookup[n] = NoObject => lookup'[n] = NoObject
    BY <1>5, LifecycleAssumption DEF Unlisted, TypeInv, TypeOK
  <2>3. UriReserved'
    BY <1>5, <2>2, LifecycleAssumption DEF Unique, UriReserved
  <2> QED
    BY <2>1, <2>3 DEF Unique, OneProxyPerURI
<1>6. ASSUME LoopStep
      PROVE  Unique'
  <2>1. CASE LoopReap
    <3>1. PICK b \in Objects : b = Head(cleanup)
      BY <2>1 DEF LoopReap, TypeInv, TypeOK
    <3>2. CASE b \in dead \/ ~Live(b)
      <4>1. UNCHANGED <<memory, lookup, call>>
        BY <2>1, <3>1, <3>2 DEF LoopReap
      <4> QED
        BY <4>1 DEF Unique, OneProxyPerURI, UriReserved, Live
    <3>3. CASE b \notin dead /\ Live(b)
      <4>1. /\ call' = call /\ lookup' = Unlisted(b)
            /\ memory' = IF b \in Proxies THEN [memory EXCEPT ![b] = "freed"]
                                          ELSE memory
        BY <2>1, <3>1, <3>3 DEF LoopReap
      <4>2. /\ b \in Proxies => ~Live(b)'
            /\ \A o \in Proxies : o # b => memory'[o] = memory[o]
        BY <4>1 DEF Live, TypeInv, TypeOK
      <4> QED
        BY <1>5, <3>3, <4>1, <4>2
    <3> QED
      BY <3>2, <3>3
  <2>2. CASE ~LoopReap
    <3>1. UNCHANGED <<memory, lookup, call>>
      BY <1>6, <2>2
         DEF LoopStep, LoopStart, LoopArrival, LoopArrivalsDone, LoopWakeup,
             LoopEvent, DeliverEvent, LoopReenter, LoopObjectDone,
             LoopWakeupsDone, LoopEnd
    <3> QED
      BY <3>1 DEF Unique, OneProxyPerURI, UriReserved, Live
  <2> QED
    BY <2>1, <2>2
<1>7. ASSUME NEW b \in Locals, DeleteLocal(b)
      PROVE  Unique'
  <2>1. /\ call' = call /\ Live(b) /\ b \notin Proxies
        /\ \A o \in Proxies : memory'[o] = memory[o]
    BY <1>7, LifecycleAssumption DEF DeleteLocal, TypeInv, TypeOK
  <2>2. CASE lookup' = lookup
    BY <2>1, <2>2 DEF Unique, OneProxyPerURI, UriReserved, Live
  <2>3. CASE lookup' = Unlisted(b)
    BY <1>5, <2>1, <2>3
  <2> QED
    BY <1>7, <2>2, <2>3 DEF DeleteLocal
<1>8. CASE UNCHANGED vars
  BY <1>8 DEF vars, Unique, OneProxyPerURI, UriReserved, Live
<1> QED
  BY <1>1, <1>2, <1>3, <1>4, <1>6, <1>7, <1>8 DEF Next, Crashed

\* If one thread creates proxies, every proxy that is there can be found under
\* its URI, and so no two of one URI are ever there together.  (A client has
\* one such thread.  A stage has one for each of its transports; see the
\* hazard at create_client_handler.)
THEOREM ProxyUnique ==
  ASSUME \A s, t \in Creators : s = t
  PROVE  Spec => []OneProxyPerURI
<1> DEFINE Inv == TypeInv /\ Births /\ Unique
<1>1. Init => Inv
  <2>1. Init => OneProxyPerURI
    BY LifecycleAssumption, Kinds DEF Init, OneProxyPerURI, Live
  <2>2. Init => UriReserved
    BY DEF Init, UriReserved, Idle
  <2> QED
    BY <2>1, <2>2, InitType, InitBirths DEF Unique
<1>2. Inv /\ [Next]_vars => Inv'
  BY TypeStep, BirthsStep, UniqueStep
<1>3. Inv => OneProxyPerURI
  BY DEF Unique
<1> QED
  BY <1>1, <1>2, <1>3, PTL DEF Spec

-----------------------------------------------------------------------------
(* Dead IDs.  The set of dead IDs is cleared at the end of process_events, *)
(* which is sound because no notice of a deleted entity is left by then.   *)

\* Appending adds no other element, and the rest of a queue has no others.
LEMMA ElementsOnly ==
  ASSUME NEW S, NEW s \in Seq(S)
  PROVE  /\ \A e \in S : \A x \in Elements(Append(s, e)) :
              x \in Elements(s) \/ x = e
         /\ s # <<>> => \A x \in Elements(Tail(s)) : x \in Elements(s)
<1>1. ASSUME NEW e \in S, NEW x \in Elements(Append(s, e))
      PROVE  x \in Elements(s) \/ x = e
  <2>1. PICK i \in 1..(Len(s) + 1) : x = Append(s, e)[i]
    BY <1>1 DEF Elements
  <2>2. i \in 1..Len(s) => x = s[i]
    BY <2>1
  <2>3. i = Len(s) + 1 => x = e
    BY <2>1
  <2>4. i \in 1..Len(s) \/ i = Len(s) + 1
    BY <2>1
  <2> QED
    BY <2>2, <2>3, <2>4 DEF Elements
<1>2. ASSUME s # <<>>, NEW x \in Elements(Tail(s))
      PROVE  x \in Elements(s)
  <2>1. PICK i \in 1..Len(Tail(s)) : x = Tail(s)[i]
    BY <1>2 DEF Elements
  <2>2. i + 1 \in 1..Len(s) /\ x = s[i + 1]
    BY <1>2, <2>1
  <2> QED
    BY <2>2 DEF Elements
<1> QED
  BY <1>1, <1>2

\* Once the has_event queue was drained, it holds no notice of an entity that
\* is gone: who gives notice of an entity touches it.  What process_events is
\* draining has not been deleted.
Disarmed ==
  /\ DeadIDsCoverWakeups
  /\ loop.at = "reap" => \A o \in Locals, p \in Producers :
       memory[o] = "freed" => o \notin Elements(wakeups[p])
  /\ loop.at = "object" /\ loop.obj \in Locals => memory[loop.obj] # "freed"

\* A step that deletes no local entity, gives no notice of one that is gone
\* and clears no dead IDs, and does not end the draining of the queue.
LEMMA QuietDisarmed ==
  ASSUME TypeInv, Disarmed,
         \A o \in Locals : memory'[o] = "freed" =>
           /\ memory[o] = "freed" /\ status'[o] = status[o]
           /\ \A p \in Producers :
                o \in Elements(wakeups'[p]) => o \in Elements(wakeups[p]),
         dead \subseteq dead',
         loop'.at = "reap" => loop.at = "reap",
         loop'.at = "object" /\ loop'.obj \in Locals =>
           memory'[loop'.obj] # "freed"
  PROVE  Disarmed'
BY DEF Disarmed, DeadIDsCoverWakeups

\* Every step keeps Disarmed.
LEMMA DisarmedStep ==
  ASSUME TypeInv, Births, Disarmed, [Next]_vars
  PROVE  Disarmed'
<1> USE Kinds
<1>1. ASSUME UNCHANGED <<memory, status, wakeups, dead, loop>>
      PROVE  Disarmed'
  BY <1>1 DEF Disarmed, DeadIDsCoverWakeups
<1>2. ASSUME NEW t \in Threads, NEW o \in Objects,
             \/ CreateCheck(t, o) \/ RemoveFind(t, o) \/ TimerFind(t, o)
             \/ UpdateFind(t, o) \/ ActivateRequest(t, o)
      PROVE  Disarmed'
  BY <1>1, <1>2
     DEF CreateCheck, RemoveFind, TimerFind, UpdateFind, ActivateRequest
<1>3. ASSUME NEW t \in Threads, NEW b \in Objects, Live(b),
             \A o \in Objects : o # b => status'[o] = status[o],
             UNCHANGED <<memory, wakeups, dead, loop>>
      PROVE  Disarmed'
  <2>1. \A o \in Locals : memory'[o] = "freed" => o # b
    BY <1>3 DEF Live
  <2>2. loop.at = "object" /\ loop.obj \in Locals => memory[loop.obj] # "freed"
    BY DEF Disarmed
  <2> QED
    BY <1>3, <2>1, <2>2, QuietDisarmed
<1>4. ASSUME NEW t \in Threads, NEW o \in Objects, DeactivateRequest(t, o)
      PROVE  Disarmed'
  BY <1>3, <1>4 DEF DeactivateRequest, TypeInv, TypeOK
<1>5. ASSUME NEW t \in Threads, CallStep(t)
      PROVE  Disarmed'
  <2> DEFINE b == call[t].obj
  <2>1. CASE CreateInsert(t)
    <3>1. b \in Objects /\ memory[b] = "unborn"
      BY <2>1, CallObject DEF CreateInsert, Births, InsertOwned
    <3>2. /\ memory'[b] = "live"
          /\ \A o \in Objects : o # b => /\ memory'[o] = memory[o]
                                         /\ status'[o] = status[o]
          /\ UNCHANGED <<wakeups, dead, loop>>
      BY <2>1, <3>1 DEF CreateInsert, TypeInv, TypeOK
    <3>3. loop.at = "object" /\ loop.obj \in Locals =>
            memory'[loop.obj] # "freed"
      BY <3>2 DEF Disarmed
    <3> QED
      BY <3>2, <3>3, QuietDisarmed
  <2>2. CASE SetOff(t) \/ SetOn(t) \/ ActivateReplyOK(t)
    <3>1. b \in Objects /\ Live(b)
      BY <2>2, CallObject DEF SetOff, SetOn, ActivateReplyOK, Touches
    <3>2. /\ \A o \in Objects : o # b => status'[o] = status[o]
          /\ UNCHANGED <<memory, wakeups, dead, loop>>
      BY <2>2, <3>1 DEF SetOff, SetOn, ActivateReplyOK, TypeInv, TypeOK
    <3> QED
      BY <1>3, <3>1, <3>2
  <2>3. CASE Wake(t) \/ WakeOn(t)
    <3>1. b \in Objects /\ Live(b)
      BY <2>3, CallObject DEF Wake, WakeOn, Touches
    <3>2. /\ wakeups' = [wakeups EXCEPT ![t] = Append(@, b)]
          /\ UNCHANGED <<memory, status, dead, loop>>
      BY <2>3 DEF Wake, WakeOn
    <3>3. ASSUME NEW o \in Locals, memory[o] = "freed", NEW p \in Producers,
                 o \in Elements(wakeups'[p])
          PROVE  o \in Elements(wakeups[p])
      <4>1. o # b
        BY <3>1, <3>3 DEF Live
      <4>2. CASE p = t
        BY <3>1, <3>2, <3>3, <4>1, <4>2, ElementsOnly DEF TypeInv, TypeOK
      <4>3. CASE p # t
        BY <3>2, <3>3, <4>3 DEF TypeInv, TypeOK
      <4> QED
        BY <4>2, <4>3
    <3> QED
      BY <3>2, <3>3, QuietDisarmed DEF Disarmed
  <2>4. CASE \/ CheckOff(t) \/ DeferDeactivated(t) \/ DeferDestroyed(t)
             \/ DeferUpdated(t) \/ RequestFailed(t) \/ CheckOn(t)
             \/ DeactivateReplyOK(t) \/ DeferActivated(t) \/ Announce(t)
             \/ UseAfterFree(t)
    BY <1>1, <2>4
       DEF CheckOff, DeferDeactivated, DeferDestroyed, DeferUpdated,
           RequestFailed, CheckOn, DeactivateReplyOK, DeferActivated, Announce,
           UseAfterFree, Defer
  <2> QED
    BY <1>5, <2>1, <2>2, <2>3, <2>4 DEF CallStep
<1>6. ASSUME LoopStep
      PROVE  Disarmed'
  <2>1. CASE \/ LoopStart \/ LoopArrivalsDone \/ LoopObjectDone
             \/ \E t \in Threads : LoopArrival(t)
             \/ \E p \in Producers : LoopReenter(p)
    <3>1. UNCHANGED <<memory, status, wakeups, dead>>
      BY <2>1
         DEF LoopStart, LoopArrivalsDone, LoopObjectDone, LoopArrival,
             LoopReenter
    <3>2. loop' = loop \/ loop'.at \in {"arrivals", "wakeups"}
      BY <2>1
         DEF LoopStart, LoopArrivalsDone, LoopObjectDone, LoopArrival,
             LoopReenter, LoopGoTo
    <3> QED
      BY <3>1, <3>2, QuietDisarmed DEF Disarmed
  <2>2. CASE \E p \in Producers : LoopWakeup(p)
    <3>1. PICK q \in Producers : LoopWakeup(q)
      BY <2>2
    <3> DEFINE b == Head(wakeups[q])
    <3>2. /\ wakeups[q] \in Seq(Objects) /\ wakeups[q] # <<>>
          /\ wakeups' = [wakeups EXCEPT ![q] = Tail(@)]
          /\ UNCHANGED <<memory, status, dead>>
      BY <3>1 DEF LoopWakeup, TypeInv, TypeOK
    <3>3. \A p \in Producers :
            \A o \in Elements(wakeups'[p]) : o \in Elements(wakeups[p])
      BY <3>2, ElementsOnly DEF TypeInv, TypeOK
    <3>4. \/ loop' = loop /\ loop.at = "wakeups"
          \/ loop' = [at |-> "object", obj |-> b] /\ Live(b)
      BY <3>1 DEF LoopWakeup, LoopGoTo
    <3>5. loop'.at # "reap"
      BY <3>4
    <3>6. loop'.at = "object" => memory'[loop'.obj] # "freed"
      BY <3>2, <3>4 DEF Live
    <3> QED
      BY <3>2, <3>3, <3>5, <3>6, QuietDisarmed
  <2>3. CASE \E p \in Producers : LoopEvent(p)
    <3>1. PICK q \in Producers : LoopEvent(q)
      BY <2>3
    <3>2. /\ loop.at = "object" /\ loop.obj \in Objects
          /\ \A o \in Objects : o # loop.obj => status'[o] = status[o]
          /\ UNCHANGED <<memory, wakeups, dead, loop>>
      BY <3>1 DEF LoopEvent, DeliverEvent, TypeInv, TypeOK, LoopOK
    <3>3. \A o \in Locals : memory[o] = "freed" => o # loop.obj
      BY <3>2 DEF Disarmed
    <3> QED
      BY <3>2, <3>3, QuietDisarmed DEF Disarmed
  <2>4. CASE LoopWakeupsDone
    <3>1. /\ loop'.at = "reap" /\ \A p \in Producers : wakeups[p] = <<>>
          /\ UNCHANGED <<memory, status, wakeups, dead>>
      BY <2>4 DEF LoopWakeupsDone, LoopGoTo
    <3>2. \A p \in Producers : Elements(wakeups'[p]) = {}
      BY <3>1 DEF Elements
    <3> QED
      BY <3>1, <3>2 DEF Disarmed, DeadIDsCoverWakeups
  <2>5. CASE LoopReap
    <3>1. /\ \A o \in Locals : memory'[o] = memory[o]
          /\ dead \subseteq dead'
          /\ UNCHANGED <<status, wakeups, loop>>
      BY <2>5, LifecycleAssumption DEF LoopReap, TypeInv, TypeOK
    <3>2. loop.at = "reap"
      BY <2>5 DEF LoopReap
    <3> QED
      BY <3>1, <3>2, QuietDisarmed
  <2>6. CASE LoopEnd
    <3>1. /\ loop.at = "reap" /\ loop'.at = "idle"
          /\ UNCHANGED <<memory, status, wakeups>>
      BY <2>6 DEF LoopEnd, Idle
    <3> QED
      BY <3>1 DEF Disarmed, DeadIDsCoverWakeups
  <2> QED
    BY <1>6, <2>1, <2>2, <2>3, <2>4, <2>5, <2>6 DEF LoopStep
<1>7. ASSUME NEW b \in Locals, DeleteLocal(b)
      PROVE  Disarmed'
  <2>1. /\ loop.at = "idle" /\ loop' = loop
        /\ \A o \in Objects : o # b => /\ memory'[o] = memory[o]
                                       /\ status'[o] = status[o]
        /\ dead \subseteq dead'
        /\ status[b] = "DESTROYED" \/ b \in dead'
        /\ status[b] = "DESTROYED" => status'[b] = status[b]
    BY <1>7 DEF DeleteLocal, Idle, TypeInv, TypeOK
  <2>2. ASSUME NEW o \in Locals, o # b, NEW p \in Producers,
               o \in Elements(wakeups'[p])
        PROVE  o \in Elements(wakeups[p])
    <3>1. CASE p = App /\ status[b] = "ACTIVATED"
      <4>1. wakeups'[App] = Append(wakeups[App], b)
        BY <1>7, <3>1 DEF DeleteLocal, TypeInv, TypeOK
      <4> QED
        BY <2>2, <3>1, <4>1, ElementsOnly DEF TypeInv, TypeOK
    <3>2. CASE ~(p = App /\ status[b] = "ACTIVATED")
      BY <1>7, <2>2, <3>2 DEF DeleteLocal, TypeInv, TypeOK
    <3> QED
      BY <3>1, <3>2
  <2>3. DeadIDsCoverWakeups'
    BY <2>1, <2>2 DEF Disarmed, DeadIDsCoverWakeups
  <2> QED
    BY <2>1, <2>3 DEF Disarmed
<1>8. CASE UNCHANGED vars
  BY <1>1, <1>8 DEF vars
<1> QED
  BY <1>2, <1>4, <1>5, <1>6, <1>7, <1>8 DEF Next, Crashed

\* process_events never follows a notice to an entity that the application
\* deleted while it was not DESTROYED: its ID stays dead as long as a notice
\* of it is queued, with any number of threads and entities.
THEOREM DeadIDsKept == Spec => []DeadIDsCoverWakeups
<1> DEFINE Inv == TypeInv /\ Births /\ Disarmed
<1>1. Init => Inv
  <2>1. Init => Disarmed
    BY LifecycleAssumption
       DEF Init, Disarmed, DeadIDsCoverWakeups, Idle, Objects, Elements
  <2> QED
    BY <2>1, InitType, InitBirths
<1>2. Inv /\ [Next]_vars => Inv'
  BY TypeStep, BirthsStep, DisarmedStep
<1>3. Inv => DeadIDsCoverWakeups
  BY DEF Disarmed
<1> QED
  BY <1>1, <1>2, <1>3, PTL DEF Spec

-----------------------------------------------------------------------------
(* The farewell of a proxy.  enqueue_deactivation checks the status in one *)
(* step and changes it in another, so this needs that at most one thread   *)
(* removes proxies.  It then says each farewell event once and in order,   *)
(* and only what has said farewell comes before the reaper.                *)

Farewell == {"deactivated", "destroyed"}

\* The threads that remove proxies, and the steps of enqueue_deactivation
\* between its check and the second farewell event.
Off == Removers \union Timers
OffAt == {"set_off", "defer_off", "defer_destroyed"}

\* The steps of the calls that only a local entity's requests make.
OwnAt == {"reply", "reply_off", "check_on", "set_on", "defer_on"}

\* The farewell events of o still to be delivered, and who is sending one.
Unsaid(o) ==
  \A p \in Producers : Farewell \intersect Elements(events[o][p]) = {}
NobodyAt(o, steps) ==
  \A t \in Threads : call[t].obj = o => call[t].at \notin steps

\* Only a thread that removes proxies says farewell to o; nothing activates a
\* proxy again.
OffOnly(o) ==
  /\ \A p \in Producers : \A x \in Elements(events[o][p]) :
       /\ x \in Farewell => p \in Off
       /\ x # "activated"
  /\ \A t \in Threads : call[t].obj = o =>
       /\ call[t].at \in OffAt \union {"check_off"} => t \in Off
       /\ call[t].at \notin OwnAt
  /\ status[o] # "DEACTIVATING"

\* No farewell event comes after a destroyed event in the queue s.
InOrder(s) ==
  \A i, j \in DOMAIN s : s[i] = "destroyed" /\ s[j] \in Farewell => j <= i

\* Whoever sends the destroyed event has sent the other one.
DestroyedLast(o) ==
  \A p \in Producers :
    /\ InOrder(events[o][p])
    /\ "destroyed" \in Elements(events[o][p]) => NobodyAt(o, OffAt)

\* Before the farewell nothing of it has happened.
Undisturbed(o) ==
  /\ memory[o] = "unborn" \/ status[o] = "ACTIVATED" =>
       /\ Unsaid(o)
       /\ NobodyAt(o, OffAt \ {"set_off"})
       /\ o \notin Elements(cleanup)
  /\ status[o] # "ACTIVATED" => NobodyAt(o, {"set_off"})

\* The reaper has o, or had it.
Gone(o) == o \in Elements(cleanup) \/ memory[o] = "freed"

\* After the farewell nothing of it is left to happen.
Departed(o) ==
  Gone(o) => status[o] = "DESTROYED" /\ Unsaid(o) /\ NobodyAt(o, OffAt)

Orderly(o) == OffOnly(o) /\ DestroyedLast(o) /\ Undisturbed(o) /\ Departed(o)

ProxiesOrderly == \A o \in Proxies : Orderly(o)

\* A queue stays in order when something is put at its end that is no
\* farewell, or comes before any destroyed event.
LEMMA InOrderAppend ==
  ASSUME NEW s \in Seq(Event), InOrder(s), NEW e \in Event,
         e \notin Farewell \/ "destroyed" \notin Elements(s)
  PROVE  InOrder(Append(s, e))
<1> SUFFICES ASSUME NEW i \in 1..(Len(s) + 1), NEW j \in 1..(Len(s) + 1),
                    Append(s, e)[i] = "destroyed", Append(s, e)[j] \in Farewell
             PROVE  j <= i
  BY DEF InOrder
<1>1. DOMAIN s = 1..Len(s) /\ Len(s) \in Nat
  OBVIOUS
<1>2. i = Len(s) + 1 => j <= i
  OBVIOUS
<1>3. i # Len(s) + 1 => i \in 1..Len(s) /\ s[i] = "destroyed"
  OBVIOUS
<1>4. i # Len(s) + 1 => e \notin Farewell
  BY <1>1, <1>3 DEF Elements
<1>5. i # Len(s) + 1 => j \in 1..Len(s) /\ s[j] \in Farewell
  BY <1>4
<1> QED
  BY <1>1, <1>2, <1>3, <1>5 DEF InOrder

\* The rest of a queue is in order; after a destroyed event it holds no
\* farewell.
LEMMA InOrderTail ==
  ASSUME NEW s \in Seq(Event), InOrder(s), s # <<>>
  PROVE  /\ InOrder(Tail(s))
         /\ Head(s) = "destroyed" => Farewell \intersect Elements(Tail(s)) = {}
<1>1. /\ DOMAIN s = 1..Len(s) /\ Len(s) \in Nat /\ Head(s) = s[1]
      /\ DOMAIN Tail(s) = 1..(Len(s) - 1)
      /\ \A i \in 1..(Len(s) - 1) : Tail(s)[i] = s[i + 1]
  OBVIOUS
<1>2. ASSUME NEW i \in 1..(Len(s) - 1), NEW j \in 1..(Len(s) - 1),
             Tail(s)[i] = "destroyed", Tail(s)[j] \in Farewell
      PROVE  j <= i
  <2>1. i + 1 \in DOMAIN s /\ j + 1 \in DOMAIN s
    BY <1>1
  <2>2. s[i + 1] = "destroyed" /\ s[j + 1] \in Farewell
    BY <1>1, <1>2
  <2>3. j + 1 <= i + 1
    BY <2>1, <2>2 DEF InOrder
  <2> QED
    BY <2>3
<1>3. ASSUME Head(s) = "destroyed", NEW x \in Farewell \intersect Elements(Tail(s))
      PROVE  FALSE
  <2>1. PICK i \in 1..(Len(s) - 1) : x = s[i + 1]
    BY <1>1, <1>3 DEF Elements
  <2>2. 1 \in DOMAIN s /\ i + 1 \in DOMAIN s
    BY <1>1, <2>1
  <2>3. i + 1 <= 1
    BY <1>1, <1>3, <2>1, <2>2 DEF InOrder
  <2> QED
    BY <2>1, <2>3
<1> QED
  BY <1>1, <1>2, <1>3 DEF InOrder

\* A step that brings o's removal no further: no new event but "updated", no
\* thread that goes on with it beyond finding o, and only the reaper frees.
LEMMA QuietOrderly ==
  ASSUME NEW o \in Proxies, Orderly(o),
         \A p \in Producers :
           /\ \A x \in Elements(events'[o][p]) :
                x = "updated" \/ x \in Elements(events[o][p])
           /\ InOrder(events'[o][p]),
         status'[o] = status[o],
         memory'[o] = memory[o] \/ (memory'[o] = "freed" /\ Gone(o)),
         o \in Elements(cleanup') => o \in Elements(cleanup),
         \A t \in Threads : call'[t].obj = o =>
           \/ call'[t] = call[t]
           \/ call'[t].at \notin OffAt \union OwnAt \union {"check_off"}
           \/ call'[t].at = "check_off" /\ t \in Off
  PROVE  Orderly(o)'
<1>1. OffOnly(o)'
  BY DEF Orderly, OffOnly, Farewell, OffAt, OwnAt
<1>2. \A S \in SUBSET OffAt : NobodyAt(o, S) => NobodyAt(o, S)'
  BY DEF NobodyAt, OffAt
<1>3. Unsaid(o) => Unsaid(o)'
  BY DEF Unsaid, Farewell
<1>4. DestroyedLast(o)'
  BY <1>2 DEF Orderly, DestroyedLast
<1>5. Undisturbed(o)'
  <2>1. (memory[o] = "unborn" \/ status[o] = "ACTIVATED")' =>
          memory[o] = "unborn" \/ status[o] = "ACTIVATED"
    OBVIOUS
  <2>2. OffAt \ {"set_off"} \in SUBSET OffAt /\ {"set_off"} \in SUBSET OffAt
    BY DEF OffAt
  <2> QED
    BY <1>2, <1>3, <2>1, <2>2 DEF Orderly, Undisturbed
<1>6. Departed(o)'
  BY <1>2, <1>3 DEF Orderly, Departed, Gone
<1> QED
  BY <1>1, <1>4, <1>5, <1>6 DEF Orderly

\* A step that changes nothing of o, and after which a thread that holds o
\* has done no more than find it.
LEMMA CallOrderly ==
  ASSUME NEW o \in Proxies, Orderly(o),
         events'[o] = events[o], status'[o] = status[o],
         memory'[o] = memory[o] \/ (memory'[o] = "freed" /\ Gone(o)),
         o \in Elements(cleanup') => o \in Elements(cleanup),
         \A t \in Threads : call'[t].obj = o =>
           \/ call'[t] = call[t]
           \/ call'[t].at \notin OffAt \union OwnAt \union {"check_off"}
           \/ call'[t].at = "check_off" /\ t \in Off
  PROVE  Orderly(o)'
<1>1. \A p \in Producers : InOrder(events'[o][p])
  BY DEF Orderly, DestroyedLast
<1> QED
  BY <1>1, QuietOrderly

\* The steps of enqueue_deactivation keep the order of o's farewell, if at
\* most one thread removes proxies.
LEMMA RemovalOrderly ==
  ASSUME \A s, t \in Off : s = t,
         TypeInv, NEW o \in Proxies, Orderly(o), NEW t \in Threads,
         call[t].obj = o,
         \/ CheckOff(t) \/ SetOff(t) \/ DeferDeactivated(t)
         \/ DeferDestroyed(t)
  PROVE  Orderly(o)'
<1> USE Kinds
<1>1. o \in Objects /\ Live(o)
  BY DEF CheckOff, SetOff, DeferDeactivated, DeferDestroyed, Defer, Touches
<1>2. t \in Off
  BY DEF CheckOff, SetOff, DeferDeactivated, DeferDestroyed, Defer, Touches,
         Orderly, OffOnly, OffAt
<1>3. \A s \in Threads : s # t /\ call[s].obj = o =>
        call[s].at \notin OffAt \union {"check_off"}
  BY <1>2 DEF Orderly, OffOnly
<1>4. \A s \in Threads : s # t => call'[s] = call[s]
  BY DEF CheckOff, SetOff, DeferDeactivated, DeferDestroyed, Defer, GoTo,
         Return, TypeInv, TypeOK
<1>5. \A s \in Threads : s # t /\ call'[s].obj = o =>
        call'[s].at \notin OffAt \union OwnAt \union {"check_off"}
  BY <1>3, <1>4 DEF Orderly, OffOnly
<1>6. CASE CheckOff(t)
  <2>1. /\ call[t].at = "check_off"
        /\ UNCHANGED <<memory, status, events, cleanup>>
    BY <1>6 DEF CheckOff, Touches
  <2>2. CASE status[o] \in {"ACTIVATED", "DEACTIVATING"}
    <3>1. status[o] = "ACTIVATED"
      BY <2>2 DEF Orderly, OffOnly
    <3>2. call'[t] = [at |-> "set_off", obj |-> o]
      BY <1>6, <2>2 DEF CheckOff, GoTo, TypeInv, TypeOK
    <3>3. Unsaid(o) /\ o \notin Elements(cleanup) /\ memory[o] # "freed"
      BY <1>1, <3>1 DEF Orderly, Undisturbed, Live
    <3>4. OffOnly(o)'
      BY <1>2, <1>5, <2>1, <3>2 DEF Orderly, OffOnly, OwnAt, OffAt
    <3>5. DestroyedLast(o)'
      BY <2>1, <3>3 DEF Orderly, DestroyedLast, Unsaid, Farewell
    <3>6. Undisturbed(o)'
      BY <1>5, <2>1, <3>1, <3>2, <3>3
         DEF Undisturbed, Unsaid, NobodyAt, OffAt
    <3>7. Departed(o)'
      BY <2>1, <3>3 DEF Departed, Gone
    <3> QED
      BY <3>4, <3>5, <3>6, <3>7 DEF Orderly
  <2>3. CASE status[o] \notin {"ACTIVATED", "DEACTIVATING"}
    <3>1. call'[t] = Idle
      BY <1>6, <2>3 DEF CheckOff, Return, TypeInv, TypeOK
    <3>2. call'[t].obj # o
      BY <1>1, <3>1, LifecycleAssumption DEF Idle
    <3>3. \A s \in Threads : call'[s].obj = o => call'[s] = call[s]
      BY <1>4, <3>2
    <3>4. /\ events'[o] = events[o] /\ status'[o] = status[o]
          /\ memory'[o] = memory[o]
      BY <2>1
    <3>5. o \in Elements(cleanup') => o \in Elements(cleanup)
      BY <2>1
    <3> QED
      BY <3>3, <3>4, <3>5, CallOrderly
  <2> QED
    BY <2>2, <2>3
<1>7. CASE SetOff(t)
  <2>1. /\ call[t].at = "set_off"
        /\ call'[t] = [at |-> "defer_off", obj |-> o]
        /\ status'[o] = "DEACTIVATION_QUEUED"
        /\ UNCHANGED <<memory, events, cleanup>>
    BY <1>1, <1>7 DEF SetOff, Touches, GoTo, TypeInv, TypeOK
  <2>2. status[o] = "ACTIVATED"
    BY <2>1 DEF Orderly, Undisturbed, NobodyAt
  <2>3. Unsaid(o) /\ o \notin Elements(cleanup) /\ memory[o] = "live"
    BY <1>1, <2>2 DEF Orderly, Undisturbed, Live
  <2>4. OffOnly(o)'
    BY <1>2, <1>5, <2>1 DEF Orderly, OffOnly, OwnAt, OffAt
  <2>5. DestroyedLast(o)'
    BY <2>1, <2>3 DEF Orderly, DestroyedLast, Unsaid, Farewell
  <2>6. Undisturbed(o)'
    BY <1>5, <2>1, <2>3 DEF Undisturbed, NobodyAt, OffAt
  <2>7. Departed(o)'
    BY <2>1, <2>3 DEF Departed, Gone
  <2> QED
    BY <2>4, <2>5, <2>6, <2>7 DEF Orderly
<1>8. CASE DeferDeactivated(t) \/ DeferDestroyed(t)
  <2> DEFINE e == IF call[t].at = "defer_off" THEN "deactivated"
                                               ELSE "destroyed"
  <2>1. /\ call[t].at \in {"defer_off", "defer_destroyed"}
        /\ call'[t].obj = o
        /\ call[t].at = "defer_off" => call'[t].at = "defer_destroyed"
        /\ call[t].at = "defer_destroyed" => call'[t].at = "wake"
        /\ UNCHANGED <<memory, status, cleanup>>
    BY <1>8 DEF DeferDeactivated, DeferDestroyed, Defer, Touches, GoTo,
                TypeInv, TypeOK
  <2>2. /\ events[o] \in [Producers -> Seq(Event)]
        /\ events'[o] = [events[o] EXCEPT ![t] = Append(@, e)]
    BY <1>1, <1>8 DEF DeferDeactivated, DeferDestroyed, Defer, Touches,
                      TypeInv, TypeOK
  <2>3. e \in Event /\ e \in Farewell /\ events[o][t] \in Seq(Event)
    BY <2>2 DEF Event, Farewell
  <2>4. /\ status[o] # "ACTIVATED" /\ memory[o] = "live"
        /\ ~Gone(o)
        /\ \A p \in Producers : "destroyed" \notin Elements(events[o][p])
    BY <1>1, <2>1
       DEF Orderly, Undisturbed, Departed, DestroyedLast, NobodyAt, OffAt, Live
  <2>5. /\ events'[o][t] = Append(events[o][t], e)
        /\ \A p \in Producers : p # t => events'[o][p] = events[o][p]
    BY <2>2
  <2>6. InOrder(events'[o][t])
    BY <2>3, <2>4, <2>5, InOrderAppend DEF Orderly, DestroyedLast
  <2>7. \A x \in Elements(events'[o][t]) : x \in Elements(events[o][t]) \/ x = e
    BY <2>3, <2>5, ElementsOnly
  <2>8. OffOnly(o)'
    <3>1. \A p \in Producers : \A x \in Elements(events'[o][p]) :
            /\ x \in Farewell => p \in Off
            /\ x # "activated"
      BY <1>2, <2>5, <2>7 DEF Orderly, OffOnly
    <3>2. \A s \in Threads : call'[s].obj = o =>
            /\ call'[s].at \in OffAt \union {"check_off"} => s \in Off
            /\ call'[s].at \notin OwnAt
      BY <1>2, <1>5, <2>1 DEF OwnAt
    <3> QED
      BY <2>1, <3>1, <3>2 DEF Orderly, OffOnly
  <2>9. DestroyedLast(o)'
    <3>1. \A p \in Producers : InOrder(events'[o][p])
      BY <2>5, <2>6 DEF Orderly, DestroyedLast
    <3>2. ASSUME NEW p \in Producers, "destroyed" \in Elements(events'[o][p])
          PROVE  NobodyAt(o, OffAt)'
      <4>1. p = t /\ e = "destroyed"
        BY <2>4, <2>5, <2>7, <3>2
      <4>2. call'[t].at = "wake"
        BY <2>1, <4>1
      <4> QED
        BY <1>5, <4>2 DEF NobodyAt, OffAt
    <3> QED
      BY <3>1, <3>2 DEF DestroyedLast
  <2>10. Undisturbed(o)'
    BY <1>5, <2>1, <2>4 DEF Undisturbed, NobodyAt, OffAt
  <2>11. Departed(o)'
    BY <2>1, <2>4 DEF Departed, Gone
  <2> QED
    BY <2>8, <2>9, <2>10, <2>11 DEF Orderly
<1> QED
  BY <1>6, <1>7, <1>8

\* A proxy is inserted: it is ACTIVATED, and nothing of a farewell is there.
LEMMA InsertOrderly ==
  ASSUME TypeInv, Births, NEW o \in Proxies, Orderly(o), NEW t \in Threads,
         call[t].obj = o, CreateInsert(t)
  PROVE  Orderly(o)'
<1> USE Kinds
<1>1. memory[o] = "unborn"
  BY DEF Births, InsertOwned, CreateInsert
<1>2. /\ status'[o] = "ACTIVATED" /\ memory'[o] = "live"
      /\ UNCHANGED <<events, cleanup>>
      /\ call'[t] = Idle
      /\ \A s \in Threads : s # t => call'[s] = call[s]
  BY DEF CreateInsert, Return, TypeInv, TypeOK
<1>3. \A s \in Threads : call'[s].obj = o => call'[s] = call[s]
  BY <1>2, LifecycleAssumption DEF Idle
<1>4. \A S : NobodyAt(o, S) => NobodyAt(o, S)'
  BY <1>3 DEF NobodyAt
<1>5. Unsaid(o) /\ NobodyAt(o, OffAt \ {"set_off"}) /\ o \notin Elements(cleanup)
  BY <1>1 DEF Orderly, Undisturbed
<1>6. OffOnly(o)'
  BY <1>2, <1>3 DEF Orderly, OffOnly
<1>7. DestroyedLast(o)'
  BY <1>2, <1>5 DEF Orderly, DestroyedLast, Unsaid, Farewell
<1>8. Undisturbed(o)'
  BY <1>2, <1>4, <1>5 DEF Undisturbed, Unsaid
<1>9. Departed(o)'
  BY <1>2, <1>5 DEF Departed, Gone
<1> QED
  BY <1>6, <1>7, <1>8, <1>9 DEF Orderly

\* Every step of a call keeps the order of o's farewell.
LEMMA CallStepOrderly ==
  ASSUME \A s, t \in Off : s = t,
         TypeInv, Births, NEW o \in Proxies, Orderly(o), NEW t \in Threads,
         CallStep(t)
  PROVE  Orderly(o)'
<1> USE Kinds
<1> DEFINE b == call[t].obj
<1>1. /\ cleanup' = cleanup
      /\ \A s \in Threads : s # t => call'[s] = call[s]
      /\ call'[t].obj \in {b, NoObject}
  BY DEF CallStep, CreateInsert, CheckOff, SetOff, DeferDeactivated,
         DeferDestroyed, DeferUpdated, ActivateReplyOK, DeactivateReplyOK,
         RequestFailed, CheckOn, SetOn, DeferActivated, WakeOn, Announce,
         Wake, UseAfterFree, Defer, GoTo, Return, Idle, TypeInv, TypeOK
<1>2. o # NoObject
  BY LifecycleAssumption
<1>3. o \in Elements(cleanup') => o \in Elements(cleanup)
  BY <1>1
<1>4. ASSUME events'[o] = events[o], status'[o] = status[o],
             memory'[o] = memory[o],
             call'[t].obj # o \/ call'[t] = call[t]
      PROVE  Orderly(o)'
  <2>1. \A s \in Threads : call'[s].obj = o => call'[s] = call[s]
    BY <1>1, <1>4
  <2> QED
    BY <1>3, <1>4, <2>1, CallOrderly
<1>5. CASE b # o
  <2>1. b \in Objects
    BY CallObject
       DEF CallStep, CreateInsert, CheckOff, SetOff, DeferDeactivated,
           DeferDestroyed, DeferUpdated, ActivateReplyOK, DeactivateReplyOK,
           RequestFailed, CheckOn, SetOn, DeferActivated, WakeOn, Announce,
           Wake, UseAfterFree, Defer, Touches
  <2>2. memory'[o] = memory[o] /\ status'[o] = status[o]
    BY <1>5, <2>1
       DEF CallStep, CreateInsert, CheckOff, SetOff, DeferDeactivated,
           DeferDestroyed, DeferUpdated, ActivateReplyOK, DeactivateReplyOK,
           RequestFailed, CheckOn, SetOn, DeferActivated, WakeOn, Announce,
           Wake, UseAfterFree, Defer, TypeInv, TypeOK
  <2>3. events'[o] = events[o]
    BY <1>5, <2>1
       DEF CallStep, CreateInsert, CheckOff, SetOff, DeferDeactivated,
           DeferDestroyed, DeferUpdated, ActivateReplyOK, DeactivateReplyOK,
           RequestFailed, CheckOn, SetOn, DeferActivated, WakeOn, Announce,
           Wake, UseAfterFree, Defer, TypeInv, TypeOK
  <2> QED
    BY <1>1, <1>2, <1>4, <1>5, <2>2, <2>3
<1>6. CASE b = o
  <2>1. CASE CreateInsert(t)
    BY <1>6, <2>1, InsertOrderly
  <2>2. CASE \/ CheckOff(t) \/ SetOff(t) \/ DeferDeactivated(t)
             \/ DeferDestroyed(t)
    BY <1>6, <2>2, RemovalOrderly
  <2>3. CASE DeferUpdated(t)
    <3>1. /\ events[o] \in [Producers -> Seq(Event)]
          /\ events'[o] = [events[o] EXCEPT ![t] = Append(@, "updated")]
          /\ UNCHANGED <<status, memory>>
      BY <1>6, <2>3 DEF DeferUpdated, Defer, TypeInv, TypeOK
    <3>2. /\ events'[o][t] = Append(events[o][t], "updated")
          /\ events[o][t] \in Seq(Event)
          /\ \A p \in Producers : p # t => events'[o][p] = events[o][p]
      BY <3>1
    <3>3. "updated" \in Event /\ "updated" \notin Farewell
      BY DEF Event, Farewell
    <3>4. \A p \in Producers : InOrder(events'[o][p])
      BY <3>2, <3>3, InOrderAppend DEF Orderly, DestroyedLast
    <3>5. \A p \in Producers : \A x \in Elements(events'[o][p]) :
            x = "updated" \/ x \in Elements(events[o][p])
      BY <3>2, <3>3, ElementsOnly
    <3>6. call'[t].at = "wake"
      BY <2>3 DEF DeferUpdated, Defer, GoTo, TypeInv, TypeOK
    <3>7. \A s \in Threads : call'[s].obj = o =>
            \/ call'[s] = call[s]
            \/ call'[s].at \notin OffAt \union OwnAt \union {"check_off"}
      BY <1>1, <3>6 DEF OffAt, OwnAt
    <3> QED
      BY <1>3, <3>1, <3>4, <3>5, <3>7, QuietOrderly
  <2>4. CASE WakeOn(t) \/ Announce(t) \/ Wake(t) \/ UseAfterFree(t)
    <3>1. /\ UNCHANGED <<events, status, memory>>
          /\ call'[t] = call[t] \/ call'[t].at \in {"announce", "idle"}
      BY <2>4 DEF WakeOn, Announce, Wake, UseAfterFree, GoTo, Return, Idle,
                  TypeInv, TypeOK
    <3>2. \A s \in Threads : call'[s].obj = o =>
            \/ call'[s] = call[s]
            \/ call'[s].at \notin OffAt \union OwnAt \union {"check_off"}
      BY <1>1, <3>1 DEF OffAt, OwnAt
    <3> QED
      BY <1>3, <3>1, <3>2, CallOrderly
  <2>5. CASE \/ ActivateReplyOK(t) \/ DeactivateReplyOK(t) \/ RequestFailed(t)
             \/ CheckOn(t) \/ SetOn(t) \/ DeferActivated(t)
    <3>1. call[t].at \in OwnAt
      BY <2>5 DEF ActivateReplyOK, DeactivateReplyOK, RequestFailed, CheckOn,
                  SetOn, DeferActivated, Defer, Touches, OwnAt
    <3> QED
      BY <1>6, <3>1 DEF Orderly, OffOnly
  <2> QED
    BY <2>1, <2>2, <2>3, <2>4, <2>5 DEF CallStep
<1> QED
  BY <1>5, <1>6

\* process_events delivers an event of o: after the destroyed event nothing of
\* the farewell is left.
LEMMA DeliveryOrderly ==
  ASSUME \A s, t \in Off : s = t,
         TypeInv, NEW o \in Proxies, Orderly(o), NEW q \in Producers,
         LoopEvent(q), loop.obj = o
  PROVE  Orderly(o)'
<1> USE Kinds
<1> DEFINE s == events[o][q]
           e == Head(s)
<1>1. /\ events[o] \in [Producers -> Seq(Event)]
      /\ s \in Seq(Event) /\ s # <<>> /\ e \in Event
  BY DEF LoopEvent, DeliverEvent, TypeInv, TypeOK
<1>2. /\ events'[o] = [events[o] EXCEPT ![q] = Tail(@)]
      /\ status'[o] = StatusAfter(e, status[o])
      /\ UNCHANGED <<memory, call>>
  BY DEF LoopEvent, DeliverEvent, TypeInv, TypeOK
<1>3. cleanup' = IF e = "destroyed" THEN Append(cleanup, o) ELSE cleanup
  BY DEF LoopEvent, DeliverEvent
<1>4. /\ events'[o][q] = Tail(s)
      /\ \A p \in Producers : p # q => events'[o][p] = events[o][p]
  BY <1>1, <1>2
<1>5. e \in Elements(s)
  <2>1. 1 \in DOMAIN s /\ e = s[1]
    BY <1>1
  <2> QED
    BY <2>1 DEF Elements
<1>6. \A p \in Producers : \A x \in Elements(events'[o][p]) :
        x \in Elements(events[o][p])
  BY <1>1, <1>4, ElementsOnly
<1>7. \A p \in Producers : InOrder(events'[o][p])
  BY <1>1, <1>4, InOrderTail DEF Orderly, DestroyedLast
<1>8. \A S : NobodyAt(o, S)' <=> NobodyAt(o, S)
  BY <1>2 DEF NobodyAt
<1>9. e # "activated"
  BY <1>5 DEF Orderly, OffOnly
<1>10. CASE e = "updated"
  <2>1. status'[o] = status[o] /\ cleanup' = cleanup
    BY <1>2, <1>3, <1>10 DEF StatusAfter
  <2>2. o \in Elements(cleanup') => o \in Elements(cleanup)
    BY <2>1
  <2>3. \A t \in Threads : call'[t] = call[t]
    BY <1>2
  <2> QED
    BY <1>2, <1>6, <1>7, <2>1, <2>2, <2>3, QuietOrderly
<1>11. CASE e \in Farewell
  <2>1. ~Unsaid(o)
    BY <1>5, <1>11 DEF Unsaid
  <2>2. /\ ~Gone(o) /\ memory[o] = "live"
        /\ status[o] # "ACTIVATED" /\ NobodyAt(o, {"set_off"})
    BY <2>1 DEF Orderly, Departed, Undisturbed, TypeInv, TypeOK, Gone
  <2>3. status'[o] = IF e = "destroyed" THEN "DESTROYED" ELSE "DEACTIVATED"
    BY <1>2, <1>11 DEF StatusAfter, Farewell
  <2>4. OffOnly(o)'
    BY <1>2, <1>6, <2>3 DEF Orderly, OffOnly
  <2>5. DestroyedLast(o)'
    BY <1>6, <1>7, <1>8 DEF Orderly, DestroyedLast
  <2>6. Undisturbed(o)'
    BY <1>2, <1>8, <2>2, <2>3 DEF Undisturbed
  <2>7. Departed(o)'
    <3>1. CASE e = "deactivated"
      <4>1. cleanup' = cleanup
        BY <1>3, <3>1
      <4> QED
        BY <1>2, <2>2, <4>1 DEF Departed, Gone
    <3>2. CASE e = "destroyed"
      <4>1. NobodyAt(o, OffAt)
        BY <1>5, <3>2 DEF Orderly, DestroyedLast
      <4>2. Farewell \intersect Elements(events'[o][q]) = {}
        BY <1>1, <1>4, <3>2, InOrderTail DEF Orderly, DestroyedLast
      <4>3. ASSUME NEW p \in Producers, p # q
            PROVE  Farewell \intersect Elements(events'[o][p]) = {}
        <5>1. q \in Off
          BY <1>5, <1>11 DEF Orderly, OffOnly
        <5>2. p \notin Off
          BY <4>3, <5>1
        <5> QED
          BY <1>4, <4>3, <5>2 DEF Orderly, OffOnly
      <4> QED
        BY <1>8, <2>3, <3>2, <4>1, <4>2, <4>3 DEF Departed, Unsaid
    <3> QED
      BY <1>11, <3>1, <3>2 DEF Farewell
  <2> QED
    BY <2>4, <2>5, <2>6, <2>7 DEF Orderly
<1> QED
  BY <1>1, <1>9, <1>10, <1>11 DEF Event, Farewell

\* Every step keeps the proxies orderly, if at most one thread removes them.
LEMMA OrderlyStep ==
  ASSUME \A s, t \in Off : s = t,
         TypeInv, Births, ProxiesOrderly, [Next]_vars
  PROVE  ProxiesOrderly'
<1> USE Kinds
<1> SUFFICES ASSUME NEW o \in Proxies PROVE Orderly(o)'
  BY DEF ProxiesOrderly
<1>1. Orderly(o) /\ o \in Objects /\ o # NoObject
  BY LifecycleAssumption DEF ProxiesOrderly
<1>2. ASSUME events'[o] = events[o], status'[o] = status[o],
             memory'[o] = memory[o], UNCHANGED <<cleanup, call>>
      PROVE  Orderly(o)'
  <2>1. o \in Elements(cleanup') => o \in Elements(cleanup)
    BY <1>2
  <2>2. \A t \in Threads : call'[t] = call[t]
    BY <1>2
  <2> QED
    BY <1>1, <1>2, <2>1, <2>2, CallOrderly
<1>3. ASSUME NEW t \in Threads, NEW at, NEW b, GoTo(t, at, b),
             \/ b # o
             \/ at \notin OffAt \union OwnAt \union {"check_off"}
             \/ at = "check_off" /\ t \in Off,
             events'[o] = events[o], status'[o] = status[o],
             memory'[o] = memory[o], UNCHANGED cleanup
      PROVE  Orderly(o)'
  <2>1. o \in Elements(cleanup') => o \in Elements(cleanup)
    BY <1>3
  <2>2. \A s \in Threads :
          call'[s] = IF s = t THEN [at |-> at, obj |-> b] ELSE call[s]
    BY <1>3 DEF GoTo, TypeInv, TypeOK
  <2>3. \A s \in Threads : call'[s].obj = o =>
          \/ call'[s] = call[s]
          \/ call'[s].at \notin OffAt \union OwnAt \union {"check_off"}
          \/ call'[s].at = "check_off" /\ s \in Off
    BY <1>3, <2>2
  <2> QED
    BY <1>1, <1>3, <2>1, <2>3, CallOrderly
<1>4. ASSUME NEW t \in Creators, NEW b \in Proxies, CreateCheck(t, b)
      PROVE  Orderly(o)'
  BY <1>3, <1>4 DEF CreateCheck, OffAt, OwnAt
<1>5. ASSUME NEW t \in Removers, NEW b \in Proxies, RemoveFind(t, b)
      PROVE  Orderly(o)'
  BY <1>3, <1>5 DEF RemoveFind, Off
<1>6. ASSUME NEW t \in Timers, NEW b \in Proxies, TimerFind(t, b)
      PROVE  Orderly(o)'
  BY <1>3, <1>6 DEF TimerFind, Off
<1>7. ASSUME NEW t \in Updaters, NEW b \in Proxies, UpdateFind(t, b)
      PROVE  Orderly(o)'
  BY <1>3, <1>7 DEF UpdateFind, OffAt, OwnAt
<1>8. ASSUME NEW t \in Activators, NEW b \in Locals,
             ActivateRequest(t, b) \/ DeactivateRequest(t, b)
      PROVE  Orderly(o)'
  <2>1. b # o
    BY LifecycleAssumption
  <2>2. status'[o] = status[o] /\ UNCHANGED <<memory, events, cleanup>>
    BY <1>8, <2>1 DEF ActivateRequest, DeactivateRequest, TypeInv, TypeOK
  <2> QED
    BY <1>3, <1>8, <2>1, <2>2 DEF ActivateRequest, DeactivateRequest
<1>9. ASSUME NEW t \in Threads, CallStep(t)
      PROVE  Orderly(o)'
  BY <1>1, <1>9, CallStepOrderly
<1>10. ASSUME LoopStep
       PROVE  Orderly(o)'
  <2>1. CASE \E p \in Producers : LoopEvent(p)
    <3>1. PICK q \in Producers : LoopEvent(q)
      BY <2>1
    <3>2. CASE loop.obj = o
      BY <1>1, <3>1, <3>2, DeliveryOrderly
    <3>3. CASE loop.obj # o
      <4>1. /\ events'[o] = events[o] /\ status'[o] = status[o]
            /\ UNCHANGED <<memory, call>>
        BY <1>1, <3>1, <3>3 DEF LoopEvent, DeliverEvent, TypeInv, TypeOK, LoopOK
      <4>2. o \in Elements(cleanup') => o \in Elements(cleanup)
        <5>1. \/ cleanup' = cleanup
              \/ cleanup' = Append(cleanup, loop.obj) /\ loop.obj \in Objects
          BY <3>1 DEF LoopEvent, DeliverEvent, TypeInv, LoopOK
        <5>2. cleanup \in Seq(Objects)
          BY DEF TypeInv, TypeOK
        <5>3. loop.obj \in Objects =>
                \A x \in Elements(Append(cleanup, loop.obj)) :
                  x \in Elements(cleanup) \/ x = loop.obj
          BY <5>2, ElementsOnly
        <5> QED
          BY <3>3, <5>1, <5>3
      <4>3. \A t \in Threads : call'[t] = call[t]
        BY <4>1
      <4> QED
        BY <1>1, <4>1, <4>2, <4>3, CallOrderly
    <3> QED
      BY <3>2, <3>3
  <2>2. CASE LoopReap
    <3>1. /\ UNCHANGED <<events, status, call>>
          /\ cleanup' = Tail(cleanup) /\ cleanup # <<>>
          /\ memory'[o] = memory[o]
             \/ (memory'[o] = "freed" /\ o = Head(cleanup))
      BY <1>1, <2>2 DEF LoopReap, TypeInv, TypeOK
    <3>2. o \in Elements(cleanup') => o \in Elements(cleanup)
      BY <3>1, ElementsOnly DEF TypeInv, TypeOK
    <3>3. Head(cleanup) \in Elements(cleanup)
      <4>1. 1 \in DOMAIN cleanup /\ Head(cleanup) = cleanup[1]
        BY <3>1 DEF TypeInv, TypeOK
      <4> QED
        BY <4>1 DEF Elements
    <3>4. memory'[o] = memory[o] \/ (memory'[o] = "freed" /\ Gone(o))
      BY <3>1, <3>3 DEF Gone
    <3>5. \A t \in Threads : call'[t] = call[t]
      BY <3>1
    <3> QED
      BY <1>1, <3>1, <3>2, <3>4, <3>5, CallOrderly
  <2>3. CASE ~(LoopReap \/ \E p \in Producers : LoopEvent(p))
    BY <1>2, <1>10, <2>3
       DEF LoopStep, LoopStart, LoopArrival, LoopArrivalsDone, LoopWakeup,
           LoopReenter, LoopObjectDone, LoopWakeupsDone, LoopEnd
  <2> QED
    BY <2>1, <2>2, <2>3
<1>11. ASSUME NEW b \in Locals, DeleteLocal(b)
       PROVE  Orderly(o)'
  <2>1. b # o
    BY LifecycleAssumption
  <2>2. /\ events'[o] = events[o] /\ status'[o] = status[o]
        /\ memory'[o] = memory[o] /\ UNCHANGED <<cleanup, call>>
    BY <1>1, <1>11, <2>1 DEF DeleteLocal, TypeInv, TypeOK
  <2> QED
    BY <1>2, <2>2
<1>12. CASE UNCHANGED vars
  BY <1>2, <1>12 DEF vars
<1> QED
  BY <1>4, <1>5, <1>6, <1>7, <1>8, <1>9, <1>10, <1>11, <1>12
     DEF Next, Crashed

\* At first no proxy is there.
LEMMA InitOrderly == Init => ProxiesOrderly
<1> SUFFICES ASSUME Init, NEW o \in Proxies PROVE Orderly(o)
  BY DEF ProxiesOrderly
<1> USE Kinds
<1>1. /\ \A p \in Producers : events[o][p] = <<>>
      /\ status[o] = "DEACTIVATED" /\ cleanup = <<>>
      /\ memory[o] = "unborn"
      /\ \A t \in Threads : call[t].obj # o
  BY LifecycleAssumption DEF Init, Idle
<1>2. Elements(cleanup) = {} /\ \A p \in Producers : Elements(events[o][p]) = {}
  BY <1>1 DEF Elements
<1>3. \A S : NobodyAt(o, S)
  BY <1>1 DEF NobodyAt
<1>4. OffOnly(o)
  BY <1>1, <1>2 DEF OffOnly
<1>5. DestroyedLast(o)
  BY <1>1, <1>2 DEF DestroyedLast, InOrder
<1>6. Undisturbed(o) /\ Departed(o)
  BY <1>1, <1>2, <1>3 DEF Undisturbed, Departed, Unsaid, Gone
<1> QED
  BY <1>4, <1>5, <1>6 DEF Orderly

\* With at most one thread that removes proxies, a proxy is only freed once
\* its status is DESTROYED and no farewell event of it is queued, whatever
\* the threads that create and update proxies and activate local entities do.
\* (With two, one may pass the check of enqueue_deactivation before the other
\* changes the status, and set it back to DEACTIVATION_QUEUED.)
THEOREM FarewellsDelivered ==
  ASSUME \A s, t \in Removers \union Timers : s = t
  PROVE  Spec => FarewellFirst
<1> DEFINE Inv == TypeInv /\ Births /\ ProxiesOrderly
<1> DEFINE First == \A o \in Proxies :
       Live(o) /\ ~Live(o)' =>
         /\ status[o] = "DESTROYED"
         /\ \A p \in Producers :
              {"deactivated", "destroyed"} \intersect
                Elements(events[o][p]) = {}
<1>1. Init => Inv
  BY InitType, InitBirths, InitOrderly
<1>2. Inv /\ [Next]_vars => Inv'
  BY TypeStep, BirthsStep, OrderlyStep DEF Off
<1>3. Inv /\ [Next]_vars => [First]_vars
  <2> SUFFICES ASSUME Inv, Next, NEW o \in Proxies, Live(o), ~Live(o)'
               PROVE  status[o] = "DESTROYED" /\ Unsaid(o)
    BY DEF Unsaid, Farewell
  <2> USE Kinds
  <2>1. Inv'
    BY <1>2
  <2>2. Departed(o)' /\ o \in Objects
    BY <2>1 DEF ProxiesOrderly, Orderly
  <2>3. UNCHANGED <<status, events>> /\ memory'[o] = "freed"
    <3>1. CASE LoopReap
      BY <2>2, <3>1 DEF LoopReap, Live, TypeInv, TypeOK
    <3>2. CASE \E b \in Locals : DeleteLocal(b)
      BY <2>2, <3>2, LifecycleAssumption DEF DeleteLocal, Live, TypeInv, TypeOK
    <3>3. CASE \E t \in Threads : CreateInsert(t)
      BY <2>2, <3>3, CallObject DEF CreateInsert, Live, TypeInv, TypeOK
    <3>4. CASE ~(\/ LoopReap \/ (\E b \in Locals : DeleteLocal(b))
                 \/ (\E t \in Threads : CreateInsert(t)))
      <4>1. UNCHANGED memory
        BY <3>4
           DEF Next, CreateCheck, RemoveFind, TimerFind, UpdateFind,
               ActivateRequest, DeactivateRequest, CallStep, CheckOff, SetOff,
               DeferDeactivated, DeferDestroyed, DeferUpdated,
               ActivateReplyOK, DeactivateReplyOK, RequestFailed, CheckOn,
               SetOn, DeferActivated, WakeOn, Announce, Wake, UseAfterFree,
               Defer, LoopStep, LoopStart, LoopArrival, LoopArrivalsDone,
               LoopWakeup, LoopEvent, DeliverEvent, LoopReenter,
               LoopObjectDone, LoopWakeupsDone, LoopEnd, Crashed, vars
      <4> QED
        BY <4>1 DEF Live
    <3> QED
      BY <3>1, <3>2, <3>3, <3>4
  <2> QED
    BY <2>2, <2>3 DEF Departed, Gone, Unsaid
<1> QED
  BY <1>1, <1>2, <1>3, PTL DEF Spec, FarewellFirst

-----------------------------------------------------------------------------
(* The reaper.                                                             *)

\* With one thread that removes proxies and no entity of the application's
\* own, as on the stage without its heartbeat timer and in a client's mirror
\* of the graph, no proxy comes before the reaper twice, and none after it
\* was freed: the destroyed event is said once.
THEOREM ReapedOnce ==
  ASSUME \A s, t \in Removers \union Timers : s = t, Locals = {}
  PROVE  Spec => []CleanupOnce
<1> DEFINE Inv == TypeInv /\ Births /\ ProxiesOrderly /\ CleanupOnce
<1>1. Init => Inv
  <2>1. Init => CleanupOnce
    BY DEF Init, CleanupOnce
  <2> QED
    BY <2>1, InitType, InitBirths, InitOrderly
<1>2. Inv /\ [Next]_vars => Inv'
  <2> SUFFICES ASSUME Inv, [Next]_vars PROVE CleanupOnce'
    BY TypeStep, BirthsStep, OrderlyStep DEF Off
  <2> USE Kinds
  <2>1. Objects = Proxies /\ cleanup \in Seq(Objects)
    BY DEF Objects, TypeInv, TypeOK
  <2>2. /\ \A i, j \in DOMAIN cleanup : cleanup[i] = cleanup[j] => i = j
        /\ \A i \in DOMAIN cleanup : memory[cleanup[i]] # "freed"
        /\ fault # "cleanup"
    BY DEF CleanupOnce
  <2>3. ASSUME UNCHANGED cleanup, fault' # "cleanup",
               \A o \in Objects : memory'[o] = "freed" => memory[o] = "freed"
        PROVE  CleanupOnce'
    BY <2>1, <2>2, <2>3 DEF CleanupOnce
  <2>4. ASSUME NEW q \in Producers, LoopEvent(q)
        PROVE  CleanupOnce'
    <3> DEFINE o == loop.obj
               s == events[o][q]
    <3>1. /\ o \in Objects /\ s \in Seq(Event) /\ s # <<>>
          /\ UNCHANGED <<memory, fault>>
          /\ cleanup' = IF Head(s) = "destroyed" THEN Append(cleanup, o)
                                                 ELSE cleanup
      BY <2>4 DEF LoopEvent, DeliverEvent, TypeInv, TypeOK, LoopOK
    <3>2. CASE Head(s) = "destroyed"
      <4>1. 1 \in DOMAIN s /\ Head(s) = s[1]
        BY <3>1
      <4>2. ~Unsaid(o)
        BY <3>2, <4>1 DEF Unsaid, Farewell, Elements
      <4>3. ~Gone(o)
        BY <2>1, <3>1, <4>2 DEF ProxiesOrderly, Orderly, Departed
      <4>4. /\ DOMAIN cleanup = 1..Len(cleanup) /\ Len(cleanup) \in Nat
            /\ DOMAIN cleanup' = 1..(Len(cleanup) + 1)
            /\ cleanup'[Len(cleanup) + 1] = o
            /\ \A i \in 1..Len(cleanup) : cleanup'[i] = cleanup[i]
        BY <2>1, <3>1, <3>2
      <4>5. memory[o] # "freed" /\ \A i \in 1..Len(cleanup) : cleanup[i] # o
        BY <4>3, <4>4 DEF Gone, Elements
      <4>6. ASSUME NEW i \in DOMAIN cleanup', NEW j \in DOMAIN cleanup',
                   cleanup'[i] = cleanup'[j]
            PROVE  i = j
        BY <2>2, <4>4, <4>5, <4>6
      <4>7. ASSUME NEW i \in DOMAIN cleanup'
            PROVE  memory'[cleanup'[i]] # "freed"
        BY <2>2, <3>1, <4>4, <4>5
      <4> QED
        BY <2>2, <3>1, <4>6, <4>7 DEF CleanupOnce
    <3>3. CASE Head(s) # "destroyed"
      BY <2>2, <2>3, <3>1, <3>3
    <3> QED
      BY <3>2, <3>3
  <2>5. ASSUME LoopReap
        PROVE  CleanupOnce'
    <3> DEFINE o == Head(cleanup)
    <3>1. /\ cleanup # <<>> /\ cleanup' = Tail(cleanup)
          /\ fault = "none"
      BY <2>5 DEF LoopReap, Running
    <3>2. /\ DOMAIN cleanup = 1..Len(cleanup) /\ Len(cleanup) \in Nat
          /\ o = cleanup[1] /\ 1 \in DOMAIN cleanup /\ o \in Objects
          /\ DOMAIN cleanup' = 1..(Len(cleanup) - 1)
          /\ \A i \in 1..(Len(cleanup) - 1) : cleanup'[i] = cleanup[i + 1]
      BY <2>1, <3>1
    <3>3. memory[o] = "live"
      <4>1. memory[o] # "freed" /\ o \in Elements(cleanup)
        BY <2>2, <3>2 DEF Elements
      <4>2. memory[o] # "unborn"
        BY <2>1, <3>2, <4>1 DEF ProxiesOrderly, Orderly, Undisturbed
      <4> QED
        BY <3>2, <4>1, <4>2 DEF TypeInv, TypeOK
    <3>4. fault' = "none"
      BY <2>5, <3>1, <3>3 DEF LoopReap, Live, Births, DeadAreFreed
    <3>5. \A x \in Objects : x # o => memory'[x] = memory[x]
      BY <2>5, <3>2 DEF LoopReap, TypeInv, TypeOK
    <3>6. ASSUME NEW i \in DOMAIN cleanup'
          PROVE  memory'[cleanup'[i]] # "freed"
      <4>1. i + 1 \in DOMAIN cleanup /\ i + 1 # 1 /\ cleanup'[i] = cleanup[i + 1]
        BY <3>2
      <4>2. cleanup[i + 1] # o /\ cleanup[i + 1] \in Objects
        BY <2>1, <2>2, <3>2, <4>1
      <4> QED
        BY <2>2, <3>5, <4>1, <4>2
    <3>7. ASSUME NEW i \in DOMAIN cleanup', NEW j \in DOMAIN cleanup',
                 cleanup'[i] = cleanup'[j]
          PROVE  i = j
      <4>1. /\ i \in Nat /\ j \in Nat
            /\ i + 1 \in DOMAIN cleanup /\ j + 1 \in DOMAIN cleanup
            /\ cleanup[i + 1] = cleanup[j + 1]
        BY <3>2, <3>7
      <4>2. i + 1 = j + 1
        BY <2>2, <4>1
      <4> QED
        BY <4>1, <4>2
    <3> QED
      BY <3>4, <3>6, <3>7 DEF CleanupOnce
  <2>6. ASSUME NEW t \in Threads, CallStep(t)
        PROVE  CleanupOnce'
    <3>1. UNCHANGED cleanup /\ fault' # "cleanup"
      BY <2>2, <2>6
         DEF CallStep, CreateInsert, CheckOff, SetOff, DeferDeactivated,
             DeferDestroyed, DeferUpdated, ActivateReplyOK, DeactivateReplyOK,
             RequestFailed, CheckOn, SetOn, DeferActivated, WakeOn, Announce,
             Wake, UseAfterFree, Defer
    <3>2. CASE CreateInsert(t)
      BY <2>3, <3>1, <3>2, CallObject DEF CreateInsert, TypeInv, TypeOK
    <3>3. CASE ~CreateInsert(t)
      <4>1. UNCHANGED memory
        BY <2>6, <3>3
           DEF CallStep, CheckOff, SetOff, DeferDeactivated,
               DeferDestroyed, DeferUpdated, ActivateReplyOK,
               DeactivateReplyOK, RequestFailed, CheckOn, SetOn,
               DeferActivated, WakeOn, Announce, Wake, UseAfterFree, Defer
      <4> QED
        BY <2>3, <3>1, <4>1
    <3> QED
      BY <3>2, <3>3
  <2>7. CASE /\ ~LoopReap
             /\ ~\E q \in Producers : LoopEvent(q)
             /\ ~\E t \in Threads : CallStep(t)
    <3>1. UNCHANGED <<memory, cleanup>> /\ fault' # "cleanup"
      BY <2>2, <2>7
         DEF Next, CreateCheck, RemoveFind, TimerFind, UpdateFind,
             ActivateRequest, DeactivateRequest, LoopStep, LoopStart,
             LoopArrival, LoopArrivalsDone, LoopWakeup, LoopReenter,
             LoopObjectDone, LoopWakeupsDone, LoopEnd, Crashed, vars
    <3> QED
      BY <2>3, <3>1
  <2> QED
    BY <2>4, <2>5, <2>6, <2>7
<1>3. Inv => CleanupOnce
  OBVIOUS
<1> QED
  BY <1>1, <1>2, <1>3, PTL DEF Spec

=============================================================================
