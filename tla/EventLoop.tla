------------------------------ MODULE EventLoop ------------------------------
(***************************************************************************)
(* The stage's event loop.  Any thread defers events on a dispatcher: it   *)
(* enqueues the event and then notifies the semaphore all dispatchers of   *)
(* the stage share.  The loop's thread waits on the semaphore and drains   *)
(* every dispatcher once, in a fixed order, for each notification it takes.*)
(* An event may defer others, on the loop's own thread.  destroy() sets a  *)
(* flag and notifies, so that the loop ends instead of draining.           *)
(*                                                                         *)
(* moodycamel::ConcurrentQueue keeps the order of one producer only, so a  *)
(* dispatcher is a queue per deferring thread and try_dequeue takes the    *)
(* head of any of them.                                                    *)
(***************************************************************************)
EXTENDS Naturals, Sequences

CONSTANTS
  Threads,     \* threads that defer events
  Loop,        \* the event loop's thread, one of them
  Dispatchers, \* the dispatchers of the stage's modules
  Channels,    \* <<thread, dispatcher>>: who defers on what
  MaxEvents    \* bound: events deferred on a channel

ASSUME LoopAssumption ==
  /\ Loop \in Threads
  /\ Channels \subseteq Threads \X Dispatchers
  /\ {"hierarchy", "entity", "session", "cable"} = Dispatchers
  /\ MaxEvents \in Nat

VARIABLES
  queue,     \* m_events of each dispatcher, per deferring thread
  sent,      \* number of the last event deferred on a channel
  ran,       \* number of the last event run on a channel
  notifying, \* dispatchers on which a thread has enqueued, yet to notify
  count,     \* the semaphore
  pc,        \* the loop's thread
  at,        \* position in DrainOrder
  destroyed, \* m_is_destroyed
  closing    \* destroy() has yet to notify

loopVars == <<queue, sent, ran, notifying, count, pc, at, destroyed, closing>>

----------------------------------------------------------------------------

(* A dispatcher the wake condition was not handed to.                      *)
Woken_NotSession == {"hierarchy", "entity", "cable"}

(* The dispatchers that hold the wake condition: ZstStageSession and       *)
(* ZstStageHierarchy hand it on to theirs.                                 *)
Woken == {"hierarchy", "entity", "session", "cable"}

(* ZstStageSession::process_events: the hierarchy and its entities, the    *)
(* session and its cables, and the hierarchy once more.                    *)
DrainOrder == <<"hierarchy", "entity", "session", "cable", "hierarchy", "entity">>

LoopInit ==
  /\ queue = [c \in Channels |-> <<>>]
  /\ sent = [c \in Channels |-> 0]
  /\ ran = [c \in Channels |-> 0]
  /\ notifying = [t \in Threads |-> {}]
  /\ count = 0
  /\ pc = "wait"
  /\ at = 1
  /\ destroyed = FALSE
  /\ closing = FALSE

(* defer: enqueue the event.  The loop's thread defers from an event.      *)
Defer(c) ==
  /\ notifying[c[1]] = {}
  /\ c[1] = Loop => pc = "run"
  /\ sent[c] < MaxEvents
  /\ sent' = [sent EXCEPT ![c] = @ + 1]
  /\ queue' = [queue EXCEPT ![c] = Append(@, sent[c] + 1)]
  /\ notifying' = [notifying EXCEPT ![c[1]] = {c[2]}]
  /\ UNCHANGED <<ran, count, pc, at, destroyed, closing>>

(* defer: notify, a no-op for a dispatcher without a wake condition.       *)
Notify(t) ==
  /\ notifying[t] # {}
  /\ count' = IF notifying[t] \subseteq Woken THEN count + 1 ELSE count
  /\ notifying' = [notifying EXCEPT ![t] = {}]
  /\ UNCHANGED <<queue, sent, ran, pc, at, destroyed, closing>>

(* The semaphore is taken although its count is zero.                      *)
(* ZstSemaphore::wait returned: leave the loop or start to drain.          *)
Wake ==
  /\ pc = "wait"
  /\ count > 0
  /\ count' = count - 1
  /\ pc' = IF destroyed THEN "ended" ELSE "drain"
  /\ at' = 1
  /\ UNCHANGED <<queue, sent, ran, notifying, destroyed, closing>>

(* The newest event is taken first.                                        *)
RunEvent_Newest(c) ==
  /\ pc = "drain"
  /\ c[2] = DrainOrder[at]
  /\ queue[c] # <<>>
  /\ ran' = [ran EXCEPT ![c] = queue[c][Len(queue[c])]]
  /\ queue' = [queue EXCEPT ![c] = SubSeq(@, 1, Len(@) - 1)]
  /\ pc' = "run"
  /\ UNCHANGED <<sent, notifying, count, at, destroyed, closing>>

(* ZstEventDispatcher::process_events takes an event and runs it on every  *)
(* adaptor and then its completion callback.                               *)
RunEvent(c) ==
  /\ pc = "drain"
  /\ c[2] = DrainOrder[at]
  /\ queue[c] # <<>>
  /\ ran' = [ran EXCEPT ![c] = Head(queue[c])]
  /\ queue' = [queue EXCEPT ![c] = Tail(@)]
  /\ pc' = "run"
  /\ UNCHANGED <<sent, notifying, count, at, destroyed, closing>>

EventDone ==
  /\ pc = "run"
  /\ notifying[Loop] = {}
  /\ pc' = "drain"
  /\ UNCHANGED <<queue, sent, ran, notifying, count, at, destroyed, closing>>

(* The top of the loop: destroy() may have interrupted the thread, which   *)
(* then leaves at the interruption point instead of waiting.               *)
Top == {"wait"} \cup (IF destroyed THEN {"ended"} ELSE {})

(* try_dequeue found nothing: go on to the next dispatcher, or wait again. *)
Drained ==
  /\ pc = "drain"
  /\ \A c \in Channels : c[2] = DrainOrder[at] => queue[c] = <<>>
  /\ IF at < Len(DrainOrder) THEN at' = at + 1 /\ pc' = pc
                             ELSE at' = at /\ pc' \in Top
  /\ UNCHANGED <<queue, sent, ran, notifying, count, destroyed, closing>>

(* ZstStage::destroy, on the thread that owns the stage.                   *)
DestroyStage ==
  /\ ~destroyed
  /\ destroyed' = TRUE
  /\ closing' = TRUE
  /\ UNCHANGED <<queue, sent, ran, notifying, count, pc, at>>

(* destroy() that leaves a waiting loop asleep.                            *)
DestroyNotify_Silent ==
  /\ closing
  /\ closing' = FALSE
  /\ UNCHANGED <<queue, sent, ran, notifying, count, pc, at, destroyed>>

DestroyNotify ==
  /\ closing
  /\ closing' = FALSE
  /\ count' = count + 1
  /\ UNCHANGED <<queue, sent, ran, notifying, pc, at, destroyed>>

LoopNext ==
  \/ \E c \in Channels : Defer(c) \/ RunEvent(c)
  \/ \E t \in Threads : Notify(t)
  \/ Wake
  \/ EventDone
  \/ Drained
  \/ DestroyStage
  \/ DestroyNotify

(* Threads run on: what they have begun they finish, and the loop's thread *)
(* is scheduled.  No event need ever be deferred, nor the stage destroyed. *)
LoopFairness ==
  /\ \A t \in Threads : WF_loopVars(Notify(t))
  /\ WF_loopVars(Wake)
  /\ \A c \in Channels : WF_loopVars(RunEvent(c))
  /\ WF_loopVars(EventDone)
  /\ WF_loopVars(Drained)
  /\ WF_loopVars(DestroyNotify)

LoopSpec == LoopInit /\ [][LoopNext]_loopVars /\ LoopFairness

----------------------------------------------------------------------------
(* Properties *)

(* Types of the queues, of the semaphore and of where the loop is.         *)
LoopTypeOK ==
  /\ queue \in [Channels -> Seq(Nat)]
  /\ sent \in [Channels -> Nat]
  /\ ran \in [Channels -> Nat]
  /\ notifying \in [Threads -> SUBSET Dispatchers]
  /\ count \in Nat
  /\ pc \in {"wait", "drain", "run", "ended"}
  /\ at \in 1..Len(DrainOrder)
  /\ destroyed \in BOOLEAN
  /\ closing \in BOOLEAN

(* A queue that will still be looked at before the loop waits again.       *)
Ahead(d) ==
  /\ pc \in {"drain", "run"}
  /\ \E i \in at..Len(DrainOrder) : DrainOrder[i] = d

(* Until the loop has ended, an event in a queue is ahead of the loop, or  *)
(* a notification that will make the loop drain again is there or on its   *)
(* way: none is lost between the drain and the wait (ZstSemaphore.h).      *)
WakeupNotMissed ==
  \A c \in Channels :
    queue[c] # <<>> =>
      \/ Ahead(c[2])
      \/ count > 0
      \/ \E t \in Threads : notifying[t] # {}
      \/ pc = "ended"

(* destroy() ends the loop's thread, whatever it was doing                 *)
(* (ZstStage.cpp: destroy waits 250 ms for it and goes on).                *)
DestroyEndsLoop == destroyed ~> (pc = "ended")

(* The event loop implements the promise of WorkQueue: in order, once, and *)
(* eventually, for every event deferred before the stage is destroyed.     *)
Queue == INSTANCE WorkQueue WITH closed <- destroyed

ImplementsQueue == Queue!WQSpec

=============================================================================
