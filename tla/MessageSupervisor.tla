-------------------------- MODULE MessageSupervisor --------------------------
(***************************************************************************)
(* Requests and their replies in one transport: ZstMessageSupervisor and   *)
(* the parts of ZstTransportLayerBase that use it.                         *)
(*                                                                         *)
(* A caller (the application's thread, or one of the transport's pool)     *)
(* runs blocking_send: it registers a promise under the message ID, sends, *)
(* waits at most STAGE_TIMEOUT for the reply, runs the response callback   *)
(* on it, releases it and retires the promise.  The transport's event      *)
(* thread erases retired promises, takes one received message at a time,   *)
(* and either resolves the promise of its ID, keeping the message's frame  *)
(* alive in m_owned_messages, or destroys the frame at once.               *)
(*                                                                         *)
(* m_mtx guards only some accesses to the two maps.  Where an access that  *)
(* takes no lock overlaps a write of another thread the model lets it find *)
(* the entry or miss it; a corrupted map is not modelled.                  *)
(***************************************************************************)
EXTENDS Naturals

CONSTANTS
  Requests,     \* message IDs, one for each call of blocking_send
  MaxReplies,   \* bound: replies the stage sends to one request
  NoMsg         \* the null message pointer

\* A reply: the ID of the request it answers and a number.
Messages == Requests \X (1..MaxReplies)

ASSUME SupervisorAssumption ==
  /\ MaxReplies \in Nat
  /\ NoMsg \notin Messages
  /\ {"free", "event"} \intersect Requests = {}

VARIABLES
  caller,       \* where blocking_send is, for each request
  got,          \* the message the caller's future gave it
  promises,     \* the keys of m_response_promises
  value,        \* what each promise was resolved with
  retired,      \* m_dead_promises
  owned,        \* m_owned_messages
  arrived,      \* number of replies to each request received so far
  inbox,        \* messages deferred by dispatch_receive_event
  handler,      \* where the event thread is, and its message
  mutex,        \* who holds m_mtx: "free", "event" or a request
  frees         \* how often each message's frame was destroyed

vars == <<caller, got, promises, value, retired, owned, arrived, inbox,
          handler, mutex, frees>>

CallerAt == {"idle", "registering", "send", "wait", "callback", "release",
             "erase", "retire", "done"}
HandlerAt == {"cleanup", "dequeue", "find", "own", "owning", "resolve", "drop"}

\* Every variable has its type.
TypeOK ==
  /\ caller \in [Requests -> CallerAt]
  /\ got \in [Requests -> Messages \union {NoMsg}]
  /\ promises \in SUBSET Requests
  /\ value \in [Requests -> Messages \union {NoMsg}]
  /\ retired \in SUBSET Requests
  /\ owned \in [Requests -> Messages \union {NoMsg}]
  /\ arrived \in [Requests -> 0..MaxReplies]
  /\ inbox \in SUBSET Messages
  /\ handler \in [at : HandlerAt, msg : Messages \union {NoMsg},
                  raced : BOOLEAN]
  /\ mutex \in Requests \union {"free", "event"}
  /\ frees \in [Messages -> Nat]

Polling == [at |-> "cleanup", msg |-> NoMsg, raced |-> FALSE]

Init ==
  /\ caller = [r \in Requests |-> "idle"]
  /\ got = [r \in Requests |-> NoMsg]
  /\ promises = {}
  /\ value = [r \in Requests |-> NoMsg]
  /\ retired = {}
  /\ owned = [r \in Requests |-> NoMsg]
  /\ arrived = [r \in Requests |-> 0]
  /\ inbox = {}
  /\ handler = Polling
  /\ mutex = "free"
  /\ frees = [m \in Messages |-> 0]

CallerGoTo(r, at) == caller' = [caller EXCEPT ![r] = at]

HandlerGoTo(at) == handler' = [handler EXCEPT !.at = at]

-----------------------------------------------------------------------------
(* blocking_send.                                                          *)

\* register_response, which holds m_mtx while it writes the map.
RegisterBegin(r) ==
  /\ caller[r] = "idle"
  /\ mutex = "free"
  /\ mutex' = r
  /\ CallerGoTo(r, "registering")
  /\ UNCHANGED <<got, promises, value, retired, owned, arrived, inbox,
                 handler, frees>>

\* Mutant: the promise is not stored.
RegisterEnd_NotStored(r) ==
  /\ caller[r] = "registering"
  /\ mutex' = "free"
  /\ CallerGoTo(r, "send")
  /\ UNCHANGED <<got, promises, value, retired, owned, arrived, inbox,
                 handler, frees>>

RegisterEnd(r) ==
  /\ caller[r] = "registering"
  /\ promises' = promises \union {r}
  /\ mutex' = "free"
  /\ CallerGoTo(r, "send")
  /\ UNCHANGED <<got, value, retired, owned, arrived, inbox, handler, frees>>

Send(r) ==
  /\ caller[r] = "send"
  /\ CallerGoTo(r, "wait")
  /\ UNCHANGED <<got, promises, value, retired, owned, arrived, inbox,
                 handler, mutex, frees>>

\* wait_for finds the future ready.
Answered(r) ==
  /\ caller[r] = "wait"
  /\ value[r] # NoMsg
  /\ got' = [got EXCEPT ![r] = value[r]]
  /\ CallerGoTo(r, "callback")
  /\ UNCHANGED <<promises, value, retired, owned, arrived, inbox, handler,
                 mutex, frees>>

\* STAGE_TIMEOUT passes first: the callback is run without a message.
TimedOut(r) ==
  /\ caller[r] = "wait"
  /\ value[r] = NoMsg
  /\ CallerGoTo(r, "callback")
  /\ UNCHANGED <<got, promises, value, retired, owned, arrived, inbox,
                 handler, mutex, frees>>

\* on_recv_response returns; it may have read the message all the while.
CallbackDone(r) ==
  /\ caller[r] = "callback"
  /\ CallerGoTo(r, IF got[r] = NoMsg THEN "retire" ELSE "release")
  /\ UNCHANGED <<got, promises, value, retired, owned, arrived, inbox,
                 handler, mutex, frees>>

\* Somebody other than r is writing m_owned_messages.
OwnedBusy(r) ==
  \/ handler.at = "owning"
  \/ \E q \in Requests \ {r} : caller[q] = "erase"

\* release_owned_message takes no lock.  It looks the message up by its ID
\* and runs the cleanup stored there, which destroys that message's frame.
ReleaseFind(r) ==
  /\ caller[r] = "release"
  /\ owned[r] # NoMsg
  /\ frees' = [frees EXCEPT ![owned[r]] = @ + 1]
  /\ CallerGoTo(r, "erase")
  /\ UNCHANGED <<got, promises, value, retired, owned, arrived, inbox,
                 handler, mutex>>

ReleaseMiss(r) ==
  /\ caller[r] = "release"
  /\ owned[r] = NoMsg \/ OwnedBusy(r)
  /\ CallerGoTo(r, "retire")
  /\ UNCHANGED <<got, promises, value, retired, owned, arrived, inbox,
                 handler, mutex, frees>>

ReleaseErase(r) ==
  /\ caller[r] = "erase"
  /\ owned' = [owned EXCEPT ![r] = NoMsg]
  /\ CallerGoTo(r, "retire")
  /\ UNCHANGED <<got, promises, value, retired, arrived, inbox, handler,
                 mutex, frees>>

\* enqueue_resolved_promise.
Retire(r) ==
  /\ caller[r] = "retire"
  /\ mutex = "free"
  /\ retired' = retired \union {r}
  /\ CallerGoTo(r, "done")
  /\ UNCHANGED <<got, promises, value, owned, arrived, inbox, handler, mutex,
                 frees>>

-----------------------------------------------------------------------------
\* sock_recv: a reply to a request that was sent arrives; or it never does.
ReplyArrives(r) ==
  /\ caller[r] \notin {"idle", "registering", "send"}
  /\ arrived[r] < MaxReplies
  /\ arrived' = [arrived EXCEPT ![r] = @ + 1]
  /\ inbox' = inbox \union {<<r, arrived[r] + 1>>}
  /\ UNCHANGED <<caller, got, promises, value, retired, owned, handler,
                 mutex, frees>>

-----------------------------------------------------------------------------
(* The event thread: process_events of the transport, again and again.     *)

Registering == \E r \in Requests : caller[r] = "registering"

\* cleanup_response_messages takes one retired ID off its queue, and
\* remove_response_promise finds its promise and erases it under m_mtx.
CleanupOne(r) ==
  /\ handler.at = "cleanup"
  /\ r \in retired
  /\ mutex = "free"
  /\ retired' = retired \ {r}
  /\ promises' = promises \ {r}
  /\ UNCHANGED <<caller, got, value, owned, arrived, inbox, handler, mutex,
                 frees>>

\* That search takes no lock either.
MayMiss(r) == handler.at = "cleanup" /\ r \in retired /\ Registering

\* Beside a registration it may miss the promise: the ID is forgotten, and the
\* promise stays in the map.
CleanupMiss(r) ==
  /\ MayMiss(r)
  /\ retired' = retired \ {r}
  /\ UNCHANGED <<caller, got, promises, value, owned, arrived, inbox, handler,
                 mutex, frees>>

CleanupDone ==
  /\ handler.at = "cleanup"
  /\ retired = {}
  /\ HandlerGoTo("dequeue")
  /\ UNCHANGED <<caller, got, promises, value, retired, owned, arrived,
                 inbox, mutex, frees>>

Dequeue(m) ==
  /\ handler.at = "dequeue"
  /\ m \in inbox
  /\ inbox' = inbox \ {m}
  /\ handler' = [at |-> "find", msg |-> m, raced |-> FALSE]
  /\ UNCHANGED <<caller, got, promises, value, retired, owned, arrived,
                 mutex, frees>>

\* Mutant: the queue is waited on without a time limit.
DequeueTimeout_Never ==
  /\ FALSE
  /\ UNCHANGED vars

\* wait_dequeue_timed gives up after 500 ms.
DequeueTimeout ==
  /\ handler.at = "dequeue"
  /\ inbox = {}
  /\ HandlerGoTo("cleanup")
  /\ UNCHANGED <<caller, got, promises, value, retired, owned, arrived,
                 inbox, mutex, frees>>

\* process_message_response: the map is searched without a lock.
FindPromise ==
  /\ handler.at = "find"
  /\ handler.msg[1] \in promises
  /\ HandlerGoTo("own")
  /\ UNCHANGED <<caller, got, promises, value, retired, owned, arrived,
                 inbox, mutex, frees>>

FindNothing ==
  /\ handler.at = "find"
  /\ handler.msg[1] \notin promises \/ Registering
  /\ handler' = [handler EXCEPT !.at = "drop", !.raced = Registering]
  /\ UNCHANGED <<caller, got, promises, value, retired, owned, arrived,
                 inbox, mutex, frees>>

\* take_message_ownership, which holds m_mtx while it writes the map.
OwnBegin ==
  /\ handler.at = "own"
  /\ mutex = "free"
  /\ mutex' = "event"
  /\ HandlerGoTo("owning")
  /\ UNCHANGED <<caller, got, promises, value, retired, owned, arrived,
                 inbox, frees>>

\* A second reply under the same ID takes the place of the first.
OwnEnd ==
  /\ handler.at = "owning"
  /\ owned' = [owned EXCEPT ![handler.msg[1]] = handler.msg]
  /\ mutex' = "free"
  /\ HandlerGoTo("resolve")
  /\ UNCHANGED <<caller, got, promises, value, retired, arrived, inbox, frees>>

\* Mutant: the frame is destroyed as soon as the promise is resolved.
Resolve_Destroys ==
  /\ handler.at = "resolve"
  /\ value' = [value EXCEPT ![handler.msg[1]] =
                 IF @ = NoMsg THEN handler.msg ELSE @]
  /\ frees' = [frees EXCEPT ![handler.msg] = @ + 1]
  /\ handler' = Polling
  /\ UNCHANGED <<caller, got, promises, retired, owned, arrived, inbox, mutex>>

\* set_value; a promise that has its value throws, which is only logged.
Resolve ==
  /\ handler.at = "resolve"
  /\ value' = [value EXCEPT ![handler.msg[1]] =
                 IF @ = NoMsg THEN handler.msg ELSE @]
  /\ handler' = Polling
  /\ UNCHANGED <<caller, got, promises, retired, owned, arrived, inbox, mutex,
                 frees>>

\* No promise: on_complete destroys the frame, the message goes to the pool.
Drop ==
  /\ handler.at = "drop"
  /\ frees' = [frees EXCEPT ![handler.msg] = @ + 1]
  /\ handler' = Polling
  /\ UNCHANGED <<caller, got, promises, value, retired, owned, arrived, inbox,
                 mutex>>

-----------------------------------------------------------------------------
CallerStep(r) ==
  \/ RegisterEnd(r) \/ Send(r)
  \/ Answered(r) \/ TimedOut(r)
  \/ CallbackDone(r)
  \/ ReleaseFind(r) \/ ReleaseMiss(r) \/ ReleaseErase(r)
  \/ Retire(r)

HandlerStep ==
  \/ \E r \in Requests : CleanupOne(r) \/ CleanupMiss(r)
  \/ CleanupDone
  \/ \E m \in Messages : Dequeue(m)
  \/ DequeueTimeout
  \/ FindPromise \/ FindNothing
  \/ OwnBegin \/ OwnEnd
  \/ Resolve
  \/ Drop

Next ==
  \/ \E r \in Requests : RegisterBegin(r)
  \/ \E r \in Requests : CallerStep(r)
  \/ \E r \in Requests : ReplyArrives(r)
  \/ HandlerStep

Spec == Init /\ [][Next]_vars

(***************************************************************************)
(* A caller that has begun and the event thread go on.  m_mtx is held only *)
(* for single map operations, of which there are finitely many, so weak    *)
(* fairness is enough.  Nothing makes the application send or the stage    *)
(* answer.                                                                 *)
(***************************************************************************)
FairSpec ==
  /\ Spec
  /\ \A r \in Requests : WF_vars(CallerStep(r))
  /\ WF_vars(HandlerStep)

-----------------------------------------------------------------------------
(* Properties.                                                             *)

\* The message a caller's callback is reading still has its frame, also
\* when a second reply to the same request comes in meanwhile.
FrameHeld ==
  \A r \in Requests :
    caller[r] \in {"callback", "release"} /\ got[r] # NoMsg =>
      frees[got[r]] = 0

\* No frame is destroyed twice, whichever of the caller and the event thread
\* ends up with the message.
FreedOnce == \A m \in Messages : frees[m] <= 1

\* While a caller has a reply in hand there is an owned message under its
\* ID to release afterwards, its own reply or one that replaced it: ownership
\* is taken before the promise is resolved, and nobody else releases it.
AnswerOwned ==
  \A r \in Requests :
    caller[r] \in {"callback", "release"} /\ got[r] # NoMsg =>
      owned[r] # NoMsg

\* A reply is not thrown away while its caller waits for it, except by a
\* search that ran into a registration: promises are registered before the
\* request is sent, and erased only after its caller gave up.
ReplyNotDropped ==
  handler.at = "drop" /\ ~handler.raced =>
    LET r == handler.msg[1] IN caller[r] \notin {"send", "wait"}

\* The promise of a caller that has its answer or has given up leaves the map,
\* so that a late reply is not held for a caller that has gone: unless the one
\* search for it ran into a registration of another request.  What that search
\* misses is never looked for again.
PromiseIsErased ==
  \A r \in Requests :
    caller[r] = "retire" ~> r \notin promises \/ MayMiss(r)

=============================================================================
