---------------------------- MODULE Runtime_proofs ---------------------------
(***************************************************************************)
(* Theorems about the library's threads.  Two are about the places where   *)
(* threads hand work to each other: MessageSupervisor, for any number of   *)
(* requests and of replies to each, and EventLoop, for any threads,        *)
(* channels and events.  The third is LibraryLifetime, for any number of   *)
(* workers, restarts, failures and requests.                               *)
(***************************************************************************)
EXTENDS MessageSupervisor, EventLoop, LibraryLifetime, FiniteSetTheorems, SequenceTheorems, TLAPS

-----------------------------------------------------------------------------
(* Requests and replies.                                                   *)

\* The event thread has a message except while it cleans up or waits.
HandlerOK ==
  handler.at \notin {"cleanup", "dequeue"} => handler.msg \in Messages

TypeInv == TypeOK /\ HandlerOK

\* A message is a request's ID and a number.
LEMMA MessageParts ==
  ASSUME NEW m \in Messages
  PROVE  m[1] \in Requests /\ m[2] \in 1..MaxReplies /\ m # NoMsg
BY SupervisorAssumption DEF Messages

\* The initial state has its types.
LEMMA InitType == Init => TypeInv
BY SupervisorAssumption
   DEF Init, TypeInv, TypeOK, HandlerOK, Polling, CallerAt, HandlerAt

\* The steps of a caller keep the types.
LEMMA CallerType ==
  ASSUME TypeInv, NEW r \in Requests, RegisterBegin(r) \/ CallerStep(r)
  PROVE  TypeInv'
<1> USE DEF TypeInv, TypeOK, HandlerOK, CallerGoTo
<1>1. CASE RegisterBegin(r)
  BY <1>1 DEF RegisterBegin, CallerAt
<1>2. CASE RegisterEnd(r)
  BY <1>2 DEF RegisterEnd, CallerAt
<1>3. CASE Send(r)
  BY <1>3 DEF Send, CallerAt
<1>4. CASE Answered(r)
  BY <1>4 DEF Answered, CallerAt
<1>5. CASE TimedOut(r)
  BY <1>5 DEF TimedOut, CallerAt
<1>6. CASE CallbackDone(r)
  BY <1>6 DEF CallbackDone, CallerAt
<1>7. CASE ReleaseFind(r)
  BY <1>7 DEF ReleaseFind, CallerAt
<1>8. CASE ReleaseMiss(r)
  BY <1>8 DEF ReleaseMiss, CallerAt
<1>9. CASE ReleaseErase(r)
  BY <1>9 DEF ReleaseErase, CallerAt
<1>10. CASE Retire(r)
  BY <1>10 DEF Retire, CallerAt
<1> QED
  BY <1>1, <1>2, <1>3, <1>4, <1>5, <1>6, <1>7, <1>8, <1>9, <1>10
     DEF CallerStep

\* The steps of the event thread keep the types.
LEMMA HandlerType ==
  ASSUME TypeInv, HandlerStep
  PROVE  TypeInv'
<1> USE DEF TypeInv, TypeOK, HandlerOK, HandlerGoTo
<1>1. CASE \E r \in Requests : CleanupOne(r) \/ CleanupMiss(r)
  BY <1>1 DEF CleanupOne, CleanupMiss
<1>2. CASE CleanupDone
  BY <1>2 DEF CleanupDone, HandlerAt
<1>3. CASE \E m \in Messages : Dequeue(m)
  <2>1. PICK m \in Messages : Dequeue(m)
    BY <1>3
  <2>2. handler' \in [at : HandlerAt, msg : Messages \union {NoMsg},
                      raced : BOOLEAN]
    BY <2>1 DEF Dequeue, HandlerAt
  <2> QED
    BY <2>1, <2>2 DEF Dequeue
<1>4. CASE DequeueTimeout
  BY <1>4 DEF DequeueTimeout, HandlerAt
<1>5. CASE FindPromise
  BY <1>5 DEF FindPromise, HandlerAt
<1>6. CASE FindNothing
  <2>1. Registering \in BOOLEAN
    BY DEF Registering
  <2>2. /\ handler' \in [at : HandlerAt, msg : Messages \union {NoMsg},
                         raced : BOOLEAN]
        /\ handler'.msg = handler.msg
    BY <1>6, <2>1 DEF FindNothing, HandlerAt
  <2> QED
    BY <1>6, <2>2 DEF FindNothing
<1>7. CASE OwnBegin
  BY <1>7 DEF OwnBegin, HandlerAt
<1>8. CASE OwnEnd
  <2>1. handler.msg \in Messages /\ handler.msg[1] \in Requests
    BY <1>8, MessageParts DEF OwnEnd
  <2> QED
    BY <1>8, <2>1 DEF OwnEnd, HandlerAt
<1>9. CASE Resolve
  <2>1. handler.msg \in Messages /\ handler.msg[1] \in Requests
    BY <1>9, MessageParts DEF Resolve
  <2> QED
    BY <1>9, <2>1 DEF Resolve, Polling, HandlerAt
<1>10. CASE Drop
  BY <1>10 DEF Drop, Polling, HandlerAt
<1> QED
  BY <1>1, <1>2, <1>3, <1>4, <1>5, <1>6, <1>7, <1>8, <1>9, <1>10
     DEF HandlerStep

\* Every step keeps the types.
LEMMA TypeStep ==
  ASSUME TypeInv, [Next]_vars
  PROVE  TypeInv'
<1>1. ASSUME NEW r \in Requests, ReplyArrives(r) PROVE TypeInv'
  <2>1. arrived[r] + 1 \in 1..MaxReplies
    BY <1>1, SupervisorAssumption DEF ReplyArrives, TypeInv, TypeOK
  <2>2. <<r, arrived[r] + 1>> \in Messages
    BY <2>1 DEF Messages
  <2>3. arrived' \in [Requests -> 0..MaxReplies]
    BY <1>1, <2>1, SupervisorAssumption DEF ReplyArrives, TypeInv, TypeOK
  <2> QED
    BY <1>1, <2>2, <2>3 DEF ReplyArrives, TypeInv, TypeOK, HandlerOK
<1>2. CASE UNCHANGED vars
  BY <1>2 DEF vars, TypeInv, TypeOK, HandlerOK
<1> QED
  BY <1>1, <1>2, CallerType, HandlerType DEF Next

\* Every variable keeps its type, in particular the two maps from message IDs.
THEOREM TypeCorrect == Spec => []TypeOK
<1>1. TypeInv /\ [Next]_vars => TypeInv'
  BY TypeStep
<1>2. TypeInv => TypeOK
  BY DEF TypeInv
<1> QED
  BY <1>1, <1>2, InitType, PTL DEF Spec

-----------------------------------------------------------------------------
(* Ownership of messages.  A message is in one place at a time until it is *)
(* given an owner or destroyed; after that only its caller destroys it.    *)

\* The caller has released its reply, or gone on without one.
Past(r) == caller[r] \in {"erase", "retire", "done"}

\* Nobody but the transport knows the message yet.
Fresh(m) ==
  \/ arrived[m[1]] < m[2]
  \/ m \in inbox
  \/ handler.msg = m /\ handler.at \in {"find", "own", "owning", "drop"}

\* A message that is in the inbox or in the event thread's hands has arrived,
\* and is not in both.
OnePlace ==
  /\ \A m \in inbox : m[2] <= arrived[m[1]]
  /\ handler.at \notin {"cleanup", "dequeue"} =>
       /\ handler.msg[2] <= arrived[handler.msg[1]]
       /\ handler.msg \notin inbox

\* A fresh message has its frame and no owner.
FreshIntact ==
  \A m \in Messages : Fresh(m) =>
    /\ frees[m] = 0
    /\ owned[m[1]] # m
    /\ value[m[1]] # m

\* An owned message is owned under its own ID and has its frame, but for the
\* moment between its destruction and the erasure of the entry.
OwnedIntact ==
  \A r \in Requests : owned[r] # NoMsg =>
    /\ owned[r][1] = r
    /\ frees[owned[r]] = 0 \/ caller[r] = "erase"

\* What a promise was resolved with answers its request; until the caller is
\* past its release, the ID has an owned message and the answer has its frame.
ValueIntact ==
  \A r \in Requests : value[r] # NoMsg =>
    /\ value[r][1] = r
    /\ Past(r) \/ (owned[r] # NoMsg /\ frees[value[r]] = 0)

\* The same of the message with which a promise is about to be resolved.
ResolveIntact ==
  handler.at = "resolve" =>
    LET r == handler.msg[1] IN
    Past(r) \/ (owned[r] # NoMsg /\ frees[handler.msg] = 0)

\* What a caller holds is what its promise was resolved with.
GotIsValue == \A r \in Requests : got[r] # NoMsg => got[r] = value[r]

\* No message has been destroyed more than once.
Ownership ==
  /\ OnePlace /\ FreshIntact /\ OwnedIntact /\ ValueIntact /\ ResolveIntact
  /\ GotIsValue
  /\ FreedOnce

\* At first there are no messages.
LEMMA InitOwnership == Init => Ownership
<1> SUFFICES ASSUME Init PROVE Ownership
  OBVIOUS
<1>1. ASSUME NEW m \in Messages
      PROVE  frees[m] = 0 /\ owned[m[1]] # m /\ value[m[1]] # m
  BY MessageParts DEF Init
<1>2. OnePlace /\ OwnedIntact /\ ValueIntact /\ ResolveIntact /\ GotIsValue
  BY DEF Init, OnePlace, OwnedIntact, ValueIntact, ResolveIntact, GotIsValue,
         Polling
<1> QED
  BY <1>1, <1>2 DEF Ownership, FreshIntact, FreedOnce

\* A step that only moves one caller, not out of the erasure and not back from
\* being past its release.
LEMMA QuietCaller ==
  ASSUME TypeInv, Ownership, NEW r \in Requests, NEW next,
         caller' = [caller EXCEPT ![r] = next],
         caller[r] # "erase", Past(r) => Past(r)',
         UNCHANGED <<got, value, owned, arrived, inbox, handler, frees>>
  PROVE  Ownership'
<1>1. \A q \in Requests : /\ Past(q) => Past(q)'
                          /\ caller[q] = "erase" => caller'[q] = "erase"
  BY DEF Past, TypeInv, TypeOK
<1>2. OnePlace' /\ FreshIntact' /\ GotIsValue' /\ FreedOnce'
  BY DEF Ownership, OnePlace, FreshIntact, Fresh, GotIsValue, FreedOnce
<1>3. OwnedIntact' /\ ValueIntact'
  BY <1>1 DEF Ownership, OwnedIntact, ValueIntact
<1>4. ResolveIntact'
  <2>1. handler.at = "resolve" => handler.msg[1] \in Requests
    BY MessageParts DEF TypeInv, HandlerOK
  <2> QED
    BY <1>1, <2>1 DEF Ownership, ResolveIntact
<1> QED
  BY <1>2, <1>3, <1>4 DEF Ownership

\* A step that only moves the event thread, and neither takes up a message
\* nor comes to resolve a promise.
LEMMA QuietHandler ==
  ASSUME TypeInv, Ownership, handler'.at # "resolve",
         \/ handler'.at \in {"cleanup", "dequeue"}
         \/ /\ handler'.msg = handler.msg
            /\ handler.at \in {"find", "own", "owning", "drop"},
         UNCHANGED <<caller, got, value, owned, arrived, inbox, frees>>
  PROVE  Ownership'
<1>1. \A m \in Messages : Fresh(m)' => Fresh(m)
  BY DEF Fresh
<1>2. OnePlace' /\ FreshIntact'
  BY <1>1 DEF Ownership, OnePlace, FreshIntact
<1>3. OwnedIntact' /\ ValueIntact' /\ ResolveIntact' /\ GotIsValue' /\ FreedOnce'
  BY DEF Ownership, OwnedIntact, ValueIntact, ResolveIntact, GotIsValue,
         FreedOnce, Past
<1> QED
  BY <1>2, <1>3 DEF Ownership

\* Every step of a caller keeps Ownership.
LEMMA CallerOwnership ==
  ASSUME TypeInv, Ownership, NEW r \in Requests,
         RegisterBegin(r) \/ CallerStep(r)
  PROVE  Ownership'
<1>1. CASE \/ RegisterBegin(r) \/ RegisterEnd(r) \/ Send(r) \/ TimedOut(r)
           \/ CallbackDone(r) \/ ReleaseMiss(r) \/ Retire(r)
  <2>1. \E next : caller' = [caller EXCEPT ![r] = next]
    BY <1>1
       DEF RegisterBegin, RegisterEnd, Send, TimedOut, CallbackDone,
           ReleaseMiss, Retire, CallerGoTo
  <2>2. caller[r] # "erase" /\ (Past(r) => Past(r)')
    BY <1>1
       DEF RegisterBegin, RegisterEnd, Send, TimedOut, CallbackDone,
           ReleaseMiss, Retire, CallerGoTo, Past, TypeInv, TypeOK
  <2>3. UNCHANGED <<got, value, owned, arrived, inbox, handler, frees>>
    BY <1>1
       DEF RegisterBegin, RegisterEnd, Send, TimedOut, CallbackDone,
           ReleaseMiss, Retire
  <2> QED
    BY <2>1, <2>2, <2>3, QuietCaller
<1>2. CASE Answered(r)
  <2>1. /\ caller[r] = "wait" /\ caller'[r] = "callback"
        /\ \A q \in Requests : q # r => caller'[q] = caller[q]
        /\ got' = [got EXCEPT ![r] = value[r]]
        /\ UNCHANGED <<value, owned, arrived, inbox, handler, frees>>
    BY <1>2 DEF Answered, CallerGoTo, TypeInv, TypeOK
  <2>2. \A q \in Requests : /\ Past(q) => Past(q)'
                            /\ caller[q] = "erase" => caller'[q] = "erase"
    BY <2>1 DEF Past
  <2>3. OnePlace' /\ FreshIntact' /\ FreedOnce'
    BY <2>1 DEF Ownership, OnePlace, FreshIntact, Fresh, FreedOnce
  <2>4. OwnedIntact' /\ ValueIntact'
    BY <2>1, <2>2 DEF Ownership, OwnedIntact, ValueIntact
  <2>5. GotIsValue'
    BY <2>1 DEF Ownership, GotIsValue, TypeInv, TypeOK
  <2>6. ResolveIntact'
    <3>1. handler.at = "resolve" => handler.msg[1] \in Requests
      BY MessageParts DEF TypeInv, HandlerOK
    <3> QED
      BY <2>1, <2>2, <3>1 DEF Ownership, ResolveIntact
  <2> QED
    BY <2>3, <2>4, <2>5, <2>6 DEF Ownership
<1>3. CASE ReleaseFind(r)
  <2>1. PICK b \in Messages : b = owned[r]
    BY <1>3 DEF ReleaseFind, TypeInv, TypeOK
  <2>2. b[1] = r /\ frees[b] = 0 /\ Past(r)' /\ caller'[r] = "erase"
    BY <1>3, <2>1, MessageParts
       DEF ReleaseFind, CallerGoTo, Past, Ownership, OwnedIntact, TypeInv,
           TypeOK
  <2>3. /\ \A q \in Requests : q # r => caller'[q] = caller[q]
        /\ frees'[b] = 1
        /\ \A m \in Messages : m # b => frees'[m] = frees[m]
        /\ UNCHANGED <<got, value, owned, arrived, inbox, handler>>
    BY <1>3, <2>1, <2>2 DEF ReleaseFind, CallerGoTo, TypeInv, TypeOK
  <2>4. \A q \in Requests : q # r => (Past(q) <=> Past(q)')
    BY <2>3 DEF Past
  <2>5. \A m \in Messages : Fresh(m)' => Fresh(m) /\ m # b
    BY <2>1, <2>2, <2>3 DEF Fresh, Ownership, FreshIntact
  <2>6. OnePlace' /\ FreshIntact' /\ GotIsValue' /\ FreedOnce'
    BY <2>3, <2>5
       DEF Ownership, OnePlace, FreshIntact, GotIsValue, FreedOnce
  <2>7. OwnedIntact' /\ ValueIntact'
    BY <2>2, <2>3, <2>4
       DEF Ownership, OwnedIntact, ValueIntact, TypeInv, TypeOK
  <2>8. ResolveIntact'
    <3>1. handler.at = "resolve" =>
            handler.msg \in Messages /\ handler.msg[1] \in Requests
      BY MessageParts DEF TypeInv, HandlerOK
    <3> QED
      BY <2>2, <2>3, <2>4, <3>1 DEF Ownership, ResolveIntact
  <2> QED
    BY <2>6, <2>7, <2>8 DEF Ownership
<1>4. CASE ReleaseErase(r)
  <2>1. /\ Past(r) /\ Past(r)' /\ owned' = [owned EXCEPT ![r] = NoMsg]
        /\ \A q \in Requests : q # r => caller'[q] = caller[q]
        /\ UNCHANGED <<got, value, arrived, inbox, handler, frees>>
    BY <1>4 DEF ReleaseErase, CallerGoTo, Past, TypeInv, TypeOK
  <2>2. /\ owned'[r] = NoMsg
        /\ \A q \in Requests : /\ q # r => owned'[q] = owned[q]
                               /\ Past(q) => Past(q)'
    BY <2>1 DEF Past, TypeInv, TypeOK
  <2>3. FreshIntact'
    <3> SUFFICES ASSUME NEW m \in Messages, Fresh(m)'
                 PROVE  /\ frees'[m] = 0
                        /\ owned'[m[1]] # m
                        /\ value'[m[1]] # m
      BY DEF FreshIntact
    <3>1. Fresh(m) /\ m[1] \in Requests /\ m # NoMsg
      BY <2>1, MessageParts DEF Fresh
    <3> QED
      BY <2>1, <2>2, <3>1 DEF Ownership, FreshIntact
  <2>4. OnePlace' /\ GotIsValue' /\ FreedOnce'
    BY <2>1 DEF Ownership, OnePlace, GotIsValue, FreedOnce
  <2>5. OwnedIntact' /\ ValueIntact'
    BY <2>1, <2>2 DEF Ownership, OwnedIntact, ValueIntact
  <2>6. ResolveIntact'
    <3>1. handler.at = "resolve" => handler.msg[1] \in Requests
      BY MessageParts DEF TypeInv, HandlerOK
    <3> QED
      BY <2>1, <2>2, <3>1 DEF Ownership, ResolveIntact
  <2> QED
    BY <2>3, <2>4, <2>5, <2>6 DEF Ownership
<1> QED
  BY <1>1, <1>2, <1>3, <1>4 DEF CallerStep

\* Every step of the event thread keeps Ownership.
LEMMA HandlerOwnership ==
  ASSUME TypeInv, Ownership, HandlerStep
  PROVE  Ownership'
<1>1. CASE \/ \E r \in Requests : CleanupOne(r) \/ CleanupMiss(r)
  BY <1>1
     DEF CleanupOne, CleanupMiss, Ownership, OnePlace, FreshIntact, Fresh, OwnedIntact,
         ValueIntact, ResolveIntact, GotIsValue, FreedOnce, Past
<1>2. CASE CleanupDone \/ DequeueTimeout \/ FindPromise \/ FindNothing \/ OwnBegin
  <2>1. /\ handler'.at # "resolve"
        /\ \/ handler'.at \in {"cleanup", "dequeue"}
           \/ /\ handler'.msg = handler.msg
              /\ handler.at \in {"find", "own", "owning", "drop"}
    BY <1>2
       DEF CleanupDone, DequeueTimeout, FindPromise, FindNothing, OwnBegin,
           HandlerGoTo, TypeInv, TypeOK
  <2>2. UNCHANGED <<caller, got, value, owned, arrived, inbox, frees>>
    BY <1>2
       DEF CleanupDone, DequeueTimeout, FindPromise, FindNothing, OwnBegin
  <2> QED
    BY <2>1, <2>2, QuietHandler
<1>3. CASE \E m \in Messages : Dequeue(m)
  <2>1. PICK b \in Messages : Dequeue(b)
    BY <1>3
  <2>2. /\ handler'.at = "find" /\ handler'.msg = b /\ b \in inbox
        /\ inbox' = inbox \ {b} /\ inbox \subseteq Messages
        /\ UNCHANGED <<caller, got, value, owned, arrived, frees>>
    BY <2>1 DEF Dequeue, TypeInv, TypeOK
  <2>3. \A m \in Messages : Fresh(m)' => Fresh(m)
    BY <2>2 DEF Fresh
  <2>4. OnePlace' /\ FreshIntact'
    BY <2>2, <2>3 DEF Ownership, OnePlace, FreshIntact
  <2>5. /\ OwnedIntact' /\ ValueIntact' /\ ResolveIntact' /\ GotIsValue'
        /\ FreedOnce'
    BY <2>2
       DEF Ownership, OwnedIntact, ValueIntact, ResolveIntact, GotIsValue,
           FreedOnce, Past
  <2> QED
    BY <2>4, <2>5 DEF Ownership
<1>4. CASE OwnEnd
  <2>1. PICK b \in Messages : b = handler.msg
    BY <1>4 DEF OwnEnd, TypeInv, HandlerOK
  <2> DEFINE r == b[1]
  <2>2. /\ r \in Requests /\ b # NoMsg /\ Fresh(b) /\ frees[b] = 0
        /\ b \notin inbox /\ b[2] <= arrived[r]
    BY <1>4, <2>1, MessageParts
       DEF OwnEnd, Fresh, Ownership, FreshIntact, OnePlace
  <2>3. /\ handler'.at = "resolve" /\ handler'.msg = b
        /\ owned'[r] = b
        /\ \A q \in Requests : q # r => owned'[q] = owned[q]
        /\ UNCHANGED <<caller, got, value, arrived, inbox, frees>>
    BY <1>4, <2>1, <2>2 DEF OwnEnd, HandlerGoTo, TypeInv, TypeOK
  <2>4. ASSUME NEW m \in Messages, Fresh(m)'
        PROVE  Fresh(m) /\ m # b
    <3>1. arrived[r] \in Nat /\ b[2] \in Nat
      BY <2>2, MessageParts, SupervisorAssumption DEF TypeInv, TypeOK
    <3> QED
      BY <2>2, <2>3, <2>4, <3>1 DEF Fresh
  <2>5. FreshIntact'
    <3> SUFFICES ASSUME NEW m \in Messages, Fresh(m)'
                 PROVE  /\ frees'[m] = 0
                        /\ owned'[m[1]] # m
                        /\ value'[m[1]] # m
      BY DEF FreshIntact
    <3> QED
      BY <2>3, <2>4, MessageParts DEF Ownership, FreshIntact
  <2>6. OnePlace' /\ GotIsValue' /\ FreedOnce'
    BY <2>2, <2>3 DEF Ownership, OnePlace, GotIsValue, FreedOnce
  <2>7. OwnedIntact' /\ ValueIntact' /\ ResolveIntact'
    BY <2>2, <2>3
       DEF Ownership, OwnedIntact, ValueIntact, ResolveIntact, Past
  <2> QED
    BY <2>5, <2>6, <2>7 DEF Ownership
<1>5. CASE Resolve
  <2>1. PICK b \in Messages : b = handler.msg
    BY <1>5 DEF Resolve, TypeInv, HandlerOK
  <2> DEFINE r == b[1]
  <2>2. /\ r \in Requests /\ b # NoMsg /\ b \notin inbox /\ b[2] <= arrived[r]
        /\ Past(r) \/ (owned[r] # NoMsg /\ frees[b] = 0)
    BY <1>5, <2>1, MessageParts
       DEF Resolve, Ownership, OnePlace, ResolveIntact
  <2>3. /\ handler'.at = "cleanup"
        /\ value'[r] = IF value[r] = NoMsg THEN b ELSE value[r]
        /\ \A q \in Requests : q # r => value'[q] = value[q]
        /\ UNCHANGED <<caller, got, owned, arrived, inbox, frees>>
    BY <1>5, <2>1, <2>2 DEF Resolve, Polling, TypeInv, TypeOK
  <2>4. ASSUME NEW m \in Messages, Fresh(m)'
        PROVE  Fresh(m) /\ m # b
    <3>1. arrived[r] \in Nat /\ b[2] \in Nat
      BY <2>2, MessageParts, SupervisorAssumption DEF TypeInv, TypeOK
    <3> QED
      BY <2>2, <2>3, <2>4, <3>1 DEF Fresh
  <2>5. FreshIntact'
    <3> SUFFICES ASSUME NEW m \in Messages, Fresh(m)'
                 PROVE  /\ frees'[m] = 0
                        /\ owned'[m[1]] # m
                        /\ value'[m[1]] # m
      BY DEF FreshIntact
    <3> QED
      BY <2>3, <2>4, MessageParts DEF Ownership, FreshIntact
  <2>6. OnePlace' /\ OwnedIntact' /\ ResolveIntact' /\ FreedOnce'
    BY <2>3
       DEF Ownership, OnePlace, OwnedIntact, ResolveIntact, FreedOnce
  <2>7. ValueIntact' /\ GotIsValue'
    BY <2>2, <2>3 DEF Ownership, ValueIntact, GotIsValue, Past
  <2> QED
    BY <2>5, <2>6, <2>7 DEF Ownership
<1>6. CASE Drop
  <2>1. PICK b \in Messages : b = handler.msg
    BY <1>6 DEF Drop, TypeInv, HandlerOK
  <2>2. /\ b[1] \in Requests /\ b # NoMsg /\ b \notin inbox
        /\ b[2] <= arrived[b[1]]
        /\ frees[b] = 0 /\ owned[b[1]] # b /\ value[b[1]] # b
    BY <1>6, <2>1, MessageParts
       DEF Drop, Fresh, Ownership, OnePlace, FreshIntact
  <2>3. /\ handler'.at = "cleanup"
        /\ frees'[b] = 1
        /\ \A m \in Messages : m # b => frees'[m] = frees[m]
        /\ UNCHANGED <<caller, got, value, owned, arrived, inbox>>
    BY <1>6, <2>1, <2>2 DEF Drop, Polling, TypeInv, TypeOK
  <2>4. ASSUME NEW m \in Messages, Fresh(m)'
        PROVE  Fresh(m) /\ m # b
    <3>1. arrived[b[1]] \in Nat /\ b[2] \in Nat
      BY <2>2, MessageParts, SupervisorAssumption DEF TypeInv, TypeOK
    <3> QED
      BY <2>2, <2>3, <2>4, <3>1 DEF Fresh
  <2>5. OnePlace' /\ FreshIntact' /\ GotIsValue' /\ FreedOnce'
    BY <2>3, <2>4
       DEF Ownership, OnePlace, FreshIntact, GotIsValue, FreedOnce
  <2>6. OwnedIntact' /\ ValueIntact' /\ ResolveIntact'
    BY <2>2, <2>3
       DEF Ownership, OwnedIntact, ValueIntact, ResolveIntact, Past, TypeInv,
           TypeOK
  <2> QED
    BY <2>5, <2>6 DEF Ownership
<1> QED
  BY <1>1, <1>2, <1>3, <1>4, <1>5, <1>6 DEF HandlerStep

\* Every step keeps Ownership.
LEMMA OwnershipStep ==
  ASSUME TypeInv, Ownership, [Next]_vars
  PROVE  Ownership'
<1>1. ASSUME NEW r \in Requests, ReplyArrives(r) PROVE Ownership'
  <2> DEFINE b == <<r, arrived[r] + 1>>
  <2>1. /\ arrived[r] \in Nat
        /\ inbox' = inbox \union {b}
        /\ arrived'[r] = arrived[r] + 1
        /\ \A q \in Requests : q # r => arrived'[q] = arrived[q]
        /\ UNCHANGED <<caller, got, value, owned, handler, frees>>
    BY <1>1, SupervisorAssumption DEF ReplyArrives, TypeInv, TypeOK
  <2>2. \A m \in Messages : m[1] \in Requests /\ m[2] \in Nat
                            /\ arrived[m[1]] \in Nat
    BY MessageParts, SupervisorAssumption DEF TypeInv, TypeOK
  <2>3. \A m \in Messages : Fresh(m)' => Fresh(m)
    BY <2>1, <2>2 DEF Fresh
  <2>4. FreshIntact'
    BY <2>1, <2>3 DEF Ownership, FreshIntact
  <2>5. OnePlace'
    <3>1. \A m \in inbox' : m[2] <= arrived'[m[1]]
      BY <2>1, <2>2 DEF Ownership, OnePlace, TypeInv, TypeOK
    <3>2. ASSUME handler.at \notin {"cleanup", "dequeue"}
          PROVE  /\ handler.msg[2] <= arrived'[handler.msg[1]]
                 /\ handler.msg \notin inbox'
      BY <2>1, <2>2, <3>2 DEF Ownership, OnePlace, TypeInv, HandlerOK
    <3> QED
      BY <2>1, <3>1, <3>2 DEF OnePlace
  <2>6. /\ OwnedIntact' /\ ValueIntact' /\ ResolveIntact' /\ GotIsValue'
        /\ FreedOnce'
    BY <2>1
       DEF Ownership, OwnedIntact, ValueIntact, ResolveIntact, GotIsValue,
           FreedOnce, Past
  <2> QED
    BY <2>4, <2>5, <2>6 DEF Ownership
<1>2. CASE UNCHANGED vars
  BY <1>2
     DEF vars, Ownership, OnePlace, FreshIntact, Fresh, OwnedIntact,
         ValueIntact, ResolveIntact, GotIsValue, FreedOnce, Past
<1> QED
  BY <1>1, <1>2, CallerOwnership, HandlerOwnership DEF Next

\* The frame of a reply is there as long as its caller reads it, and no frame
\* is destroyed twice, for any number of requests and of (duplicate or late)
\* replies: taking ownership before the promise is resolved makes the caller
\* the only one that destroys what it was given.
THEOREM RepliesKept == Spec => [](FrameHeld /\ FreedOnce /\ AnswerOwned)
<1> DEFINE Inv == TypeInv /\ Ownership
<1>1. Init => Inv
  BY InitType, InitOwnership
<1>2. Inv /\ [Next]_vars => Inv'
  BY TypeStep, OwnershipStep
<1>3. Inv => FrameHeld /\ FreedOnce /\ AnswerOwned
  BY DEF Ownership, ValueIntact, GotIsValue, Past, FrameHeld, AnswerOwned
<1> QED
  BY <1>1, <1>2, <1>3, PTL DEF Spec

\* release_owned_message of the callers and the drop in the event thread never
\* meet on one frame: no frame of a received message is destroyed twice.
THEOREM FramesFreedOnce == Spec => []FreedOnce
BY RepliesKept, PTL

-----------------------------------------------------------------------------
(* Replies and promises.  That a reply finds its promise follows from the  *)
(* order of a caller's steps (register, send, retire) and of the event     *)
(* thread's (it erases retired promises only), whatever they overlap with. *)

\* Not yet sent: nothing can have been answered.
Unsent(r) == caller[r] \in {"idle", "registering", "send"}

\* Replies, queued or in the event thread's hands, are to requests that were
\* sent.
ReplyAfterSend ==
  /\ \A m \in inbox : ~Unsent(m[1])
  /\ handler.at \notin {"cleanup", "dequeue"} => ~Unsent(handler.msg[1])

\* From its registration until its caller is done, a promise is in the map.
PromiseHeld ==
  /\ \A r \in Requests :
       caller[r] \notin {"idle", "registering", "done"} => r \in promises
  /\ \A r \in retired : caller[r] = "done"

\* A reply that is dropped, and not because of a race, came too late.
DropIsLate ==
  handler.at = "drop" /\ ~handler.raced => caller[handler.msg[1]] = "done"

Promised == ReplyAfterSend /\ PromiseHeld /\ DropIsLate

\* A caller's step that leaves the queue, the maps of promises and the event
\* thread alone, and neither begins nor ends the call.
LEMMA QuietPromises ==
  ASSUME TypeInv, Promised, NEW r \in Requests, NEW next \in CallerAt,
         CallerGoTo(r, next), next \notin {"idle", "registering", "done"},
         next = "send" => Unsent(r), r \in promises',
         caller[r] # "done", promises \subseteq promises',
         UNCHANGED <<inbox, retired, handler>>
  PROVE  Promised'
<1>1. /\ caller'[r] = next
      /\ \A q \in Requests : q # r => caller'[q] = caller[q]
  BY DEF CallerGoTo, TypeInv, TypeOK
<1>2. \A m \in inbox : m[1] \in Requests
  BY MessageParts DEF TypeInv, TypeOK
<1>3. handler.at \notin {"cleanup", "dequeue"} => handler.msg[1] \in Requests
  BY MessageParts DEF TypeInv, HandlerOK
<1>4. ReplyAfterSend'
  BY <1>1, <1>2, <1>3 DEF Promised, ReplyAfterSend, Unsent
<1>5. PromiseHeld'
  BY <1>1 DEF Promised, PromiseHeld, TypeInv, TypeOK
<1>6. DropIsLate'
  BY <1>1, <1>3 DEF Promised, DropIsLate
<1> QED
  BY <1>4, <1>5, <1>6 DEF Promised

\* Every step of a caller keeps Promised.
LEMMA CallerPromised ==
  ASSUME TypeInv, Promised, NEW r \in Requests,
         RegisterBegin(r) \/ CallerStep(r)
  PROVE  Promised'
<1>1. CASE RegisterBegin(r)
  <2>1. /\ caller[r] = "idle" /\ caller'[r] = "registering"
        /\ \A q \in Requests : q # r => caller'[q] = caller[q]
        /\ UNCHANGED <<promises, inbox, retired, handler>>
    BY <1>1 DEF RegisterBegin, CallerGoTo, TypeInv, TypeOK
  <2>2. \A m \in inbox : m[1] \in Requests
    BY MessageParts DEF TypeInv, TypeOK
  <2>3. handler.at \notin {"cleanup", "dequeue"} => handler.msg[1] \in Requests
    BY MessageParts DEF TypeInv, HandlerOK
  <2> QED
    BY <2>1, <2>2, <2>3
       DEF Promised, ReplyAfterSend, PromiseHeld, DropIsLate, Unsent, TypeInv,
           TypeOK
<1>2. CASE RegisterEnd(r) \/ Send(r) \/ Answered(r) \/ TimedOut(r)
           \/ CallbackDone(r) \/ ReleaseFind(r) \/ ReleaseMiss(r)
           \/ ReleaseErase(r)
  <2> USE DEF RegisterEnd, Send, Answered, TimedOut, CallbackDone,
              ReleaseFind, ReleaseMiss, ReleaseErase
  <2>1. PICK next \in CallerAt : /\ CallerGoTo(r, next)
                                 /\ next \notin {"idle", "registering", "done"}
                                 /\ next = "send" => Unsent(r)
    BY <1>2 DEF CallerAt, Unsent
  <2>2. caller[r] \notin {"idle", "done"} /\ UNCHANGED <<inbox, retired, handler>>
    BY <1>2
  <2>3. r \in promises' /\ promises \subseteq promises'
    BY <1>2 DEF Promised, PromiseHeld
  <2> QED
    BY <2>1, <2>2, <2>3, QuietPromises
<1>3. CASE Retire(r)
  <2>1. /\ caller[r] = "retire" /\ caller'[r] = "done"
        /\ \A q \in Requests : q # r => caller'[q] = caller[q]
        /\ retired' = retired \union {r}
        /\ UNCHANGED <<promises, inbox, handler>>
    BY <1>3 DEF Retire, CallerGoTo, TypeInv, TypeOK
  <2>2. \A m \in inbox : m[1] \in Requests
    BY MessageParts DEF TypeInv, TypeOK
  <2>3. handler.at \notin {"cleanup", "dequeue"} => handler.msg[1] \in Requests
    BY MessageParts DEF TypeInv, HandlerOK
  <2>4. ReplyAfterSend' /\ DropIsLate'
    BY <2>1, <2>2, <2>3 DEF Promised, ReplyAfterSend, DropIsLate, Unsent
  <2>5. PromiseHeld'
    BY <2>1 DEF Promised, PromiseHeld, TypeInv, TypeOK
  <2> QED
    BY <2>4, <2>5 DEF Promised
<1> QED
  BY <1>1, <1>2, <1>3 DEF CallerStep

\* Every step of the event thread keeps Promised.
LEMMA HandlerPromised ==
  ASSUME TypeInv, Promised, HandlerStep
  PROVE  Promised'
<1> USE DEF Promised, ReplyAfterSend, PromiseHeld, DropIsLate, Unsent
<1>1. CASE \E r \in Requests : CleanupOne(r) \/ CleanupMiss(r)
  <2>1. PICK r \in Requests : CleanupOne(r) \/ CleanupMiss(r)
    BY <1>1
  <2>2. /\ caller[r] = "done" /\ retired' = retired \ {r}
        /\ promises' \in {promises, promises \ {r}}
        /\ UNCHANGED <<caller, inbox, handler>>
    BY <2>1 DEF CleanupOne, CleanupMiss, MayMiss
  <2> QED
    BY <2>2
<1>2. CASE CleanupDone \/ DequeueTimeout \/ FindPromise \/ OwnBegin \/ OwnEnd
  <2>1. /\ handler'.at # "drop"
        /\ \/ handler'.at \in {"cleanup", "dequeue"}
           \/ /\ handler'.msg = handler.msg
              /\ handler.at \in {"find", "own", "owning"}
    BY <1>2
       DEF CleanupDone, DequeueTimeout, FindPromise, OwnBegin, OwnEnd,
           HandlerGoTo, TypeInv, TypeOK
  <2>2. UNCHANGED <<caller, promises, retired, inbox>>
    BY <1>2 DEF CleanupDone, DequeueTimeout, FindPromise, OwnBegin, OwnEnd
  <2> QED
    BY <2>1, <2>2
<1>3. CASE \E m \in Messages : Dequeue(m)
  <2>1. PICK m \in Messages : Dequeue(m)
    BY <1>3
  <2>2. /\ handler'.at = "find" /\ handler'.msg = m /\ m \in inbox
        /\ inbox' = inbox \ {m}
        /\ UNCHANGED <<caller, promises, retired>>
    BY <2>1 DEF Dequeue
  <2> QED
    BY <2>2
<1>4. CASE FindNothing
  <2>1. handler.msg[1] \in Requests
    BY <1>4, MessageParts DEF FindNothing, TypeInv, HandlerOK
  <2>2. /\ handler.at = "find" /\ handler'.at = "drop"
        /\ handler'.msg = handler.msg /\ handler'.raced = Registering
        /\ handler.msg[1] \notin promises \/ Registering
        /\ UNCHANGED <<caller, promises, retired, inbox>>
    BY <1>4 DEF FindNothing, TypeInv, TypeOK
  <2>3. ~Registering => caller[handler.msg[1]] = "done"
    BY <2>1, <2>2 DEF TypeInv, TypeOK, CallerAt
  <2> QED
    BY <2>2, <2>3
<1>5. CASE Resolve \/ Drop
  <2>1. handler'.at = "cleanup" /\ UNCHANGED <<caller, promises, retired, inbox>>
    BY <1>5 DEF Resolve, Drop, Polling
  <2> QED
    BY <2>1
<1> QED
  BY <1>1, <1>2, <1>3, <1>4, <1>5 DEF HandlerStep

\* Every step keeps Promised.
LEMMA PromisedStep ==
  ASSUME TypeInv, Promised, [Next]_vars
  PROVE  Promised'
<1>1. ASSUME NEW r \in Requests, ReplyArrives(r) PROVE Promised'
  BY <1>1
     DEF ReplyArrives, Promised, ReplyAfterSend, PromiseHeld, DropIsLate, Unsent
<1>2. CASE UNCHANGED vars
  BY <1>2
     DEF vars, Promised, ReplyAfterSend, PromiseHeld, DropIsLate, Unsent
<1> QED
  BY <1>1, <1>2, CallerPromised, HandlerPromised DEF Next

\* process_message_response throws a reply away only when its caller has given
\* up, or when its unlocked search ran into a registration: never, for any
\* number of requests and replies, while a caller is still waiting for it.
THEOREM RepliesNotDropped == Spec => []ReplyNotDropped
<1> DEFINE Inv == TypeInv /\ Promised
<1>1. Init => Inv
  <2>1. Init => Promised
    BY DEF Init, Promised, ReplyAfterSend, PromiseHeld, DropIsLate, Polling
  <2> QED
    BY <2>1, InitType
<1>2. Inv /\ [Next]_vars => Inv'
  BY TypeStep, PromisedStep
<1>3. Inv => ReplyNotDropped
  BY DEF Promised, DropIsLate, ReplyNotDropped
<1> QED
  BY <1>1, <1>2, <1>3, PTL DEF Spec

-----------------------------------------------------------------------------
(* The event loop.                                                         *)

(* The events of a channel's queue follow the last one run, without gaps,  *)
(* up to the last one sent.                                                *)
InOrder ==
  \A c \in Channels :
    /\ Len(queue[c]) = sent[c] - ran[c]
    /\ \A i \in 1..Len(queue[c]) : queue[c][i] = ran[c] + i

LoopInv == LoopTypeOK /\ InOrder

(* A channel is deferred on by one of the threads, on a dispatcher the     *)
(* semaphore is notified for.                                              *)
LEMMA ChannelParts ==
  /\ \A c \in Channels : c[1] \in Threads /\ c[2] \in Dispatchers
  /\ Dispatchers = Woken
  /\ Len(DrainOrder) = 6
BY LoopAssumption DEF Woken, DrainOrder

(* defer keeps the queue of the channel in order.                          *)
LEMMA DeferInv ==
  ASSUME LoopInv, NEW c \in Channels, Defer(c)
  PROVE  LoopInv'
<1> USE DEF LoopInv
<1>1. /\ queue \in [Channels -> Seq(Nat)] /\ sent \in [Channels -> Nat]
      /\ ran \in [Channels -> Nat] /\ notifying \in [Threads -> SUBSET Dispatchers]
  BY DEF LoopTypeOK
<1>2. /\ sent' = [sent EXCEPT ![c] = @ + 1]
      /\ queue' = [queue EXCEPT ![c] = Append(@, sent[c] + 1)]
      /\ notifying' = [notifying EXCEPT ![c[1]] = {c[2]}]
      /\ UNCHANGED <<ran, count, pc, at, destroyed, closing>>
  BY DEF Defer
<1>3. queue[c] \in Seq(Nat) /\ sent[c] \in Nat /\ ran[c] \in Nat
  BY <1>1
<1>4. Append(queue[c], sent[c] + 1) \in Seq(Nat)
  BY <1>3
<1>5. queue' \in [Channels -> Seq(Nat)]
  BY <1>1, <1>2, <1>4
<1>6. notifying' \in [Threads -> SUBSET Dispatchers]
  BY <1>1, <1>2, ChannelParts
<1>7. sent' \in [Channels -> Nat]
  BY <1>1, <1>2
<1>8. LoopTypeOK'
  BY <1>1, <1>2, <1>5, <1>6, <1>7 DEF LoopTypeOK
<1>9. ASSUME NEW k \in Channels
      PROVE  /\ Len(queue'[k]) = sent'[k] - ran'[k]
             /\ \A i \in 1..Len(queue'[k]) : queue'[k][i] = ran'[k] + i
  <2>1. CASE k # c
    BY <1>1, <1>2, <2>1 DEF InOrder
  <2>2. CASE k = c
    <3>1. /\ queue'[k] = Append(queue[c], sent[c] + 1)
          /\ sent'[k] = sent[c] + 1 /\ ran'[k] = ran[c]
      BY <1>1, <1>2, <2>2
    <3>2. /\ Len(queue[c]) = sent[c] - ran[c]
          /\ \A i \in 1..Len(queue[c]) : queue[c][i] = ran[c] + i
      BY DEF InOrder
    <3>3. Len(Append(queue[c], sent[c] + 1)) = Len(queue[c]) + 1
      BY <1>3
    <3>4. ASSUME NEW i \in 1..(Len(queue[c]) + 1)
          PROVE  Append(queue[c], sent[c] + 1)[i] = ran[c] + i
      BY <1>3, <3>2
    <3> QED BY <1>3, <3>1, <3>2, <3>3, <3>4
  <2> QED BY <2>1, <2>2
<1>10. InOrder'
  BY <1>9 DEF InOrder
<1> QED BY <1>8, <1>10

(* Taking the head of a queue keeps the queue in order.                    *)
LEMMA RunEventInv ==
  ASSUME LoopInv, NEW c \in Channels, RunEvent(c)
  PROVE  /\ LoopInv'
         /\ ran[c] < sent[c]
         /\ ran' = [ran EXCEPT ![c] = @ + 1]
<1> USE DEF LoopInv
<1>1. /\ queue \in [Channels -> Seq(Nat)] /\ sent \in [Channels -> Nat]
      /\ ran \in [Channels -> Nat]
  BY DEF LoopTypeOK
<1>2. /\ queue[c] # <<>>
      /\ ran' = [ran EXCEPT ![c] = Head(queue[c])]
      /\ queue' = [queue EXCEPT ![c] = Tail(@)]
      /\ pc' = "run"
      /\ UNCHANGED <<sent, notifying, count, at, destroyed, closing>>
  BY DEF RunEvent
<1>3. queue[c] \in Seq(Nat) /\ sent[c] \in Nat /\ ran[c] \in Nat
  BY <1>1
<1>4. /\ Len(queue[c]) = sent[c] - ran[c]
      /\ \A i \in 1..Len(queue[c]) : queue[c][i] = ran[c] + i
  BY DEF InOrder
<1>5. Len(queue[c]) \in Nat /\ Len(queue[c]) > 0 /\ Head(queue[c]) = queue[c][1]
  BY <1>2, <1>3
<1>6. Head(queue[c]) = ran[c] + 1 /\ ran[c] < sent[c]
  <2>1. 1 \in 1..Len(queue[c])
    BY <1>5
  <2>2. queue[c][1] = ran[c] + 1
    BY <1>4, <2>1
  <2>3. ran[c] < sent[c]
    BY <1>3, <1>4, <1>5
  <2> QED BY <1>5, <2>2, <2>3
<1>7. ran' = [ran EXCEPT ![c] = @ + 1]
  BY <1>1, <1>2, <1>6
<1>8. Tail(queue[c]) \in Seq(Nat) /\ Len(Tail(queue[c])) = Len(queue[c]) - 1
      /\ \A i \in 1..Len(Tail(queue[c])) : Tail(queue[c])[i] = queue[c][i + 1]
  BY <1>2, <1>3
<1>9. queue' \in [Channels -> Seq(Nat)] /\ ran' \in [Channels -> Nat]
  BY <1>1, <1>2, <1>7, <1>8
<1>10. LoopTypeOK'
  BY <1>2, <1>9 DEF LoopTypeOK
<1>11. ASSUME NEW k \in Channels
       PROVE  /\ Len(queue'[k]) = sent'[k] - ran'[k]
              /\ \A i \in 1..Len(queue'[k]) : queue'[k][i] = ran'[k] + i
  <2>1. CASE k # c
    BY <1>1, <1>2, <2>1 DEF InOrder
  <2>2. CASE k = c
    <3>1. /\ queue'[k] = Tail(queue[c])
          /\ sent'[k] = sent[c] /\ ran'[k] = ran[c] + 1
      BY <1>1, <1>2, <1>7, <2>2
    <3>2. Len(queue'[k]) = sent'[k] - ran'[k]
      <4>1. Len(Tail(queue[c])) = Len(queue[c]) - 1
        BY <1>8
      <4>2. Len(queue[c]) = sent[c] - ran[c]
        BY <1>4
      <4>3. sent[c] - ran[c] - 1 = sent[c] - (ran[c] + 1)
        BY <1>3
      <4> QED BY <3>1, <4>1, <4>2, <4>3
    <3>3. ASSUME NEW i \in 1..Len(Tail(queue[c]))
          PROVE  queue'[k][i] = ran'[k] + i
      <4>1. i \in Nat /\ i + 1 \in 1..Len(queue[c])
        BY <1>5, <1>8, <3>3
      <4>2. queue[c][i + 1] = ran[c] + (i + 1)
        BY <1>4, <4>1
      <4>3. queue'[k][i] = ran[c] + (i + 1)
        BY <1>8, <3>1, <3>3, <4>2
      <4> QED BY <1>3, <3>1, <4>1, <4>3
    <3> QED BY <3>1, <3>2, <3>3
  <2> QED BY <2>1, <2>2
<1>12. InOrder'
  BY <1>11 DEF InOrder
<1> QED BY <1>6, <1>7, <1>10, <1>12

(* The other steps leave the queues alone.                                 *)
LEMMA OtherInv ==
  ASSUME LoopInv,
         \/ \E t \in Threads : Notify(t)
         \/ Wake \/ EventDone \/ Drained \/ DestroyStage \/ DestroyNotify
         \/ UNCHANGED loopVars
  PROVE  LoopInv' /\ UNCHANGED <<queue, sent, ran>>
<1>1. UNCHANGED <<queue, sent, ran>>
  BY DEF Notify, Wake, EventDone, Drained, DestroyStage, DestroyNotify, loopVars
<1>2. InOrder'
  BY <1>1 DEF LoopInv, InOrder
<1>3. LoopTypeOK'
  <2> USE DEF LoopInv, LoopTypeOK
  <2>1. ASSUME NEW t \in Threads, Notify(t) PROVE LoopTypeOK'
    BY <2>1 DEF Notify
  <2>2. CASE Wake
    BY <2>2 DEF Wake, DrainOrder
  <2>3. CASE EventDone
    BY <2>3 DEF EventDone
  <2>4. CASE Drained
    BY <2>4, ChannelParts DEF Drained, Top
  <2>5. CASE DestroyStage
    BY <2>5 DEF DestroyStage
  <2>6. CASE DestroyNotify
    <3>1. count' \in Nat
      BY <2>6 DEF DestroyNotify
    <3>2. closing' = FALSE /\ UNCHANGED <<queue, sent, ran, notifying, pc, at, destroyed>>
      BY <2>6 DEF DestroyNotify
    <3> QED BY <3>1, <3>2
  <2>7. CASE UNCHANGED loopVars
    BY <2>7 DEF loopVars
  <2> QED BY <2>1, <2>2, <2>3, <2>4, <2>5, <2>6, <2>7
<1> QED BY <1>1, <1>2, <1>3 DEF LoopInv

(* LoopInv is inductive.                                                   *)
LEMMA LoopInvInit ==
  ASSUME LoopInit
  PROVE  LoopInv
<1>1. ASSUME NEW c \in Channels
      PROVE  queue[c] = <<>> /\ sent[c] = 0 /\ ran[c] = 0
  BY DEF LoopInit
<1>2. InOrder
  BY <1>1 DEF InOrder
<1>3. queue \in [Channels -> Seq(Nat)] /\ at \in 1..Len(DrainOrder)
  BY ChannelParts DEF LoopInit
<1>4. LoopTypeOK
  BY <1>3 DEF LoopInit, LoopTypeOK
<1> QED BY <1>2, <1>4 DEF LoopInv

LEMMA LoopInvStep ==
  ASSUME LoopInv, [LoopNext]_loopVars
  PROVE  LoopInv'
BY DeferInv, RunEventInv, OtherInv DEF LoopNext

(* The state of the loop always has its type (ZstStage.cpp event_loop).    *)
THEOREM LoopTypeCorrect == LoopSpec => []LoopTypeOK
<1>1. LoopInit => LoopInv
  BY LoopInvInit
<1>2. LoopInv /\ [LoopNext]_loopVars => LoopInv'
  BY LoopInvStep
<1>3. LoopInv => LoopTypeOK
  BY DEF LoopInv
<1> QED BY <1>1, <1>2, <1>3, PTL DEF LoopSpec

(* No step, of the loop, of a deferring thread or of destroy(), leaves an  *)
(* event behind with nothing to wake the loop for it.                      *)
LEMMA WakeupStep ==
  ASSUME LoopInv, WakeupNotMissed, [LoopNext]_loopVars
  PROVE  WakeupNotMissed'
<1> DEFINE Coming == count > 0 \/ \E t \in Threads : notifying[t] # {}
<1>0. /\ count \in Nat /\ at \in 1..6 /\ notifying \in [Threads -> SUBSET Dispatchers]
      /\ pc \in {"wait", "drain", "run", "ended"}
      /\ queue \in [Channels -> Seq(Nat)]
  BY ChannelParts DEF LoopInv, LoopTypeOK
<1>1. ASSUME NEW c \in Channels, Defer(c) PROVE WakeupNotMissed'
  <2>1. c[1] \in Threads /\ notifying'[c[1]] = {c[2]}
    BY <1>0, <1>1, ChannelParts DEF Defer
  <2> QED BY <2>1 DEF WakeupNotMissed
<1>2. ASSUME NEW c \in Channels, RunEvent(c) PROVE WakeupNotMissed'
  <2>1. /\ pc = "drain" /\ pc' = "run" /\ UNCHANGED <<notifying, count, at>>
        /\ queue' = [queue EXCEPT ![c] = Tail(@)] /\ queue[c] # <<>>
    BY <1>2 DEF RunEvent
  <2>2. ASSUME NEW k \in Channels, queue'[k] # <<>>
        PROVE  Ahead(k[2])' \/ Coming'
    <3>1. queue[k] # <<>>
      BY <1>0, <2>1, <2>2
    <3>2. Ahead(k[2]) \/ Coming \/ pc = "ended"
      BY <3>1 DEF WakeupNotMissed
    <3> QED BY <2>1, <3>2 DEF Ahead
  <2> QED BY <2>2 DEF WakeupNotMissed
<1>3. ASSUME NEW t \in Threads, Notify(t) PROVE WakeupNotMissed'
  <2>1. notifying[t] \subseteq Woken
    BY <1>0, ChannelParts
  <2>2. count' > 0
    BY <1>0, <1>3, <2>1 DEF Notify
  <2> QED BY <2>2 DEF WakeupNotMissed
<1>4. CASE Wake
  <2>1. pc' = "ended" \/ (pc' = "drain" /\ at' = 1)
    BY <1>4 DEF Wake
  <2>2. ASSUME NEW k \in Channels, pc' = "drain", at' = 1
        PROVE  Ahead(k[2])'
    <3>1. \E i \in 1..6 : DrainOrder[i] = k[2]
      <4>1. k[2] \in Woken
        BY ChannelParts
      <4>2. /\ DrainOrder[1] = "hierarchy" /\ DrainOrder[2] = "entity"
            /\ DrainOrder[3] = "session" /\ DrainOrder[4] = "cable"
        BY DEF DrainOrder
      <4> QED BY <4>1, <4>2 DEF Woken
    <3> QED BY <2>2, <3>1, ChannelParts DEF Ahead
  <2> QED BY <2>1, <2>2 DEF WakeupNotMissed
<1>5. CASE EventDone
  BY <1>5 DEF EventDone, WakeupNotMissed, Ahead
<1>6. CASE Drained
  <2>1. /\ pc = "drain" /\ UNCHANGED <<queue, notifying, count>>
        /\ \A k \in Channels : k[2] = DrainOrder[at] => queue[k] = <<>>
        /\ \/ at < 6 /\ at' = at + 1 /\ pc' = pc
           \/ at = 6 /\ at' = at /\ pc' \in {"wait", "ended"}
    BY <1>0, <1>6, ChannelParts DEF Drained, Top
  <2>2. ASSUME NEW k \in Channels, queue'[k] # <<>>
        PROVE  Ahead(k[2])' \/ Coming'
    <3>1. queue[k] # <<>> /\ k[2] # DrainOrder[at]
      BY <2>1, <2>2
    <3>2. Ahead(k[2]) \/ Coming
      BY <2>1, <3>1 DEF WakeupNotMissed
    <3>3. CASE Coming
      BY <2>1, <3>3
    <3>4. CASE Ahead(k[2])
      <4>1. PICK i \in at..6 : DrainOrder[i] = k[2]
        BY <3>4, ChannelParts DEF Ahead
      <4>2. i # at
        BY <3>1, <4>1
      <4>3. at < 6 /\ i \in (at + 1)..6
        BY <1>0, <4>1, <4>2
      <4>4. at' = at + 1 /\ pc' = "drain"
        BY <1>0, <2>1, <4>3
      <4> QED BY <4>1, <4>3, <4>4, ChannelParts DEF Ahead
    <3> QED BY <3>2, <3>3, <3>4
  <2> QED BY <2>2 DEF WakeupNotMissed
<1>7. CASE DestroyStage
  BY <1>7 DEF DestroyStage, WakeupNotMissed, Ahead
<1>8. CASE DestroyNotify
  <2>1. count' > 0
    BY <1>0, <1>8 DEF DestroyNotify
  <2> QED BY <2>1 DEF WakeupNotMissed
<1>9. CASE UNCHANGED loopVars
  BY <1>9 DEF loopVars, WakeupNotMissed, Ahead
<1> QED BY <1>1, <1>2, <1>3, <1>4, <1>5, <1>6, <1>7, <1>8, <1>9 DEF LoopNext

(* An event that is in a queue is never left without a drain that will     *)
(* find it: the notification cannot be lost between the loop's drain and   *)
(* its wait on the semaphore.                                              *)
THEOREM NoWakeupMissed == LoopSpec => []WakeupNotMissed
<1>1. LoopInit => LoopInv /\ WakeupNotMissed
  <2>1. ASSUME LoopInit, NEW c \in Channels PROVE queue[c] = <<>>
    BY <2>1 DEF LoopInit
  <2> QED BY <2>1, LoopInvInit DEF WakeupNotMissed
<1>2. LoopInv /\ WakeupNotMissed /\ [LoopNext]_loopVars => (LoopInv /\ WakeupNotMissed)'
  BY LoopInvStep, WakeupStep
<1> QED BY <1>1, <1>2, PTL DEF LoopSpec

(* Every step of the event loop is a step of WorkQueue or leaves it alone: *)
(* on each channel the events are run in the order they were deferred in,  *)
(* and none is run twice (ZstEventDispatcher::defer, process_events).      *)
THEOREM LoopImplementsQueue == LoopSpec => Queue!WQSafe
<1>1. LoopInit => LoopInv /\ Queue!WQInit
  BY LoopInvInit DEF LoopInit, Queue!WQInit
<1>2. LoopInv /\ [LoopNext]_loopVars => LoopInv'
  BY LoopInvStep
<1>3. LoopInv /\ [LoopNext]_loopVars => [Queue!WQNext]_(Queue!wqVars)
  <2> SUFFICES ASSUME LoopInv, [LoopNext]_loopVars
               PROVE  [Queue!WQNext]_(Queue!wqVars)
    OBVIOUS
  <2> USE DEF Queue!WQNext, Queue!wqVars
  <2>1. ASSUME NEW c \in Channels, Defer(c) PROVE Queue!WQSend(c)
    BY <2>1 DEF Defer, Queue!WQSend
  <2>2. ASSUME NEW c \in Channels, RunEvent(c) PROVE Queue!WQRun(c)
    BY <2>2, RunEventInv DEF RunEvent, Queue!WQRun
  <2>3. CASE DestroyStage
    BY <2>3 DEF DestroyStage, Queue!WQClose
  <2>4. ASSUME \/ \E t \in Threads : Notify(t)
               \/ Wake \/ EventDone \/ Drained \/ DestroyNotify \/ UNCHANGED loopVars
        PROVE  UNCHANGED <<sent, ran, destroyed>>
    BY <2>4 DEF Notify, Wake, EventDone, Drained, DestroyNotify, loopVars
  <2> QED BY <2>1, <2>2, <2>3, <2>4 DEF LoopNext
<1> QED BY <1>1, <1>2, <1>3, PTL DEF LoopSpec, Queue!WQSafe

-----------------------------------------------------------------------------
(* The library's sockets.                                                  *)

Places == Transports \cup {"lib"}
Deeds ==
  {"ref", "open", "try", "iface", "loop", "stop", "close", "spawn", "interrupt", "join", "drain",
   "timer", "restart", "stopio", "jointimer", "joinpool", "leave", "ending", "destroyed", "complete"}
OnHandles == {"ref", "open", "try", "loop", "stop", "close"}
Steps ==
  {s \in [at : Places, do : Deeds, on : Handles \cup Places] : s.do \in OnHandles => s.on \in Handles}
Ops == {o \in Deeds \X (Handles \cup Places) : o[1] \in OnHandles => o[2] \in Handles}

(* Sequence r is q without its first n steps.                              *)
Rest(q, n, r) ==
  /\ r \in Seq(Steps) /\ Len(r) = Len(q) - n
  /\ \A i \in 1..(Len(q) - n) : r[i] = q[i + n]

(* After step i handle h is going to be counted, and no step of the same   *)
(* transport can return before.                                            *)
Due(q, i, h) ==
  \E j \in (i + 1)..Len(q) :
    /\ q[j].do = "ref" /\ q[j].on = h
    /\ \A k \in (i + 1)..j : q[k].do \in {"try", "iface"} => q[k].at # q[j].at

(* Sockets are counted once they are open.                                 *)
Opened(q) == \A i \in 1..Len(q) : q[i].do \in {"open", "try"} => Due(q, i, q[i].on)

(* Actors are counted before their loop starts, and if their transport     *)
(* returns in between the loop does not start.                             *)
Before(q, i, C) ==
  \/ q[i].on \in C
  \/ \E j \in 1..(i - 1) :
       q[j].do = "ref" /\ q[j].on = q[i].on /\ \A k \in j..i : q[k].at = q[i].at
Looped(q, C) == \A i \in 1..Len(q) : q[i].do = "loop" => Before(q, i, C)

(* A script either counts or closes.                                       *)
Apart(q) ==
  \A i, j \in 1..Len(q) : ~(q[i].do \in {"stop", "close"} /\ q[j].do \in {"ref", "loop"})

(* Handles C have been counted, and what is open is among them or will be. *)
Counted(C) ==
  /\ IsFiniteSet(C) /\ Cardinality(C) <= refs
  /\ Looped(todo, C)
  /\ \A h \in open : h \in C \/ Due(todo, 0, h)

LibraryInv ==
  /\ todo \in Seq(Steps) /\ refs \in Nat
  /\ Opened(todo) /\ Apart(todo)
  /\ \E C : Counted(C)

-----------------------------------------------------------------------------
(* Scripts.                                                                *)

(* What an init is made of: it closes nothing.                             *)
Whole(q) ==
  /\ q \in Seq(Steps) /\ Opened(q) /\ Looped(q, {})
  /\ \A i \in 1..Len(q) : q[i].do \notin {"stop", "close"}

(* What a destroy is made of: it opens and counts nothing.                 *)
Undoing(q) ==
  /\ q \in Seq(Steps)
  /\ \A i \in 1..Len(q) : q[i].do \notin {"ref", "loop", "open", "try"}

\* The steps of a script, one by one.
LEMMA ScriptIs ==
  ASSUME NEW t \in Places, NEW ops \in Seq(Ops)
  PROVE  /\ Script(t, ops) \in Seq(Steps) /\ Len(Script(t, ops)) = Len(ops)
         /\ \A i \in 1..Len(ops) : /\ Script(t, ops)[i].at = t
                                   /\ Script(t, ops)[i].do = ops[i][1]
                                   /\ Script(t, ops)[i].on = ops[i][2]
<1>0. PICK q : q = Script(t, ops)
  OBVIOUS
<1>1. Len(ops) \in Nat /\ \A i \in 1..Len(ops) : ops[i] \in Ops
  BY LenProperties, ElementOfSeq
<1>2. q = [i \in 1..Len(ops) |-> [at |-> t, do |-> ops[i][1], on |-> ops[i][2]]]
  BY <1>0 DEF Script
<1>3. \A i \in 1..Len(ops) : [at |-> t, do |-> ops[i][1], on |-> ops[i][2]] \in Steps
  BY <1>1 DEF Steps, Ops, OnHandles
<1>4. q \in [1..Len(ops) -> Steps]
  BY <1>2, <1>3
<1>5. q \in Seq(Steps) /\ Len(q) = Len(ops)
  BY <1>1, <1>4, SeqDef
<1>6. \A i \in 1..Len(ops) : q[i].at = t /\ q[i].do = ops[i][1] /\ q[i].on = ops[i][2]
  BY <1>2
<1> QED
  BY <1>0, <1>5, <1>6

(* The same, of the steps of one transport.                                *)
WholeOps(ops) ==
  /\ \A i \in 1..Len(ops) : ops[i][1] \in {"open", "try"} =>
       \E j \in (i + 1)..Len(ops) :
         /\ ops[j] = <<"ref", ops[i][2]>>
         /\ \A k \in (i + 1)..j : ops[k][1] \notin {"try", "iface"}
  /\ \A i \in 1..Len(ops) : ops[i][1] = "loop" =>
       \E j \in 1..(i - 1) : ops[j] = <<"ref", ops[i][2]>>
  /\ \A i \in 1..Len(ops) : ops[i][1] \notin {"stop", "close"}

\* The steps of one transport make a whole script.
LEMMA ScriptWhole ==
  ASSUME NEW t \in Places, NEW ops \in Seq(Ops), WholeOps(ops)
  PROVE  Whole(Script(t, ops))
<1>1. PICK q : q = Script(t, ops)
  OBVIOUS
<1>2. /\ q \in Seq(Steps) /\ Len(q) = Len(ops) /\ Len(ops) \in Nat
      /\ \A i \in 1..Len(ops) : q[i].at = t /\ q[i].do = ops[i][1] /\ q[i].on = ops[i][2]
  BY <1>1, ScriptIs, LenProperties
<1>3. Opened(q)
  <2> SUFFICES ASSUME NEW i \in 1..Len(q), q[i].do \in {"open", "try"} PROVE Due(q, i, q[i].on)
    BY DEF Opened
  <2>1. PICK j \in (i + 1)..Len(ops) :
          /\ ops[j] = <<"ref", ops[i][2]>>
          /\ \A k \in (i + 1)..j : ops[k][1] \notin {"try", "iface"}
    BY <1>2 DEF WholeOps
  <2>2. /\ j \in 1..Len(ops) /\ i \in 1..Len(ops) /\ j \in (i + 1)..Len(q)
        /\ \A k \in (i + 1)..j : k \in 1..Len(ops)
    BY <1>2
  <2>3. ops[j][1] = "ref" /\ ops[j][2] = ops[i][2]
    BY <2>1
  <2>4. q[j].do = "ref" /\ q[j].on = q[i].on
    BY <1>2, <2>2, <2>3
  <2>5. \A k \in (i + 1)..j : q[k].do \notin {"try", "iface"}
    BY <1>2, <2>1, <2>2
  <2> QED
    BY <2>2, <2>4, <2>5 DEF Due
<1>4. Looped(q, {})
  <2> SUFFICES ASSUME NEW i \in 1..Len(q), q[i].do = "loop" PROVE Before(q, i, {})
    BY DEF Looped
  <2>1. PICK j \in 1..(i - 1) : ops[j] = <<"ref", ops[i][2]>>
    BY <1>2 DEF WholeOps
  <2>2. j \in 1..Len(ops) /\ i \in 1..Len(ops) /\ \A k \in j..i : k \in 1..Len(ops)
    BY <1>2
  <2>3. ops[j][1] = "ref" /\ ops[j][2] = ops[i][2]
    BY <2>1
  <2>4. q[j].do = "ref" /\ q[j].on = q[i].on
    BY <1>2, <2>2, <2>3
  <2>5. \A k \in j..i : q[k].at = q[i].at
    BY <1>2, <2>2
  <2> QED
    BY <2>4, <2>5 DEF Before
<1> QED
  BY <1>1, <1>2, <1>3, <1>4 DEF Whole, WholeOps

\* Whole scripts one after the other are whole.
LEMMA WholeConcat ==
  ASSUME NEW q, NEW s, Whole(q), Whole(s)
  PROVE  Whole(q \o s)
<1>1. q \in Seq(Steps) /\ s \in Seq(Steps)
  BY DEF Whole
<1>2. PICK r : r = q \o s
  OBVIOUS
<1>3. PICK n, m : n = Len(q) /\ m = Len(s)
  OBVIOUS
<1>4. /\ r \in Seq(Steps) /\ Len(r) = n + m /\ n \in Nat /\ m \in Nat
      /\ \A i \in 1..n : r[i] = q[i]
      /\ \A i \in 1..m : r[i + n] = s[i]
  <2>1. /\ r \in Seq(Steps) /\ Len(r) = n + m /\ n \in Nat /\ m \in Nat
        /\ \A i \in 1..(n + m) : r[i] = IF i <= n THEN q[i] ELSE s[i - n]
    BY <1>1, <1>2, <1>3, ConcatProperties, LenProperties
  <2>2. \A i \in 1..n : i \in 1..(n + m) /\ i <= n
    BY <2>1
  <2>3. \A i \in 1..m : i + n \in 1..(n + m) /\ ~(i + n <= n) /\ (i + n) - n = i
    BY <2>1
  <2> QED
    BY <2>1, <2>2, <2>3
<1>5. \A i \in 1..(n + m) : i \in 1..n \/ (i - n \in 1..m /\ (i - n) + n = i)
  BY <1>4
<1>6. Opened(r)
  <2> SUFFICES ASSUME NEW i \in 1..(n + m), r[i].do \in {"open", "try"} PROVE Due(r, i, r[i].on)
    BY <1>4 DEF Opened
  <2>1. CASE i \in 1..n
    <3>1. r[i] = q[i] /\ Due(q, i, q[i].on)
      BY <1>3, <1>4, <2>1 DEF Whole, Opened
    <3>2. PICK j \in (i + 1)..n :
            /\ q[j].do = "ref" /\ q[j].on = q[i].on
            /\ \A k \in (i + 1)..j : q[k].do \in {"try", "iface"} => q[k].at # q[j].at
      BY <1>3, <3>1 DEF Due
    <3>3. j \in 1..n /\ j \in (i + 1)..(n + m) /\ \A k \in (i + 1)..j : k \in 1..n
      BY <1>4, <2>1
    <3>4. r[j] = q[j] /\ \A k \in (i + 1)..j : r[k] = q[k]
      BY <1>4, <3>3
    <3> QED
      BY <1>4, <3>1, <3>2, <3>3, <3>4 DEF Due
  <2>2. CASE i - n \in 1..m /\ (i - n) + n = i
    <3>1. PICK a : a = i - n
      OBVIOUS
    <3>2. r[i] = s[a] /\ a \in 1..m /\ a + n = i
      BY <1>4, <2>2, <3>1
    <3>3. Due(s, a, s[a].on)
      BY <1>3, <3>2 DEF Whole, Opened
    <3>4. PICK j \in (a + 1)..m :
            /\ s[j].do = "ref" /\ s[j].on = s[a].on
            /\ \A k \in (a + 1)..j : s[k].do \in {"try", "iface"} => s[k].at # s[j].at
      BY <1>3, <3>3 DEF Due
    <3>5. /\ j \in 1..m /\ j + n \in (i + 1)..(n + m)
          /\ \A k \in (i + 1)..(j + n) : k - n \in (a + 1)..j /\ k - n \in 1..m /\ (k - n) + n = k
      BY <1>4, <3>2
    <3>6. r[j + n] = s[j] /\ \A k \in (i + 1)..(j + n) : r[k] = s[k - n]
      BY <1>4, <3>5
    <3>7. r[j + n].do = "ref" /\ r[j + n].on = r[i].on
      BY <3>2, <3>4, <3>6
    <3>8. \A k \in (i + 1)..(j + n) : r[k].do \in {"try", "iface"} => r[k].at # r[j + n].at
      BY <3>4, <3>5, <3>6
    <3>9. PICK b : b = j + n
      OBVIOUS
    <3> QED
      BY <1>4, <3>5, <3>7, <3>8, <3>9 DEF Due
  <2> QED
    BY <1>5, <2>1, <2>2
<1>7. Looped(r, {})
  <2> SUFFICES ASSUME NEW i \in 1..(n + m), r[i].do = "loop" PROVE Before(r, i, {})
    BY <1>4 DEF Looped
  <2>1. CASE i \in 1..n
    <3>1. r[i] = q[i] /\ Before(q, i, {})
      BY <1>3, <1>4, <2>1 DEF Whole, Looped
    <3>2. PICK j \in 1..(i - 1) :
            q[j].do = "ref" /\ q[j].on = q[i].on /\ \A k \in j..i : q[k].at = q[i].at
      BY <3>1 DEF Before
    <3>3. j \in 1..n /\ \A k \in j..i : k \in 1..n
      BY <1>4, <2>1
    <3>4. r[j] = q[j] /\ \A k \in j..i : r[k] = q[k]
      BY <1>4, <3>3
    <3> QED
      BY <3>1, <3>2, <3>4 DEF Before
  <2>2. CASE i - n \in 1..m /\ (i - n) + n = i
    <3>1. PICK a : a = i - n
      OBVIOUS
    <3>2. r[i] = s[a] /\ a \in 1..m /\ a + n = i
      BY <1>4, <2>2, <3>1
    <3>3. Before(s, a, {})
      BY <1>3, <3>2 DEF Whole, Looped
    <3>4. PICK j \in 1..(a - 1) :
            s[j].do = "ref" /\ s[j].on = s[a].on /\ \A k \in j..a : s[k].at = s[a].at
      BY <3>3 DEF Before
    <3>5. /\ j \in 1..m /\ j + n \in 1..(i - 1)
          /\ \A k \in (j + n)..i : k - n \in j..a /\ k - n \in 1..m /\ (k - n) + n = k
      BY <1>4, <3>2
    <3>6. r[j + n] = s[j] /\ \A k \in (j + n)..i : r[k] = s[k - n]
      BY <1>4, <3>5
    <3> QED
      BY <3>2, <3>4, <3>5, <3>6 DEF Before
  <2> QED
    BY <1>5, <2>1, <2>2
<1>8. ASSUME NEW i \in 1..(n + m) PROVE r[i].do \notin {"stop", "close"}
  <2>1. CASE i \in 1..n
    BY <1>3, <1>4, <2>1 DEF Whole
  <2>2. CASE i - n \in 1..m /\ (i - n) + n = i
    <3>1. r[i] = s[i - n]
      BY <1>4, <2>2
    <3> QED
      BY <1>3, <2>2, <3>1 DEF Whole
  <2> QED
    BY <1>5, <2>1, <2>2
<1> QED
  BY <1>2, <1>4, <1>6, <1>7, <1>8 DEF Whole

\* So are the scripts of a destroy.
LEMMA UndoingConcat ==
  ASSUME NEW q, NEW s, Undoing(q), Undoing(s)
  PROVE  Undoing(q \o s)
<1>1. q \in Seq(Steps) /\ s \in Seq(Steps)
  BY DEF Undoing
<1>2. /\ q \o s \in Seq(Steps) /\ Len(q \o s) = Len(q) + Len(s)
      /\ \A i \in 1..(Len(q) + Len(s)) :
           (q \o s)[i] = IF i <= Len(q) THEN q[i] ELSE s[i - Len(q)]
      /\ Len(q) \in Nat /\ Len(s) \in Nat
  BY <1>1, ConcatProperties, LenProperties
<1>3. \A i \in 1..(Len(q) + Len(s)) :
        /\ i <= Len(q) => i \in 1..Len(q)
        /\ ~(i <= Len(q)) => i - Len(q) \in 1..Len(s)
  BY <1>2
<1> QED
  BY <1>2, <1>3 DEF Undoing

UndoingOps(ops) ==
  /\ ops \in Seq(Ops)
  /\ \A i \in 1..Len(ops) : ops[i][1] \notin {"ref", "loop", "open", "try"}

LEMMA ScriptUndoing ==
  ASSUME NEW t \in Places, NEW ops, UndoingOps(ops)
  PROVE  Undoing(Script(t, ops))
  BY ScriptIs DEF Undoing, UndoingOps

\* The inits: of the transports, of a client, of a stage.
LEMMA ClientTransportWhole == Whole(ClientTransportInit)
<1>1. PICK ops : ops = << <<"spawn", "client">>, <<"ref", "client_actor">>, <<"try", "client_sock">>,
                          <<"loop", "client_actor">>, <<"ref", "client_sock">> >>
  OBVIOUS
<1>2. ops \in Seq(Ops)
  BY <1>1 DEF Ops, OnHandles, Deeds, Places, Transports, Handles
<1>3. WholeOps(ops)
  BY <1>1 DEF WholeOps
<1>4. Whole(Script("client", ops))
  BY <1>2, <1>3, ScriptWhole DEF Places, Transports
<1>5. ClientTransportInit = Script("client", ops)
  BY <1>1 DEF ClientTransportInit, ActorInit
<1> QED
  BY <1>4, <1>5

\* Steps one after the other.
LEMMA ConcatOps ==
  ASSUME NEW x \in Seq(Ops), NEW y \in Seq(Ops)
  PROVE  /\ x \o y \in Seq(Ops) /\ Len(x \o y) = Len(x) + Len(y)
         /\ Len(x) \in Nat /\ Len(y) \in Nat
         /\ \A i \in 1..Len(x) : (x \o y)[i] = x[i]
         /\ \A i \in 1..Len(y) : (x \o y)[Len(x) + i] = y[i]
<1>1. PICK r, n, m : r = x \o y /\ n = Len(x) /\ m = Len(y)
  OBVIOUS
<1>2. /\ r \in Seq(Ops) /\ Len(r) = n + m /\ n \in Nat /\ m \in Nat
      /\ \A i \in 1..(n + m) : r[i] = IF i <= n THEN x[i] ELSE y[i - n]
  BY <1>1, ConcatProperties, LenProperties
<1>3. \A i \in 1..n : i \in 1..(n + m) /\ i <= n
  BY <1>2
<1>4. \A i \in 1..m : n + i \in 1..(n + m) /\ ~(n + i <= n) /\ (n + i) - n = i
  BY <1>2
<1>5. (\A i \in 1..n : r[i] = x[i]) /\ (\A i \in 1..m : r[n + i] = y[i])
  BY <1>2, <1>3, <1>4
<1> QED
  BY <1>1, <1>2, <1>5

LEMMA GraphTransportWhole == Whole(GraphTransportInit)
<1>1. PICK x, y, z, w :
        /\ x = << <<"spawn", "graph">>, <<"ref", "graph">> >>
        /\ y = << <<"open", "graphsocket_in">>, <<"open", "graphsocket_out">> >>
        /\ z = << <<"ref", "graphsocket_in">>, <<"ref", "graphsocket_out">> >>
        /\ w = << <<"loop", "graph">> >>
  OBVIOUS
<1>2. x \in Seq(Ops) /\ y \in Seq(Ops) /\ z \in Seq(Ops) /\ w \in Seq(Ops)
  BY <1>1 DEF Ops, OnHandles, Deeds, Places, Transports, Handles
<1>3. Len(x) = 2 /\ Len(y) = 2 /\ Len(z) = 2 /\ Len(w) = 1
  BY <1>1
<1>4. PICK xy, xyz, ops : xy = x \o y /\ xyz = xy \o z /\ ops = xyz \o w
  OBVIOUS
<1>5. /\ xy \in Seq(Ops) /\ Len(xy) = Len(x) + Len(y)
      /\ \A i \in 1..Len(x) : xy[i] = x[i]
      /\ \A i \in 1..Len(y) : xy[Len(x) + i] = y[i]
  BY <1>2, <1>4, ConcatOps
<1>6. /\ Len(xy) = 4 /\ \A i \in 1..2 : xy[i] = x[i]
      /\ xy[3] = y[1] /\ xy[4] = y[2]
  <2>1. 1 \in 1..2 /\ 2 \in 1..2 /\ 2 + 1 = 3 /\ 2 + 2 = 4
    OBVIOUS
  <2> QED
    BY <1>3, <1>5, <2>1
<1>7. /\ xyz \in Seq(Ops) /\ Len(xyz) = Len(xy) + Len(z)
      /\ \A i \in 1..Len(xy) : xyz[i] = xy[i]
      /\ \A i \in 1..Len(z) : xyz[Len(xy) + i] = z[i]
  BY <1>2, <1>4, <1>5, ConcatOps
<1>8. /\ Len(xyz) = 6 /\ \A i \in 1..4 : xyz[i] = xy[i]
      /\ xyz[5] = z[1] /\ xyz[6] = z[2]
  <2>1. 1 \in 1..2 /\ 2 \in 1..2 /\ 4 + 1 = 5 /\ 4 + 2 = 6
    OBVIOUS
  <2> QED
    BY <1>3, <1>6, <1>7, <2>1
<1>9. /\ ops \in Seq(Ops) /\ Len(ops) = Len(xyz) + Len(w)
      /\ \A i \in 1..Len(xyz) : ops[i] = xyz[i]
      /\ \A i \in 1..Len(w) : ops[Len(xyz) + i] = w[i]
  BY <1>2, <1>4, <1>7, ConcatOps
<1>10. /\ Len(ops) = 7 /\ \A i \in 1..6 : ops[i] = xyz[i]
       /\ ops[7] = w[1]
  <2>1. 1 \in 1..1 /\ 6 + 1 = 7
    OBVIOUS
  <2> QED
    BY <1>3, <1>8, <1>9, <2>1
<1>11. /\ x[1] = <<"spawn", "graph">> /\ x[2] = <<"ref", "graph">>
       /\ y[1] = <<"open", "graphsocket_in">> /\ y[2] = <<"open", "graphsocket_out">>
       /\ z[1] = <<"ref", "graphsocket_in">> /\ z[2] = <<"ref", "graphsocket_out">>
       /\ w[1] = <<"loop", "graph">>
  BY <1>1
<1>12. /\ ops[1] = <<"spawn", "graph">> /\ ops[2] = <<"ref", "graph">>
       /\ ops[3] = <<"open", "graphsocket_in">> /\ ops[4] = <<"open", "graphsocket_out">>
       /\ ops[5] = <<"ref", "graphsocket_in">> /\ ops[6] = <<"ref", "graphsocket_out">>
       /\ ops[7] = <<"loop", "graph">>
  <2>1. /\ 1 \in 1..6 /\ 2 \in 1..6 /\ 3 \in 1..6 /\ 4 \in 1..6 /\ 5 \in 1..6 /\ 6 \in 1..6
        /\ 1 \in 1..4 /\ 2 \in 1..4 /\ 3 \in 1..4 /\ 4 \in 1..4 /\ 1 \in 1..2 /\ 2 \in 1..2
    OBVIOUS
  <2> QED
    BY <1>6, <1>8, <1>10, <1>11, <2>1
<1>13. WholeOps(ops)
  BY <1>10, <1>12 DEF WholeOps
<1>14. Whole(Script("graph", ops))
  BY <1>9, <1>13, ScriptWhole DEF Places, Transports
<1>15. x = << <<"spawn", "graph">>, ActorInit("graph") >> /\ y = InitGraphSockets
       /\ z = AttachGraphSockets
  BY <1>1 DEF ActorInit, InitGraphSockets, AttachGraphSockets
<1>16. GraphTransportInit = Script("graph", x \o y \o z \o w)
  BY <1>1, <1>15, Zenon DEF GraphTransportInit
<1> QED
  BY <1>4, <1>14, <1>16

LEMMA DiscoveryWhole ==
  ASSUME NEW t \in Places, NEW a \in Handles, NEW b \in Handles
  PROVE  Whole(DiscoveryInit(t, a, b))
<1>1. PICK ops : ops = << <<"spawn", t>>, <<"iface", t>>, <<"ref", a>>, <<"try", b>>,
                          <<"ref", b>>, <<"loop", a>> >>
  OBVIOUS
<1>2. ops \in Seq(Ops)
  BY <1>1 DEF Ops, OnHandles, Deeds
<1>3. WholeOps(ops)
  <2>1. /\ Len(ops) = 6 /\ ops[1][1] = "spawn" /\ ops[2][1] = "iface" /\ ops[3] = <<"ref", a>>
        /\ ops[4][1] = "try" /\ ops[4][2] = b /\ ops[5] = <<"ref", b>>
        /\ ops[6][1] = "loop" /\ ops[6][2] = a
    BY <1>1
  <2>2. ops[3][1] = "ref" /\ ops[5][1] = "ref"
    BY <2>1
  <2> QED
    BY <2>1, <2>2 DEF WholeOps
<1>4. Whole(Script(t, ops))
  BY <1>2, <1>3, ScriptWhole
<1>5. DiscoveryInit(t, a, b) = Script(t, ops)
  BY <1>1 DEF DiscoveryInit, ActorInit
<1> QED
  BY <1>4, <1>5

LEMMA ServerTransportWhole == Whole(ServerTransportInit)
<1>1. PICK ops : ops = << <<"spawn", "router">>, <<"open", "server_sock">>, <<"ref", "stage_router">>,
                          <<"loop", "stage_router">>, <<"ref", "server_sock">> >>
  OBVIOUS
<1>2. ops \in Seq(Ops)
  BY <1>1 DEF Ops, OnHandles, Deeds, Places, Transports, Handles
<1>3. WholeOps(ops)
  BY <1>1 DEF WholeOps
<1>4. Whole(Script("router", ops))
  BY <1>2, <1>3, ScriptWhole DEF Places, Transports
<1>5. ServerTransportInit = Script("router", ops)
  BY <1>1 DEF ServerTransportInit, ActorInit
<1> QED
  BY <1>4, <1>5

LEMMA InitClientWhole == Whole(InitClientScript)
<1>1. PICK first, last :
        /\ first = << <<"timer", "lib">>, <<"restart", "lib">> >>
        /\ last = << <<"complete", "lib">> >>
  OBVIOUS
<1>2. first \in Seq(Ops) /\ last \in Seq(Ops)
  BY <1>1 DEF Ops, OnHandles, Deeds, Places
<1>3. WholeOps(first) /\ WholeOps(last)
  BY <1>1 DEF WholeOps
<1>4. Whole(Script("lib", first)) /\ Whole(Script("lib", last))
  BY <1>2, <1>3, ScriptWhole DEF Places
<1>5. Whole(DiscoveryInit("discovery", "beacon_actor", "beacon"))
  BY DiscoveryWhole DEF Places, Transports, Handles
<1>6. InitClientScript = Script("lib", first) \o ClientTransportInit \o GraphTransportInit
                         \o DiscoveryInit("discovery", "beacon_actor", "beacon") \o Script("lib", last)
  BY <1>1 DEF InitClientScript
<1> QED
  BY <1>4, <1>5, <1>6, ClientTransportWhole, GraphTransportWhole, WholeConcat

LEMMA StageInitWhole == Whole(StageInitScript)
<1>1. Whole(DiscoveryInit("beacons", "stage_actor", "stage_beacon"))
  BY DiscoveryWhole DEF Places, Transports, Handles
<1> QED
  BY <1>1, ServerTransportWhole, WholeConcat DEF StageInitScript

\* The destroys: of the transports, of a client, of a stage.
LEMMA UndoingOpsConcat ==
  ASSUME NEW x, NEW y, UndoingOps(x), UndoingOps(y)
  PROVE  UndoingOps(x \o y)
<1>1. PICK r, n, m : r = x \o y /\ n = Len(x) /\ m = Len(y)
  OBVIOUS
<1>2. /\ r \in Seq(Ops) /\ Len(r) = n + m /\ n \in Nat /\ m \in Nat
      /\ \A i \in 1..n : r[i] = x[i]
      /\ \A i \in 1..m : r[n + i] = y[i]
  BY <1>1, ConcatOps DEF UndoingOps
<1>3. \A i \in 1..(n + m) : i \in 1..n \/ (i - n \in 1..m /\ n + (i - n) = i)
  BY <1>2
<1>4. ASSUME NEW i \in 1..(n + m) PROVE r[i][1] \notin {"ref", "loop", "open", "try"}
  <2>1. CASE i \in 1..n
    BY <1>1, <1>2, <2>1 DEF UndoingOps
  <2>2. CASE i - n \in 1..m /\ n + (i - n) = i
    <3>1. r[i] = y[i - n]
      BY <1>2, <2>2
    <3> QED
      BY <1>1, <2>2, <3>1 DEF UndoingOps
  <2> QED
    BY <1>3, <2>1, <2>2
<1> QED
  BY <1>1, <1>2, <1>4 DEF UndoingOps

LEMMA ClientTransportUndoing == Undoing(ClientTransportDestroy)
<1>1. PICK ops : ops = << <<"stop", "client_actor">>, <<"close", "client_sock">>,
                          <<"interrupt", "client">>, <<"join", "client">>, <<"drain", "client">> >>
  OBVIOUS
<1>2. UndoingOps(ops)
  BY <1>1 DEF UndoingOps, Ops, OnHandles, Deeds, Places, Transports, Handles
<1>3. Undoing(Script("client", ops))
  BY <1>2, ScriptUndoing DEF Places, Transports
<1>4. ClientTransportDestroy = Script("client", ops)
  BY <1>1 DEF ClientTransportDestroy
<1> QED
  BY <1>3, <1>4

LEMMA GraphTransportUndoing == Undoing(GraphTransportDestroy)
<1>1. PICK x, y, z :
        /\ x = << <<"stop", "graph">> >> /\ y = DestroyGraphSockets
        /\ z = << <<"interrupt", "graph">>, <<"join", "graph">> >>
  OBVIOUS
<1>2. UndoingOps(x)
  BY <1>1 DEF UndoingOps, Ops, OnHandles, Deeds, Places, Transports, Handles
<1>3. UndoingOps(y)
  BY <1>1 DEF UndoingOps, Ops, OnHandles, Deeds, Places, Transports, Handles, DestroyGraphSockets
<1>4. UndoingOps(z)
  BY <1>1 DEF UndoingOps, Ops, OnHandles, Deeds, Places, Transports, Handles
<1>5. UndoingOps(x \o y \o z)
  BY <1>2, <1>3, <1>4, UndoingOpsConcat
<1>6. Undoing(Script("graph", x \o y \o z))
  BY <1>5, ScriptUndoing DEF Places, Transports
<1>7. GraphTransportDestroy = Script("graph", x \o y \o z)
  BY <1>1, Zenon DEF GraphTransportDestroy
<1> QED
  BY <1>6, <1>7

LEMMA DiscoveryUndoing ==
  ASSUME NEW t \in Places, NEW a \in Handles, NEW b \in Handles
  PROVE  Undoing(DiscoveryDestroy(t, a, b))
<1>1. PICK ops : ops = << <<"stop", a>>, <<"close", b>>, <<"interrupt", t>>, <<"join", t>> >>
  OBVIOUS
<1>2. UndoingOps(ops)
  BY <1>1 DEF UndoingOps, Ops, OnHandles, Deeds
<1>3. Undoing(Script(t, ops))
  BY <1>2, ScriptUndoing
<1>4. DiscoveryDestroy(t, a, b) = Script(t, ops)
  BY <1>1 DEF DiscoveryDestroy
<1> QED
  BY <1>3, <1>4

LEMMA ServerTransportUndoing == Undoing(ServerTransportDestroy)
<1>1. PICK ops : ops = << <<"stop", "stage_router">>, <<"close", "server_sock">>,
                          <<"interrupt", "router">>, <<"join", "router">> >>
  OBVIOUS
<1>2. UndoingOps(ops)
  BY <1>1 DEF UndoingOps, Ops, OnHandles, Deeds, Places, Transports, Handles
<1>3. Undoing(Script("router", ops))
  BY <1>2, ScriptUndoing DEF Places, Transports
<1>4. ServerTransportDestroy = Script("router", ops)
  BY <1>1 DEF ServerTransportDestroy
<1> QED
  BY <1>3, <1>4

LEMMA DestroyUndoing == Undoing(DestroyScript)
<1>1. PICK first, last :
        /\ first = << <<"leave", "lib">>, <<"ending", "lib">>, <<"stopio", "lib">>, <<"jointimer", "lib">> >>
        /\ last = << <<"joinpool", "lib">>, <<"destroyed", "lib">> >>
  OBVIOUS
<1>2. UndoingOps(first) /\ UndoingOps(last)
  BY <1>1 DEF UndoingOps, Ops, OnHandles, Deeds, Places
<1>3. Undoing(Script("lib", first)) /\ Undoing(Script("lib", last))
  BY <1>2, ScriptUndoing DEF Places
<1>4. Undoing(DiscoveryDestroy("discovery", "beacon_actor", "beacon"))
  BY DiscoveryUndoing DEF Places, Transports, Handles
<1>5. DestroyScript = Script("lib", first) \o DiscoveryDestroy("discovery", "beacon_actor", "beacon")
                      \o ClientTransportDestroy \o GraphTransportDestroy \o Script("lib", last)
  BY <1>1 DEF DestroyScript
<1> QED
  BY <1>3, <1>4, <1>5, ClientTransportUndoing, GraphTransportUndoing, UndoingConcat

LEMMA StageDestroyUndoing == Undoing(StageDestroyScript)
<1>1. Undoing(DiscoveryDestroy("beacons", "stage_actor", "stage_beacon"))
  BY DiscoveryUndoing DEF Places, Transports, Handles
<1> QED
  BY <1>1, ServerTransportUndoing, UndoingConcat DEF StageDestroyScript

-----------------------------------------------------------------------------
(* What is left of a script keeps its promises.                            *)

(* The counts among the first n steps have been made, or were skipped by a *)
(* return of the transport they belong to.                                 *)
Skips(q, n, D) ==
  \A j \in 1..n : q[j].do = "ref" =>
    \/ q[j].on \in D
    \/ /\ q[1].do \in {"try", "iface"} /\ q[j].at = q[1].at
       /\ n < Len(q) => q[n + 1].at # q[1].at

\* The positions of what is left.
LEMMA RestIndex ==
  ASSUME NEW q \in Seq(Steps), NEW n \in 0..Len(q), NEW r, Rest(q, n, r)
  PROVE  /\ n \in Nat /\ Len(q) \in Nat /\ Len(r) \in Nat /\ Len(r) = Len(q) - n
         /\ \A i \in 1..Len(r) : i + n \in 1..Len(q) /\ r[i] = q[i + n]
         /\ \A i \in (n + 1)..Len(q) : i - n \in 1..Len(r) /\ r[i - n] = q[i]
<1>1. n \in Nat /\ Len(q) \in Nat /\ Len(r) \in Nat /\ Len(r) = Len(q) - n
  BY LenProperties DEF Rest
<1>2. \A i \in 1..Len(r) : i + n \in 1..Len(q) /\ r[i] = q[i + n]
  BY <1>1 DEF Rest
<1>3. \A i \in (n + 1)..Len(q) : i - n \in 1..Len(r) /\ (i - n) + n = i
  BY <1>1
<1> QED
  BY <1>1, <1>2, <1>3

\* A handle that was going to be counted still is.
LEMMA RestDue ==
  ASSUME NEW q \in Seq(Steps), NEW n \in 0..Len(q), NEW r, Rest(q, n, r),
         NEW i \in Nat, NEW h, Due(q, i + n, h)
  PROVE  Due(r, i, h)
<1>1. /\ n \in Nat /\ Len(q) \in Nat /\ Len(r) \in Nat /\ Len(r) = Len(q) - n
      /\ \A k \in (n + 1)..Len(q) : k - n \in 1..Len(r) /\ r[k - n] = q[k]
  <2>1. /\ n \in Nat /\ Len(q) \in Nat /\ Len(r) \in Nat /\ Len(r) = Len(q) - n
        /\ \A k \in 1..Len(r) : k + n \in 1..Len(q) /\ r[k] = q[k + n]
        /\ \A k \in (n + 1)..Len(q) : k - n \in 1..Len(r) /\ r[k - n] = q[k]
    BY RestIndex
  <2> QED
    BY <2>1
<1>2. PICK j \in (i + n + 1)..Len(q) :
        /\ q[j].do = "ref" /\ q[j].on = h
        /\ \A k \in (i + n + 1)..j : q[k].do \in {"try", "iface"} => q[k].at # q[j].at
  BY DEF Due
<1>3. PICK b : b = j - n
  OBVIOUS
<1>4. b \in (i + 1)..Len(r) /\ r[b] = q[j]
  <2>1. j \in (n + 1)..Len(q) /\ b \in (i + 1)..Len(r)
    BY <1>1, <1>2, <1>3
  <2> QED
    BY <1>1, <1>3, <2>1
<1>5. ASSUME NEW k \in (i + 1)..b PROVE k + n \in (i + n + 1)..j /\ r[k] = q[k + n]
  <2>1. k + n \in (i + n + 1)..j /\ k + n \in (n + 1)..Len(q) /\ (k + n) - n = k
    BY <1>1, <1>2, <1>3, <1>4
  <2> QED
    BY <1>1, <2>1
<1>6. \A k \in (i + 1)..b : r[k].do \in {"try", "iface"} => r[k].at # r[b].at
  BY <1>2, <1>4, <1>5
<1> QED
  BY <1>2, <1>4, <1>6 DEF Due

\* Nothing that is left relies on a step that was skipped.
LEMMA RestKeeps ==
  ASSUME NEW q \in Seq(Steps), NEW n \in 0..Len(q), NEW r, Rest(q, n, r),
         NEW C, NEW D, C \subseteq D, Skips(q, n, D),
         Opened(q), Apart(q), Looped(q, C)
  PROVE  /\ Opened(r) /\ Apart(r) /\ Looped(r, D)
         /\ \A h : Due(q, 0, h) => h \in D \/ Due(r, 0, h)
<1>1. /\ n \in Nat /\ Len(q) \in Nat /\ Len(r) \in Nat /\ Len(r) = Len(q) - n
      /\ \A i \in 1..Len(r) : i + n \in 1..Len(q) /\ r[i] = q[i + n]
      /\ \A i \in (n + 1)..Len(q) : i - n \in 1..Len(r) /\ r[i - n] = q[i]
  BY RestIndex
<1>2. Opened(r)
  <2> SUFFICES ASSUME NEW i \in 1..Len(r), r[i].do \in {"open", "try"} PROVE Due(r, i, r[i].on)
    BY DEF Opened
  <2>1. i \in Nat /\ Due(q, i + n, r[i].on)
    BY <1>1 DEF Opened
  <2> QED
    BY <2>1, RestDue
<1>3. Apart(r)
  BY <1>1 DEF Apart
<1>4. Looped(r, D)
  <2> SUFFICES ASSUME NEW i \in 1..Len(r), r[i].do = "loop" PROVE Before(r, i, D)
    BY DEF Looped
  <2>1. PICK a : a = i + n
    OBVIOUS
  <2>2. a \in 1..Len(q) /\ a \in (n + 1)..Len(q) /\ r[i] = q[a] /\ a - n = i
    BY <1>1, <2>1
  <2>3. Before(q, a, C)
    BY <2>2 DEF Looped
  <2>4. CASE q[a].on \in C
    BY <2>2, <2>4 DEF Before
  <2>5. ASSUME NEW j \in 1..(a - 1), q[j].do = "ref", q[j].on = q[a].on,
               \A k \in j..a : q[k].at = q[a].at
        PROVE  Before(r, i, D)
    <3>1. CASE j > n
      <4>1. PICK b : b = j - n
        OBVIOUS
      <4>2. b \in 1..(i - 1) /\ r[b] = q[j]
        <5>1. j \in (n + 1)..Len(q) /\ b \in 1..(i - 1)
          BY <1>1, <2>2, <3>1, <4>1
        <5> QED
          BY <1>1, <4>1, <5>1
      <4>3. ASSUME NEW k \in b..i PROVE r[k] = q[k + n] /\ k + n \in j..a
        <5>1. k + n \in j..a /\ k \in 1..Len(r)
          BY <1>1, <2>1, <2>2, <3>1, <4>1, <4>2
        <5> QED
          BY <1>1, <5>1
      <4>4. \A k \in b..i : r[k].at = r[i].at
        BY <2>2, <2>5, <4>3
      <4> QED
        BY <2>2, <2>5, <4>2, <4>4 DEF Before
    <3>2. CASE j <= n
      <4>1. j \in 1..n /\ n + 1 \in j..a /\ j \in j..a /\ n < Len(q)
        BY <1>1, <2>2, <3>2
      <4>2. q[n + 1].at = q[j].at
        BY <2>5, <4>1
      <4>3. q[j].on \in D
        BY <2>5, <4>1, <4>2 DEF Skips
      <4> QED
        BY <2>2, <2>5, <4>3 DEF Before
    <3> QED
      BY <1>1, <3>1, <3>2
  <2> QED
    BY <2>3, <2>4, <2>5 DEF Before
<1>5. ASSUME NEW h, Due(q, 0, h) PROVE h \in D \/ Due(r, 0, h)
  <2>1. PICK j \in 1..Len(q) :
          /\ q[j].do = "ref" /\ q[j].on = h
          /\ \A k \in 1..j : q[k].do \in {"try", "iface"} => q[k].at # q[j].at
    BY <1>5 DEF Due
  <2>2. CASE j <= n
    <3>1. j \in 1..n /\ 1 \in 1..j
      BY <1>1, <2>2
    <3> QED
      BY <2>1, <3>1 DEF Skips
  <2>3. CASE j > n
    <3>1. j \in (n + 1)..Len(q) /\ \A k \in (n + 1)..j : k \in 1..j
      BY <1>1, <2>3
    <3>2. Due(q, n, h)
      BY <2>1, <3>1 DEF Due
    <3>3. 0 \in Nat /\ 0 + n = n
      BY <1>1
    <3> QED
      BY <3>2, <3>3, RestDue
  <2> QED
    BY <1>1, <2>2, <2>3
<1> QED
  BY <1>2, <1>3, <1>4, <1>5

-----------------------------------------------------------------------------
(* The steps.                                                              *)

Shutdown == zmq = "up" /\ zmq' = "down" => open' = {}

\* What a step, and what an early return leaves of the script.
LEMMA AdvanceRest ==
  ASSUME todo \in Seq(Steps), todo # <<>>, Advance
  PROVE  Rest(todo, 1, todo') /\ 1 \in 0..Len(todo) /\ 1 \in 1..Len(todo) /\ Head(todo) = todo[1]
<1>1. /\ todo' \in Seq(Steps) /\ Len(todo') = Len(todo) - 1
      /\ \A i \in 1..Len(todo') : todo'[i] = todo[i + 1]
  BY HeadTailProperties DEF Advance
<1>2. Len(todo) \in Nat \ {0}
  BY EmptySeq
<1>3. Head(todo) = todo[1]
  BY <1>2
<1> QED
  BY <1>1, <1>2, <1>3 DEF Rest

LEMMA ReturnRest ==
  ASSUME todo \in Seq(Steps), todo # <<>>, Return
  PROVE  \E n \in 1..Len(todo) :
           /\ n \in 0..Len(todo) /\ Rest(todo, n, todo')
           /\ \A i \in 1..n : todo[i].at = todo[1].at
           /\ n < Len(todo) => todo[n + 1].at # todo[1].at
<1>1. Len(todo) \in Nat \ {0} /\ \A i \in 1..Len(todo) : todo[i] \in Steps
  BY EmptySeq, ElementOfSeq
<1>2. Head(todo) = todo[1]
  BY <1>1
<1>3. PICK n \in 1..Len(todo) :
        /\ \A i \in 1..n : todo[i].at = Head(todo).at
        /\ n < Len(todo) => todo[n + 1].at # Head(todo).at
        /\ todo' = SubSeq(todo, n + 1, Len(todo))
  BY DEF Return
<1>4. \A i \in (n + 1)..Len(todo) : i \in 1..Len(todo)
  BY <1>1
<1>5. PICK q, m : q = todo /\ m = Len(todo)
  OBVIOUS
<1>6. /\ SubSeq(q, n + 1, m) \in Seq(Steps)
      /\ Len(SubSeq(q, n + 1, m)) = IF n + 1 <= m THEN m - (n + 1) + 1 ELSE 0
      /\ \A i \in 1..(m - (n + 1) + 1) : SubSeq(q, n + 1, m)[i] = q[(n + 1) + i - 1]
  BY <1>1, <1>4, <1>5, SubSeqProperties
<1>7. PICK r : r = todo'
  OBVIOUS
<1>8. r \in Seq(Steps) /\ Len(r) = m - n
  BY <1>1, <1>3, <1>5, <1>6, <1>7
<1>9. \A i \in 1..(m - n) : r[i] = q[i + n]
  <2>1. m - (n + 1) + 1 = m - n /\ \A i \in 1..(m - n) : (n + 1) + i - 1 = i + n
    BY <1>1, <1>5
  <2> QED
    BY <1>3, <1>5, <1>6, <1>7, <2>1
<1>10. Rest(todo, n, todo')
  BY <1>5, <1>7, <1>8, <1>9 DEF Rest
<1> QED
  BY <1>1, <1>2, <1>3, <1>10

\* The invariant after n steps of the script, with the handles D counted.
LEMMA Goes ==
  ASSUME LibraryInv, NEW C, Counted(C), NEW n \in 0..Len(todo), Rest(todo, n, todo'),
         NEW D, C \subseteq D, IsFiniteSet(D), Skips(todo, n, D),
         refs' \in Nat, Cardinality(D) <= refs',
         \A h \in open' : h \in open \/ h \in D \/ Due(todo', 0, h)
  PROVE  LibraryInv'
<1>1. PICK q, r : q = todo /\ r = todo'
  OBVIOUS
<1>2. /\ q \in Seq(Steps) /\ n \in 0..Len(q) /\ Rest(q, n, r) /\ Skips(q, n, D)
      /\ Opened(q) /\ Apart(q) /\ Looped(q, C)
  BY <1>1 DEF LibraryInv, Counted
<1>3. /\ Opened(r) /\ Apart(r) /\ Looped(r, D)
      /\ \A h : Due(q, 0, h) => h \in D \/ Due(r, 0, h)
  BY <1>2, RestKeeps
<1>4. \A h \in open' : h \in D \/ Due(todo', 0, h)
  BY <1>1, <1>3 DEF Counted
<1>5. todo' \in Seq(Steps) /\ Opened(todo') /\ Apart(todo') /\ Looped(todo', D)
  BY <1>1, <1>2, <1>3 DEF Rest
<1>6. Opened(todo)' /\ Apart(todo)' /\ Looped(todo, D)' /\ (\A h \in open : h \in D \/ Due(todo, 0, h))'
  BY <1>4, <1>5 DEF Opened, Apart, Looped, Due, Before
<1>7. Counted(D)'
  BY <1>6 DEF Counted
<1> QED
  BY <1>5, <1>6, <1>7 DEF LibraryInv

\* The other threads touch neither the script nor the sockets.
LEMMA Stays ==
  ASSUME LibraryInv, UNCHANGED <<todo, open, refs>>
  PROVE  LibraryInv'
  BY DEF LibraryInv, Counted, Opened, Apart, Looped, Due, Before

(* A step of a script that neither counts nor opens anything.              *)
LEMMA Passes ==
  ASSUME LibraryInv, todo # <<>>, Head(todo).do # "ref", Advance, UNCHANGED <<open, refs>>
  PROVE  LibraryInv'
<1>1. PICK C : Counted(C)
  BY DEF LibraryInv
<1>2. todo \in Seq(Steps) /\ refs \in Nat
  BY DEF LibraryInv
<1>3. Rest(todo, 1, todo') /\ 1 \in 0..Len(todo) /\ Head(todo) = todo[1]
  BY <1>2, AdvanceRest
<1>4. Skips(todo, 1, C)
  BY <1>3 DEF Skips
<1>5. IsFiniteSet(C) /\ Cardinality(C) <= refs'
  BY <1>1 DEF Counted
<1> QED
  BY <1>1, <1>2, <1>3, <1>4, <1>5, Goes

(* A transport's init returns early.                                       *)
LEMMA Returns ==
  ASSUME LibraryInv, todo # <<>>, Head(todo).do \in {"try", "iface"}, Return,
         UNCHANGED <<open, refs>>
  PROVE  LibraryInv'
<1>1. PICK C : Counted(C)
  BY DEF LibraryInv
<1>2. todo \in Seq(Steps) /\ refs \in Nat
  BY DEF LibraryInv
<1>3. PICK n \in 1..Len(todo) :
        /\ n \in 0..Len(todo) /\ Rest(todo, n, todo')
        /\ \A i \in 1..n : todo[i].at = todo[1].at
        /\ n < Len(todo) => todo[n + 1].at # todo[1].at
  BY <1>2, ReturnRest
<1>4. Len(todo) \in Nat \ {0} /\ Head(todo) = todo[1]
  <2>1. Len(todo) \in Nat \ {0}
    BY <1>2, EmptySeq
  <2> QED
    BY <1>2, <2>1
<1>5. Skips(todo, n, C)
  BY <1>3, <1>4 DEF Skips
<1>6. IsFiniteSet(C) /\ Cardinality(C) <= refs'
  BY <1>1 DEF Counted
<1> QED
  BY <1>1, <1>2, <1>3, <1>5, <1>6, Goes

(* The step opens a handle that will be counted, or that is.               *)
LEMMA Opens ==
  ASSUME LibraryInv, todo # <<>>, Head(todo).do \in {"open", "try", "loop"}, Advance,
         open' = open \cup {It}, refs' = refs
  PROVE  LibraryInv'
<1>1. PICK C : Counted(C)
  BY DEF LibraryInv
<1>2. todo \in Seq(Steps) /\ refs \in Nat /\ Opened(todo) /\ Looped(todo, C)
  BY <1>1 DEF LibraryInv, Counted
<1>3. /\ Rest(todo, 1, todo') /\ 1 \in 0..Len(todo) /\ 1 \in 1..Len(todo)
      /\ Head(todo) = todo[1]
  BY <1>2, AdvanceRest
<1>4. Skips(todo, 1, C)
  BY <1>3 DEF Skips
<1>5. It \in C \/ Due(todo', 0, It)
  <2>1. CASE Head(todo).do = "loop"
    BY <1>2, <1>3, <2>1 DEF Looped, Before, It
  <2>2. CASE Head(todo).do \in {"open", "try"}
    <3>1. PICK q, r : q = todo /\ r = todo'
      OBVIOUS
    <3>2. Due(q, 1, q[1].on) /\ q[1].on = It
      BY <1>2, <1>3, <2>2, <3>1 DEF Opened, It
    <3>3. 0 \in Nat /\ 0 + 1 = 1
      OBVIOUS
    <3>4. Due(r, 0, q[1].on)
      BY <1>2, <1>3, <3>1, <3>2, <3>3, RestDue
    <3> QED
      BY <3>1, <3>2, <3>4
  <2> QED
    BY <2>1, <2>2
<1>6. \A h \in open' : h \in open \/ h \in C \/ Due(todo', 0, h)
  BY <1>5
<1>7. IsFiniteSet(C) /\ Cardinality(C) <= refs'
  BY <1>1 DEF Counted
<1> QED
  BY <1>1, <1>2, <1>3, <1>4, <1>6, <1>7, Goes

\* zst_zmq_inc_ref_count.
LEMMA Counts ==
  ASSUME LibraryInv, IncRefCount
  PROVE  LibraryInv' /\ Shutdown
<1>1. PICK C : Counted(C)
  BY DEF LibraryInv
<1>2. todo \in Seq(Steps) /\ refs \in Nat /\ todo # <<>> /\ Advance /\ refs' = refs + 1
  BY DEF LibraryInv, IncRefCount, Doing
<1>3. /\ Rest(todo, 1, todo') /\ 1 \in 0..Len(todo) /\ Head(todo) = todo[1]
  BY <1>2, AdvanceRest
<1>4. PICK h : h = It
  OBVIOUS
<1>5. PICK D : D = C \cup {h}
  OBVIOUS
<1>6. IsFiniteSet(C) /\ Cardinality(C) <= refs /\ Cardinality(C) \in Nat
  BY <1>1, FS_CardinalityType DEF Counted
<1>7. IsFiniteSet(D) /\ Cardinality(D) <= refs'
  <2>1. IsFiniteSet(D) /\ Cardinality(D) = IF h \in C THEN Cardinality(C) ELSE Cardinality(C) + 1
    BY <1>5, <1>6, FS_AddElement
  <2> QED
    BY <1>2, <1>6, <2>1
<1>8. Skips(todo, 1, D)
  BY <1>3, <1>4, <1>5 DEF Skips, It
<1>9. open' = open /\ zmq' = zmq
  BY DEF IncRefCount
<1>10. LibraryInv'
  BY <1>1, <1>2, <1>3, <1>5, <1>7, <1>8, <1>9, Goes
<1> QED
  BY <1>9, <1>10 DEF Shutdown

(* The handle was counted, for the script counts nothing more; the last    *)
(* one takes ZeroMQ with it.                                               *)
LEMMA Closes ==
  ASSUME LibraryInv, todo # <<>>, Head(todo).do \in {"stop", "close"}, Advance,
         It \in open, open' = open \ {It}, DecRefCount
  PROVE  LibraryInv' /\ Shutdown
<1>1. PICK C : Counted(C)
  BY DEF LibraryInv
<1>2. todo \in Seq(Steps) /\ refs \in Nat /\ Apart(todo) /\ Opened(todo)
  BY DEF LibraryInv
<1>3. /\ Rest(todo, 1, todo') /\ 1 \in 0..Len(todo) /\ 1 \in 1..Len(todo)
      /\ Head(todo) = todo[1]
  BY <1>2, AdvanceRest
<1>4. \A j \in 1..Len(todo) : todo[j].do \notin {"ref", "loop"}
  BY <1>2, <1>3 DEF Apart
<1>5. open \subseteq C
  BY <1>1, <1>4 DEF Counted, Due
<1>6. PICK h : h = It
  OBVIOUS
<1>7. PICK D : D = C \ {h}
  OBVIOUS
<1>8. /\ IsFiniteSet(C) /\ Cardinality(C) <= refs /\ Cardinality(C) \in Nat
      /\ h \in C
  BY <1>1, <1>5, <1>6, FS_CardinalityType DEF Counted
<1>9. IsFiniteSet(D) /\ Cardinality(D) = Cardinality(C) - 1 /\ Cardinality(D) \in Nat
  BY <1>7, <1>8, FS_RemoveElement, FS_CardinalityType
<1>10. refs' \in Nat /\ Cardinality(D) <= refs' /\ refs' = refs - 1
  BY <1>2, <1>8, <1>9 DEF DecRefCount
<1>11. open' \subseteq D
  BY <1>5, <1>6, <1>7
<1>12. Shutdown
  <2> SUFFICES ASSUME zmq = "up", zmq' = "down" PROVE open' = {}
    BY DEF Shutdown
  <2>1. refs' <= 0
    BY DEF DecRefCount
  <2>2. Cardinality(D) = 0
    <3>1. PICK c, k : c = Cardinality(D) /\ k = refs'
      OBVIOUS
    <3>2. c \in Nat /\ k \in Nat /\ c <= k /\ k <= 0
      BY <1>9, <1>10, <2>1, <3>1
    <3> QED
      BY <3>1, <3>2
  <2>3. D = {}
    BY <1>9, <2>2, FS_EmptySet
  <2> QED
    BY <1>11, <2>3
<1>13. LibraryInv'
  <2>1. PICK q, r : q = todo /\ r = todo'
    OBVIOUS
  <2>2. /\ q \in Seq(Steps) /\ 1 \in 0..Len(q) /\ Rest(q, 1, r) /\ Opened(q) /\ Apart(q)
        /\ Looped(q, {}) /\ Skips(q, 1, {})
    BY <1>2, <1>3, <1>4, <2>1 DEF Looped, Skips
  <2>3. Opened(r) /\ Apart(r) /\ Looped(r, {})
    BY <2>2, RestKeeps
  <2>4. Looped(r, D)
    BY <2>3 DEF Looped, Before
  <2>5. Opened(todo)' /\ Apart(todo)' /\ Looped(todo, D)'
    BY <2>1, <2>3, <2>4 DEF Opened, Apart, Looped, Due, Before
  <2>6. Counted(D)'
    BY <1>9, <1>10, <1>11, <2>5 DEF Counted
  <2> QED
    BY <1>3, <1>10, <2>5, <2>6 DEF LibraryInv, Rest
<1> QED
  BY <1>12, <1>13

\* Every step of a script.
LEMMA ScriptSteps ==
  ASSUME LibraryInv, ScriptStep
  PROVE  LibraryInv' /\ Shutdown
<1>1. CASE IncRefCount
  BY <1>1, Counts
<1>2. CASE OpenSocket
  <2>1. todo # <<>> /\ Head(todo).do = "open" /\ Advance /\ open' = open \cup {It} /\ refs' = refs
    BY <1>2 DEF OpenSocket, Doing
  <2>2. zmq' # "down"
    BY <1>2 DEF OpenSocket
  <2> QED
    BY <2>1, <2>2, Opens DEF Shutdown
<1>3. CASE TrySocket
  <2>1. todo # <<>> /\ Head(todo).do = "try" /\ refs' = refs /\ zmq' # "down"
    BY <1>3 DEF TrySocket, Doing
  <2>2. CASE Advance /\ open' = open \cup {It}
    BY <2>1, <2>2, Opens DEF Shutdown
  <2>3. CASE Return /\ UNCHANGED open
    BY <2>1, <2>3, Returns DEF Shutdown
  <2> QED
    BY <1>3, <2>2, <2>3 DEF TrySocket
<1>4. CASE FindInterface
  <2>1. todo # <<>> /\ Head(todo).do = "iface" /\ UNCHANGED <<open, refs, zmq>>
    BY <1>4 DEF FindInterface, Doing, sockets
  <2>2. CASE Advance
    BY <2>1, <2>2, Passes DEF Shutdown
  <2>3. CASE Return
    BY <2>1, <2>3, Returns DEF Shutdown
  <2> QED
    BY <1>4, <2>2, <2>3 DEF FindInterface
<1>5. CASE StartLoop
  <2>1. /\ todo # <<>> /\ Head(todo).do = "loop" /\ Advance /\ open' = open \cup {It}
        /\ refs' = refs /\ zmq' = zmq
    BY <1>5 DEF StartLoop, Doing
  <2> QED
    BY <2>1, Opens DEF Shutdown
<1>6. CASE StopLoop \/ CloseSocket
  <2>1. todo # <<>> /\ Head(todo).do \in {"stop", "close"} /\ Advance
    BY <1>6 DEF StopLoop, CloseSocket, Doing
  <2>2. CASE It \in open /\ open' = open \ {It} /\ DecRefCount
    BY <2>1, <2>2, Closes
  <2>3. CASE UNCHANGED sockets
    <3>1. UNCHANGED <<open, refs, zmq>> /\ Head(todo).do # "ref"
      BY <2>1, <2>3 DEF sockets
    <3> QED
      BY <2>1, <3>1, Passes DEF Shutdown
  <2> QED
    BY <1>6, <2>2, <2>3 DEF StopLoop, CloseSocket
<1>7. CASE \/ SpawnEvents \/ InterruptEvents \/ JoinEvents \/ DrainPool \/ SpawnTimer \/ RestartIO
           \/ StopIO \/ JoinTimer \/ JoinThreadPool \/ LibFlags
  <2>1. todo # <<>> /\ Head(todo).do # "ref" /\ Advance /\ UNCHANGED <<open, refs, zmq>>
    BY <1>7 DEF SpawnEvents, InterruptEvents, JoinEvents, DrainPool, SpawnTimer, RestartIO, StopIO,
                JoinTimer, JoinThreadPool, LibFlags, Doing, sockets
  <2> QED
    BY <2>1, Passes DEF Shutdown
<1> QED
  BY <1>1, <1>2, <1>3, <1>4, <1>5, <1>6, <1>7 DEF ScriptStep

(* A call of init or destroy finds no other in progress.                   *)
LEMMA Begins ==
  ASSUME LibraryInv, todo = <<>>, Whole(todo') \/ Undoing(todo'), UNCHANGED <<open, refs>>
  PROVE  LibraryInv'
<1>1. PICK C : Counted(C)
  BY DEF LibraryInv
<1>2. \A h : ~Due(todo, 0, h)
  BY DEF Due
<1>3. IsFiniteSet(C) /\ Cardinality(C) <= refs /\ \A h \in open : h \in C
  BY <1>1, <1>2 DEF Counted
<1>4. todo' \in Seq(Steps) /\ Opened(todo') /\ Apart(todo') /\ Looped(todo', C)
  <2>1. CASE Whole(todo')
    BY <2>1 DEF Whole, Apart, Looped, Before
  <2>2. CASE Undoing(todo')
    BY <2>2 DEF Undoing, Opened, Apart, Looped
  <2> QED
    BY <2>1, <2>2
<1>5. Opened(todo)' /\ Apart(todo)' /\ Looped(todo, C)'
  BY <1>4 DEF Opened, Apart, Looped, Due, Before
<1>6. Counted(C)'
  BY <1>3, <1>5 DEF Counted
<1> QED
  BY <1>4, <1>5, <1>6 DEF LibraryInv

\* Initially nothing is open.
LEMMA LibraryStarts == LibraryInit => LibraryInv
<1> SUFFICES ASSUME LibraryInit PROVE LibraryInv
  OBVIOUS
<1>1. todo = <<>> /\ open = {} /\ refs = 0
  BY DEF LibraryInit
<1>2. IsFiniteSet({}) /\ Cardinality({}) = 0
  BY FS_EmptySet
<1>3. todo \in Seq(Steps) /\ Opened(todo) /\ Apart(todo) /\ Looped(todo, {})
  BY <1>1 DEF Opened, Apart, Looped
<1>4. Counted({})
  BY <1>1, <1>2, <1>3 DEF Counted
<1> QED
  BY <1>1, <1>3, <1>4 DEF LibraryInv

\* Every step keeps the invariant and shuts ZeroMQ down only when nothing is open.
LEMMA LibraryStep ==
  ASSUME LibraryInv, [LibraryNext]_libraryVars
  PROVE  LibraryInv' /\ Shutdown
<1>1. CASE ScriptStep
  BY <1>1, ScriptSteps
<1>2. CASE InitClient \/ Destroy \/ StageInit \/ StageDestroy
  <2>1. todo = <<>> /\ UNCHANGED <<open, refs, zmq>>
    BY <1>2 DEF InitClient, Destroy, StageInit, StageDestroy, Called, sockets
  <2>2. \/ todo' = InitClientScript \/ todo' = DestroyScript
        \/ todo' = StageInitScript \/ todo' = StageDestroyScript
    BY <1>2 DEF InitClient, Destroy, StageInit, StageDestroy
  <2>3. Whole(todo') \/ Undoing(todo')
    BY <2>2, InitClientWhole, DestroyUndoing, StageInitWhole, StageDestroyUndoing
  <2> QED
    BY <2>1, <2>3, Begins DEF Shutdown
<1>3. ASSUME UNCHANGED <<todo, sockets>> PROVE LibraryInv' /\ Shutdown
  <2>1. UNCHANGED <<todo, open, refs, zmq>>
    BY <1>3 DEF sockets
  <2> QED
    BY <2>1, Stays DEF Shutdown
<1>4. CASE UNCHANGED libraryVars
  BY <1>3, <1>4 DEF libraryVars, sockets
<1>5. CASE \E w \in Workers : TakeRequest(w)
  BY <1>3, <1>5 DEF TakeRequest
<1>6. CASE \E x \in Requesters : HandleActorPipe(x) \/ Dispatch(x) \/ SockRecv(x)
  BY <1>3, <1>6 DEF HandleActorPipe, Dispatch, SockRecv, Moves
<1>7. CASE \E x \in Requesters : Respond(x, FALSE) \/ Respond(x, TRUE)
  BY <1>3, <1>7 DEF Respond
<1>8. CASE \/ TimerRuns \/ TimerReturns \/ JoinOnBeacon \/ JoinFromPool \/ Heartbeat \/ StageQuits
           \/ HearBeacon \/ Leave \/ \E t \in Transports : EventLoopEnds(t)
  BY <1>3, <1>8 DEF TimerRuns, TimerReturns, JoinOnBeacon, JoinFromPool, Heartbeat, StageQuits,
                    HearBeacon, Leave, EventLoopEnds
<1>9. CASE \E b \in {"sync", "async"} : Join(b) \/ JoinByName(b)
  BY <1>3, <1>9 DEF Join, JoinByName
<1>10. CASE AutoJoinByName
  BY <1>3, <1>10 DEF AutoJoinByName, Join
<1>11. CASE \E b \in {"sync", "async"} : EntityCall(b) \/ CableCall(b) \/ RegisterFactory(b)
  BY <1>3, <1>11 DEF EntityCall, CableCall, RegisterFactory
<1> QED
  BY <1>1, <1>2, <1>4, <1>5, <1>6, <1>7, <1>8, <1>9, <1>10, <1>11 DEF LibraryNext, LibraryThread

(* UnusedAtShutdown: ZeroMQ is shut down only when no actor and no socket  *)
(* of the process is left.                                                 *)
THEOREM ContextUnused == LibrarySpec => UnusedAtShutdown
<1>1. LibraryInv /\ [LibraryNext]_libraryVars => LibraryInv' /\ [Shutdown]_libraryVars
  BY LibraryStep
<1> QED
  BY <1>1, LibraryStarts, PTL DEF LibrarySpec, UnusedAtShutdown, Shutdown

-----------------------------------------------------------------------------
(* Types.                                                                  *)

\* The initial state has its types.
LEMMA LibraryTypesStart == LibraryInit => LibraryTypeOK
<1> SUFFICES ASSUME LibraryInit PROVE LibraryTypeOK
  OBVIOUS
<1>1. lib \in Flags
  <2>1. PICK f : f = [k \in {"init", "ending", "destroyed", "connecting", "connected", "linked", "beat"}
                        |-> FALSE]
    OBVIOUS
  <2>2. f \in Flags /\ lib = f
    BY <2>1 DEF Flags, LibraryInit
  <2> QED
    BY <2>2
<1>2. used \in [{"inits", "failures", "beats"} -> Nat]
  BY DEF LibraryInit
<1>3. req \in [Requesters -> RequestStates] /\ posted \in Seq(Kinds)
  BY DEF LibraryInit, Idle, RequestStates, Kinds
<1> QED
  BY <1>1, <1>2, <1>3 DEF LibraryInit, LibraryTypeOK

\* The flags after leave_stage_complete.
LEMMA LeaveFlags ==
  ASSUME NEW l \in Flags
  PROVE  LeaveStageComplete(l) \in Flags
  BY DEF Flags, LeaveStageComplete

\* A request under way.
LEMMA BegunRequest ==
  ASSUME NEW kind \in Kinds
  PROVE  Begun(kind) \in RequestStates
  BY DEF Begun, RequestStates

\* A request that was sent, or queued for a worker.
LEMMA SendTypes ==
  ASSUME posted \in Seq(Kinds), req \in [Requesters -> RequestStates],
         NEW l, NEW kind \in Kinds, NEW behaviour \in {"sync", "async"},
         BeginSend(l, kind, behaviour)
  PROVE  posted' \in Seq(Kinds) /\ req' \in [Requesters -> RequestStates]
<1>1. Begun(kind) \in RequestStates
  BY BegunRequest
<1>2. Append(posted, kind) \in Seq(Kinds)
  OBVIOUS
<1>3. CASE ~l.linked
  BY <1>3 DEF BeginSend
<1>4. CASE l.linked /\ behaviour = "async"
  BY <1>2, <1>4 DEF BeginSend
<1>5. CASE l.linked /\ behaviour = "sync"
  BY <1>1, <1>5 DEF BeginSend
<1> QED
  BY <1>3, <1>4, <1>5

\* What the steps of a script open, count and close are handles.
LEMMA OnHandle ==
  ASSUME todo \in Seq(Steps), todo # <<>>, Head(todo).do \in OnHandles
  PROVE  It \in Handles
<1>1. Head(todo) \in Steps
  BY HeadTailProperties
<1> QED
  BY <1>1 DEF Steps, It

\* The steps of a script keep the types.
LEMMA ScriptTypes ==
  ASSUME LibraryInv, LibraryInv', LibraryTypeOK, ScriptStep
  PROVE  LibraryTypeOK'
<1> USE DEF LibraryTypeOK
<1>1. refs' \in Nat /\ todo \in Seq(Steps)
  BY DEF LibraryInv
<1>2. CASE IncRefCount
  BY <1>1, <1>2 DEF IncRefCount, RefUnchanged, threads, requests
<1>3. CASE OpenSocket \/ StartLoop
  <2>1. It \in Handles
    BY <1>1, <1>3, OnHandle DEF OpenSocket, StartLoop, Doing, OnHandles
  <2> QED
    BY <1>1, <1>3, <2>1 DEF OpenSocket, StartLoop, RefUnchanged, threads, requests
<1>4. CASE TrySocket
  <2>1. It \in Handles
    BY <1>1, <1>4, OnHandle DEF TrySocket, Doing, OnHandles
  <2> QED
    BY <1>1, <1>4, <2>1 DEF TrySocket, RefUnchanged, threads, requests
<1>5. CASE FindInterface
  BY <1>1, <1>5 DEF FindInterface, RefUnchanged, threads, requests, sockets
<1>6. CASE StopLoop \/ CloseSocket
  BY <1>1, <1>6 DEF StopLoop, CloseSocket, DecRefCount, RefUnchanged, threads, requests, sockets
<1>7. CASE SpawnEvents \/ InterruptEvents \/ JoinEvents
  BY <1>1, <1>7 DEF SpawnEvents, InterruptEvents, JoinEvents, threads, requests, sockets
<1>8. CASE DrainPool \/ SpawnTimer \/ RestartIO \/ StopIO \/ JoinTimer
  BY <1>1, <1>8 DEF DrainPool, SpawnTimer, RestartIO, StopIO, JoinTimer, threads, requests, sockets
<1>9. CASE JoinThreadPool
  BY <1>1, <1>9 DEF JoinThreadPool, threads, requests, sockets
<1>10. CASE LibFlags
  <2>1. lib' \in Flags
    <3>1. LeaveStageComplete(lib) \in Flags
      BY LeaveFlags
    <3>2. /\ [lib EXCEPT !.ending = TRUE] \in Flags
          /\ [lib EXCEPT !.ending = FALSE, !.destroyed = TRUE] \in Flags
          /\ [lib EXCEPT !.init = TRUE] \in Flags
      BY DEF Flags
    <3> QED
      BY <1>10, <3>1, <3>2 DEF LibFlags
  <2> QED
    BY <1>1, <1>10, <2>1 DEF LibFlags, threads, requests, sockets
<1> QED
  BY <1>2, <1>3, <1>4, <1>5, <1>6, <1>7, <1>8, <1>9, <1>10 DEF ScriptStep

\* So does every step.
LEMMA LibraryTypeStep ==
  ASSUME LibraryInv, LibraryInv', LibraryTypeOK, [LibraryNext]_libraryVars
  PROVE  LibraryTypeOK'
<1> USE DEF LibraryTypeOK
<1>1. CASE ScriptStep
  BY <1>1, ScriptTypes
<1>2. CASE InitClient \/ Destroy
  <2>1. lib' \in Flags
    <3>1. [lib EXCEPT !.destroyed = FALSE] \in Flags /\ [lib EXCEPT !.init = FALSE] \in Flags
      BY DEF Flags
    <3> QED
      BY <1>2, <3>1 DEF InitClient, Destroy
  <2>2. used' \in [{"inits", "failures", "beats"} -> Nat]
    BY <1>2 DEF InitClient, Destroy
  <2> QED
    BY <1>2, <2>1, <2>2 DEF InitClient, Destroy, threads, requests, sockets
<1>3. CASE StageInit \/ StageDestroy \/ UNCHANGED libraryVars
  BY <1>3 DEF StageInit, StageDestroy, libraryVars, threads, requests, sockets
<1>4. ASSUME NEW w \in Workers, TakeRequest(w) PROVE LibraryTypeOK'
  <2>1. posted # <<>> /\ Head(posted) \in Kinds /\ Tail(posted) \in Seq(Kinds)
    BY <1>4, HeadTailProperties DEF TakeRequest
  <2>2. Begun(Head(posted)) \in RequestStates
    BY <2>1, BegunRequest
  <2>3. req' \in [Requesters -> RequestStates] /\ posted' \in Seq(Kinds)
    BY <1>4, <2>1, <2>2 DEF TakeRequest
  <2> QED
    BY <1>4, <2>3 DEF TakeRequest, threads, sockets
<1>5. ASSUME NEW x \in Requesters, HandleActorPipe(x) \/ Dispatch(x) \/ SockRecv(x) PROVE LibraryTypeOK'
  <2>1. PICK from \in {"piped", "wired", "inbox"}, to \in {"wired", "inbox", "ready"} :
          Moves(x, from, to)
    BY <1>5 DEF HandleActorPipe, Dispatch, SockRecv
  <2>2. req[x] \in RequestStates
    OBVIOUS
  <2>3. [req[x] EXCEPT !.at = to] \in RequestStates
    BY <2>2 DEF RequestStates
  <2>4. req' \in [Requesters -> RequestStates]
    BY <2>1, <2>3 DEF Moves
  <2> QED
    BY <2>1, <2>4 DEF Moves, threads, sockets
<1>6. ASSUME NEW x \in Requesters, NEW ok \in BOOLEAN, Respond(x, ok) PROVE LibraryTypeOK'
  <2>1. lib' \in Flags
    <3>1. LeaveStageComplete(lib) \in Flags
      BY LeaveFlags
    <3>2. [lib EXCEPT !.connecting = FALSE, !.connected = TRUE, !.beat = TRUE] \in Flags
      BY DEF Flags
    <3> QED
      BY <1>6, <3>1, <3>2 DEF Respond
  <2>2. posted' \in Seq(Kinds)
    <3>1. Append(posted, "ask") \in Seq(Kinds)
      BY DEF Kinds
    <3>2. posted' = posted \/ posted' = Append(posted, "ask")
      BY <1>6 DEF Respond
    <3> QED
      BY <3>1, <3>2
  <2>3. req' \in [Requesters -> RequestStates]
    <3>1. Begun("ask") \in RequestStates /\ Idle \in RequestStates
      BY BegunRequest DEF Kinds, RequestStates, Idle
    <3>2. PICK a \in {Begun("ask"), Idle} : req' = [req EXCEPT ![x] = a]
      BY <1>6 DEF Respond
    <3> QED
      BY <3>1, <3>2
  <2> QED
    BY <1>6, <2>1, <2>2, <2>3 DEF Respond, threads, sockets
<1>7. CASE TimerRuns \/ TimerReturns \/ \E t \in Transports : EventLoopEnds(t)
  BY <1>7 DEF TimerRuns, TimerReturns, EventLoopEnds, threads, sockets, requests
<1>8. CASE StageQuits \/ Leave
  <2>1. [lib EXCEPT !.connecting = @ /\ ~lib.connected] \in Flags
    BY DEF Flags
  <2>2. lib' \in Flags
    BY <1>8, <2>1, LeaveFlags DEF StageQuits, Leave
  <2> QED
    BY <1>8, <2>2 DEF StageQuits, Leave, threads, sockets, requests
<1>9. CASE HearBeacon
  BY <1>9 DEF HearBeacon, threads, sockets, requests
<1>10. CASE JoinOnBeacon
  BY <1>10 DEF JoinOnBeacon, Wait, threads, sockets, requests
<1>11. ASSUME NEW b \in {"sync", "async"}, JoinStage(b)
       PROVE  lib' \in Flags /\ posted' \in Seq(Kinds) /\ req' \in [Requesters -> RequestStates]
  <2>1. PICK l : \E ok \in BOOLEAN :
          /\ l = [lib EXCEPT !.connecting = TRUE, !.linked = @ \/ (ok /\ "client_sock" \in open)]
          /\ lib' = l /\ BeginSend(l, "join", b)
    BY <1>11 DEF JoinStage
  <2>2. l \in Flags
    <3>1. \A c \in BOOLEAN : [lib EXCEPT !.connecting = TRUE, !.linked = @ \/ c] \in Flags
      BY DEF Flags
    <3>2. \A ok \in BOOLEAN : (ok /\ "client_sock" \in open) \in BOOLEAN
      BY Zenon
    <3> QED
      BY <2>1, <3>1, <3>2
  <2>3. "join" \in Kinds
    BY DEF Kinds
  <2> QED
    BY <2>1, <2>2, <2>3, SendTypes
<1>12. CASE JoinFromPool
  <2>1. lib' \in Flags /\ posted' \in Seq(Kinds) /\ req' \in [Requesters -> RequestStates]
    BY <1>11, <1>12 DEF JoinFromPool
  <2> QED
    BY <1>12, <2>1 DEF JoinFromPool, Wait, threads, sockets
<1>13. CASE Heartbeat
  <2>1. posted' \in Seq(Kinds) /\ req' \in [Requesters -> RequestStates]
    BY <1>13, SendTypes DEF Heartbeat, Kinds
  <2>2. used' \in [{"inits", "failures", "beats"} -> Nat]
    BY <1>13 DEF Heartbeat
  <2> QED
    BY <1>13, <2>1, <2>2 DEF Heartbeat, threads, sockets
<1>14. ASSUME NEW b \in {"sync", "async"}, Join(b) PROVE LibraryTypeOK'
  <2>1. lib' \in Flags /\ posted' \in Seq(Kinds) /\ req' \in [Requesters -> RequestStates]
    BY <1>11, <1>14 DEF Join
  <2> QED
    BY <1>14, <2>1 DEF Join, threads, sockets
<1>15. CASE AutoJoinByName
  <2>1. CASE Join("async")
    BY <1>14, <2>1
  <2>2. CASE /\ waiter' = [waiter EXCEPT !.at = "posted"]
             /\ UNCHANGED <<todo, lib, threads, requests, heard, sockets, stage, used>>
    BY <2>2 DEF threads, requests, sockets
  <2> QED
    BY <1>15, <2>1, <2>2 DEF AutoJoinByName
<1>16. ASSUME NEW b \in {"sync", "async"}, EntityCall(b) PROVE LibraryTypeOK'
  <2>1. posted' \in Seq(Kinds) /\ req' \in [Requesters -> RequestStates]
    BY <1>16, SendTypes DEF EntityCall, Kinds
  <2> QED
    BY <1>16, <2>1 DEF EntityCall, threads, sockets
<1> QED
  BY <1>1, <1>2, <1>3, <1>4, <1>5, <1>6, <1>7, <1>8, <1>9, <1>10, <1>12, <1>13, <1>14, <1>15, <1>16
     DEF LibraryNext, LibraryThread, JoinByName, CableCall, RegisterFactory

(* LibraryTypeOK: the library's flags, threads, requests and handles.      *)
THEOREM LibraryTypeCorrect == LibrarySpec => []LibraryTypeOK
<1>1. LibraryInit => LibraryInv /\ LibraryTypeOK
  BY LibraryStarts, LibraryTypesStart
<1>2. LibraryInv /\ LibraryTypeOK /\ [LibraryNext]_libraryVars => (LibraryInv /\ LibraryTypeOK)'
  BY LibraryStep, LibraryTypeStep
<1> QED
  BY <1>1, <1>2, PTL DEF LibrarySpec

=============================================================================
