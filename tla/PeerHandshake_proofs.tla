------------------------- MODULE PeerHandshake_proofs -------------------------
(***************************************************************************)
(* Theorems about PeerHandshake, for any set of requests and any number of *)
(* processes that join under the listener's name.                          *)
(***************************************************************************)
EXTENDS PeerHandshake, TLAPS

\* The event thread is busy with a request it has just taken up; a timer that
\* is being stopped is in the map.
ThreadsOK ==
  /\ handler.at # "idle" => handler.req \in Requests
  /\ handler.at = "connect" => request[handler.req] = "connecting"
  /\ stopping => timer # None

TypeInv == TypeOK /\ ThreadsOK

\* A request the stage has taken up.
Active(r) == request[r] \notin {"new", "refused"}

\* A process that has left hears nothing.
LeftIsDeaf ==
  life # "joined" =>
    toListener = <<>> /\ pending = None /\ flight = 0 /\ ~hearing

\* Listen messages under way and pending belong to the present process.
ListenForPresent ==
  /\ \A i \in 1..Len(toListener) :
       /\ Active(toListener[i])
       /\ target[toListener[i]] = process
  /\ pending # None =>
       Active(pending) /\ target[pending] = process

\* What was heard came over a connected socket.
HeardOverLink ==
  /\ flight > 0 => link[process] = "up"
  /\ \A r \in Requests :
       /\ r \in toStage => Active(r) /\ link[target[r]] = "up"
       /\ request[r] \in {"answered", "done"} =>
            link[target[r]] = "up"

HeardInv == TypeInv /\ LeftIsDeaf /\ ListenForPresent /\ HeardOverLink

\* No request but r was taken up.
Alone(r) == \A q \in Requests \ {r} : ~Active(q)

\* The listen message of r is in one place, and a waiting request has one.
Ordered(r) ==
  /\ request[r] \in {"new", "refused", "connecting", "posted"} =>
       toListener = <<>> /\ pending = None /\ ~hearing
  /\ toListener # <<>> =>
       toListener = <<r>> /\ pending = None /\ ~hearing
  /\ hearing /\ request[r] = "waiting" => r \in toStage
  /\ request[r] = "waiting" /\ process = target[r] /\ life = "joined" =>
       toListener = <<r>> \/ pending = r \/ r \in toStage

\* A request points to a process that has joined; one that is alone is in
\* order.
ListenInv ==
  /\ HeardInv
  /\ \A r \in Requests : target[r] <= process
  /\ \A r \in Requests : Alone(r) => Ordered(r)

\* BroadcastGoesOn with the types it needs.
BroadcastInv == TypeInv /\ BroadcastGoesOn
-----------------------------------------------------------------------------
(* Types *)

\* What the tail of a sequence holds.
LEMMA TailParts ==
  ASSUME NEW S, NEW s \in Seq(S), s # <<>>
  PROVE  /\ Head(s) \in S
         /\ Head(s) = s[1]
         /\ Tail(s) \in Seq(S)
         /\ Len(Tail(s)) = Len(s) - 1
         /\ Len(s) \in Nat \ {0}
         /\ \A i \in 1..Len(Tail(s)) : Tail(s)[i] = s[i + 1]
  OBVIOUS

\* What appending does to a sequence.
LEMMA AppendParts ==
  ASSUME NEW S, NEW s \in Seq(S), NEW e \in S
  PROVE  /\ Append(s, e) \in Seq(S)
         /\ Len(Append(s, e)) = Len(s) + 1
         /\ Len(s) \in Nat
         /\ Append(s, e)[Len(s) + 1] = e
         /\ \A i \in 1..Len(s) : Append(s, e)[i] = s[i]
  OBVIOUS

\* A message to the broadcaster.
LEMMA TellType ==
  ASSUME TypeOK
  PROVE  /\ \A r \in Requests : /\ Tell("start", r) \in Seq(News)
                                /\ Tell("stop", r) \in Seq(News)
         /\ Tell("leave", None) \in Seq(News)
         /\ Tell("join", None) \in Seq(News)
BY DEF TypeOK, Tell, News

\* Moving a request on keeps its type.
LEMMA AtType ==
  ASSUME TypeOK, NEW r \in Requests, NEW place \in RequestAt, At(r, place)
  PROVE  /\ request' \in [Requests -> RequestAt]
         /\ \A q \in Requests \ {r} : request'[q] = request[q]
         /\ request'[r] = place
BY DEF TypeOK, At

\* The initial state has its types.
LEMMA InitType == Init => TypeInv
<1> SUFFICES ASSUME Init PROVE TypeInv
  OBVIOUS
<1>1. 1 \in Processes /\ 0 \in 0..MaxFlight
  BY HandshakeAssumption DEF Processes
<1>2. /\ request \in [Requests -> RequestAt]
      /\ target \in [Requests -> Processes]
      /\ link \in [Processes -> {"none", "connecting", "up"}]
      /\ waits \in [Requests -> Nat]
      /\ due \in [Requests -> Nat]
  BY <1>1 DEF Init, RequestAt
<1>3. /\ hearing \in BOOLEAN /\ stopping \in BOOLEAN /\ subscribed \in BOOLEAN
      /\ arriving \in BOOLEAN
      /\ ~stopping
  BY DEF Init
<1>4. toListener \in Seq(Requests) /\ toBroadcaster \in Seq(News)
  BY DEF Init
<1> QED
  BY <1>1, <1>2, <1>3, <1>4 DEF Init, TypeInv, TypeOK, ThreadsOK

\* A step that misuses memory changes nothing else.
LEMMA MisuseType ==
  ASSUME TypeInv, NEW what \in {"performer", "null", "timer"}, Misuse(what)
  PROVE  TypeInv'
BY DEF Misuse, TypeInv, TypeOK, ThreadsOK, stageVars, netVars, listenerVars,
       broadcasterVars

\* The stage's event thread keeps the types.
LEMMA HandlerType ==
  ASSUME TypeInv, NEW r \in Requests,
         \/ HandleCable(r) \/ HandleObserve(r) \/ ReceiveAnswer(r)
         \/ ConnectClients \/ SendStart
  PROVE  TypeInv'
<1> USE DEF stageVars, netVars, listenerVars, broadcasterVars
<1>1. CASE HandleCable(r)
  <2>1. /\ request' \in [Requests -> RequestAt]
        /\ target' \in [Requests -> Processes]
    <3>1. CASE life = "gone"
      BY <1>1, <3>1 DEF HandleCable, At, TypeInv, TypeOK, RequestAt
    <3>2. CASE life # "gone"
      <4>1. /\ process \in Processes
            /\ target \in [Requests -> Processes]
            /\ request \in [Requests -> RequestAt]
        BY DEF TypeInv, TypeOK
      <4> QED
        BY <1>1, <3>2, <4>1 DEF HandleCable, At, RequestAt
    <3> QED
      BY <3>1, <3>2
  <2>2. /\ handler' = handler \/ handler' = [at |-> "connect", req |-> r]
        /\ handler' # handler => request'[r] = "connecting"
    BY <1>1 DEF HandleCable, At, TypeInv, TypeOK
  <2> QED
    BY <1>1, <2>1, <2>2 DEF HandleCable, TypeInv, TypeOK, ThreadsOK
<1>2. CASE HandleObserve(r)
  <2>1. /\ request' \in [Requests -> RequestAt]
        /\ target' \in [Requests -> Processes]
    BY <1>2 DEF HandleObserve, At, TypeInv, TypeOK, RequestAt
  <2>2. /\ handler' = handler \/ handler' = [at |-> "connect", req |-> r]
        /\ handler' # handler => request'[r] = "connecting"
    BY <1>2 DEF HandleObserve, At, TypeInv, TypeOK
  <2> QED
    BY <1>2, <2>1, <2>2 DEF HandleObserve, TypeInv, TypeOK, ThreadsOK
<1>3. CASE ReceiveAnswer(r)
  <2>1. request' \in [Requests -> RequestAt]
    BY <1>3 DEF ReceiveAnswer, At, TypeInv, TypeOK, RequestAt
  <2> QED
    BY <1>3, <2>1 DEF ReceiveAnswer, TypeInv, TypeOK, ThreadsOK
<1>4. CASE ConnectClients
  <2>1. CASE ~Live(target[handler.req])
    BY <1>4, <2>1, MisuseType DEF ConnectClients
  <2>2. CASE Live(target[handler.req])
    <3>1. handler.req \in Requests
      BY <1>4 DEF ConnectClients, TypeInv, ThreadsOK
    <3>2. /\ request' \in [Requests -> RequestAt]
          /\ \/ handler' = [at |-> "idle", req |-> None]
             \/ handler' = [at |-> "start", req |-> handler.req]
      BY <1>4, <2>2, <3>1 DEF ConnectClients, At, TypeInv, TypeOK, RequestAt
    <3> QED
      BY <1>4, <2>2, <3>1, <3>2 DEF ConnectClients, TypeInv, TypeOK, ThreadsOK
  <2> QED
    BY <2>1, <2>2
<1>5. CASE SendStart
  <2>1. CASE ~Live(target[handler.req])
    BY <1>5, <2>1, MisuseType DEF SendStart
  <2>2. CASE Live(target[handler.req])
    <3>1. handler.req \in Requests
      BY <1>5 DEF SendStart, TypeInv, ThreadsOK
    <3>2. toBroadcaster' \in Seq(News)
      BY <1>5, <2>2, <3>1, TellType DEF SendStart, TypeInv
    <3> QED
      BY <1>5, <2>2, <3>2 DEF SendStart, TypeInv, TypeOK, ThreadsOK
  <2> QED
    BY <2>1, <2>2
<1> QED
  BY <1>1, <1>2, <1>3, <1>4, <1>5

\* The stage's other threads keep the types.
LEMMA StageType ==
  ASSUME TypeInv, NEW r \in Requests,
         SendListen(r) \/ CompleteConnection(r) \/ ListenTimesOut(r)
  PROVE  TypeInv'
<1> USE DEF stageVars, netVars, listenerVars, broadcasterVars
<1>1. CASE SendListen(r)
  <2>1. /\ request' \in [Requests -> RequestAt]
        /\ request[r] = "posted"
        /\ \A q \in Requests \ {r} : request'[q] = request[q]
    BY <1>1, AtType DEF SendListen, TypeInv, RequestAt
  <2>2. toListener' \in Seq(Requests)
    BY <1>1 DEF SendListen, TypeInv, TypeOK
  <2> QED
    BY <1>1, <2>1, <2>2 DEF SendListen, TypeInv, TypeOK, ThreadsOK
<1>2. CASE CompleteConnection(r)
  <2>1. CASE ~Live(target[r])
    BY <1>2, <2>1, MisuseType DEF CompleteConnection
  <2>2. CASE Live(target[r])
    <3>1. /\ request' \in [Requests -> RequestAt]
          /\ request[r] = "answered"
          /\ \A q \in Requests \ {r} : request'[q] = request[q]
      BY <1>2, <2>2, AtType DEF CompleteConnection, TypeInv, RequestAt
    <3>2. toBroadcaster' \in Seq(News)
      BY <1>2, <2>2, TellType DEF CompleteConnection, TypeInv
    <3> QED
      BY <1>2, <2>2, <3>1, <3>2
         DEF CompleteConnection, TypeInv, TypeOK, ThreadsOK
  <2> QED
    BY <2>1, <2>2
<1>3. CASE ListenTimesOut(r)
  <2>1. /\ request' \in [Requests -> RequestAt]
        /\ request[r] = "waiting"
        /\ \A q \in Requests \ {r} : request'[q] = request[q]
    BY <1>3, AtType DEF ListenTimesOut, TypeInv, RequestAt
  <2> QED
    BY <1>3, <2>1 DEF ListenTimesOut, TypeInv, TypeOK, ThreadsOK
<1> QED
  BY <1>1, <1>2, <1>3

\* A listener that comes or goes keeps the types.
LEMMA LifeType ==
  ASSUME TypeInv,
         ListenerLeaves \/ StageReaps \/ ListenerJoins \/ AnnounceJoin
  PROVE  TypeInv'
<1> USE DEF stageVars, netVars, listenerVars, broadcasterVars
<1>1. CASE ListenerLeaves
  <2>1. toBroadcaster' \in Seq(News)
    BY <1>1, TellType DEF ListenerLeaves, TypeInv
  <2>2. hearing' \in BOOLEAN
    BY <1>1 DEF ListenerLeaves
  <2>4. flight' \in 0..MaxFlight
    BY <1>1, HandshakeAssumption DEF ListenerLeaves
  <2>3. toListener' \in Seq(Requests)
    BY <1>1 DEF ListenerLeaves
  <2> QED
    BY <1>1, <2>1, <2>2, <2>3, <2>4
       DEF ListenerLeaves, TypeInv, TypeOK, ThreadsOK
<1>2. CASE StageReaps
  BY <1>2 DEF StageReaps, TypeInv, TypeOK, ThreadsOK
<1>3. CASE ListenerJoins
  <2>1. arriving' \in BOOLEAN
    BY <1>3 DEF ListenerJoins
  <2> QED
    BY <1>3, <2>1, HandshakeAssumption
       DEF ListenerJoins, TypeInv, TypeOK, ThreadsOK, Processes
<1>4. CASE AnnounceJoin
  <2>1. CASE life = "gone"
    BY <1>4, <2>1, MisuseType DEF AnnounceJoin
  <2>2. CASE life # "gone"
    <3>1. toBroadcaster' \in Seq(News)
      BY <1>4, <2>2, TellType DEF AnnounceJoin, TypeInv
    <3>2. arriving' \in BOOLEAN
      BY <1>4, <2>2 DEF AnnounceJoin
    <3> QED
      BY <1>4, <2>2, <3>1, <3>2 DEF AnnounceJoin, TypeInv, TypeOK, ThreadsOK
  <2> QED
    BY <2>1, <2>2
<1> QED
  BY <1>1, <1>2, <1>3, <1>4

\* The listener keeps the types.
LEMMA ListenerType ==
  ASSUME TypeInv, ListenerStep
  PROVE  TypeInv'
<1> USE DEF stageVars, netVars, listenerVars, broadcasterVars
<1>1. CASE HearListen
  <2>1. /\ pending' \in Requests \union {None}
        /\ toListener' \in Seq(Requests)
    BY <1>1, TailParts DEF HearListen, TypeInv, TypeOK
  <2>2. link' \in [Processes -> {"none", "connecting", "up"}]
    BY <1>1 DEF HearListen, TypeInv, TypeOK
  <2> QED
    BY <1>1, <2>1, <2>2 DEF HearListen, TypeInv, TypeOK, ThreadsOK
<1>2. CASE LinkUp
  BY <1>2 DEF LinkUp, TypeInv, TypeOK, ThreadsOK
<1>3. CASE HearHandshake
  <2>1. hearing' \in BOOLEAN
    BY <1>3 DEF HearHandshake, TypeInv, TypeOK
  <2>2. flight' \in 0..MaxFlight /\ toStage' \in SUBSET Requests
    BY <1>3, HandshakeAssumption DEF HearHandshake, TypeInv, TypeOK
  <2> QED
    BY <1>3, <2>1, <2>2 DEF HearHandshake, TypeInv, TypeOK, ThreadsOK
<1>4. CASE HandshakeErase
  <2>1. hearing' \in BOOLEAN
    BY <1>4 DEF HandshakeErase
  <2> QED
    BY <1>4, <2>1 DEF HandshakeErase, TypeInv, TypeOK, ThreadsOK
<1> QED
  BY <1>1, <1>2, <1>3, <1>4 DEF ListenerStep

\* The first message to the broadcaster.
LEMMA HearsType ==
  ASSUME TypeInv, NEW kind, Hears(kind)
  PROVE  /\ Tail(toBroadcaster) \in Seq(News)
         /\ kind \in {"start", "stop"} => Head(toBroadcaster).req \in Requests
<1>1. Head(toBroadcaster) \in News /\ Tail(toBroadcaster) \in Seq(News)
  BY TailParts DEF Hears, TypeInv, TypeOK
<1> QED
  BY <1>1 DEF Hears, News

\* Ending the waits on a timer keeps the types of the counters.
LEMMA EndWaitsType ==
  ASSUME TypeOK, NEW t \in Requests, EndWaits(t)
  PROVE  waits' \in [Requests -> Nat] /\ due' \in [Requests -> Nat]
BY DEF TypeOK, EndWaits

\* The broadcaster keeps the types.
LEMMA BroadcasterType ==
  ASSUME TypeInv, BroadcasterStep
  PROVE  TypeInv'
<1> USE DEF stageVars, netVars, listenerVars, broadcasterVars
<1>1. CASE HearStart
  <2>1. CASE known = "no"
    BY <1>1, <2>1, MisuseType DEF HearStart
  <2>2. CASE known # "no"
    <3>1. timer' \in Requests /\ toBroadcaster' \in Seq(News)
      BY <1>1, <2>2, HearsType DEF HearStart, TypeInv, TypeOK
    <3>2. waits' \in [Requests -> Nat]
      BY <1>1, <2>2, <3>1 DEF HearStart, TypeInv, TypeOK
    <3> QED
      BY <1>1, <2>2, <3>1, <3>2, HandshakeAssumption
         DEF HearStart, TypeInv, TypeOK, ThreadsOK
  <2> QED
    BY <2>1, <2>2
<1>2. CASE HearStop
  <2>1. CASE known = "no"
    BY <1>2, <2>1, MisuseType DEF HearStop
  <2>2. CASE known # "no"
    <3>1. toBroadcaster' \in Seq(News)
      BY <1>2, <2>2, HearsType DEF HearStop
    <3>2. waits' \in [Requests -> Nat] /\ due' \in [Requests -> Nat]
      <4>1. CASE timer = None
        BY <1>2, <2>2, <4>1 DEF HearStop, TypeInv, TypeOK
      <4>2. CASE timer # None
        BY <1>2, <2>2, <4>2, EndWaitsType DEF HearStop, TypeInv, TypeOK
      <4> QED
        BY <4>1, <4>2
    <3>3. stopping' \in BOOLEAN /\ (stopping' => timer # None)
      BY <1>2, <2>2 DEF HearStop, TypeInv, TypeOK, ThreadsOK
    <3> QED
      BY <1>2, <2>2, <3>1, <3>2, <3>3 DEF HearStop, TypeInv, TypeOK, ThreadsOK
  <2> QED
    BY <2>1, <2>2
<1>3. CASE StopErase
  <2>1. waits' \in [Requests -> Nat] /\ due' \in [Requests -> Nat]
    BY <1>3, EndWaitsType DEF StopErase, TypeInv, TypeOK, ThreadsOK
  <2>2. stopping' \in BOOLEAN /\ ~stopping'
    BY <1>3 DEF StopErase
  <2> QED
    <3>1. TypeOK'
      <4>1. /\ timer' = None
            /\ UNCHANGED <<stageVars, netVars, listenerVars, known, rearm, fault>>
        BY <1>3 DEF StopErase
      <4> QED
        BY <4>1, <2>1, <2>2, SMTT(40) DEF TypeInv, TypeOK
    <3>2. ThreadsOK'
      BY <1>3, <2>1, <2>2 DEF StopErase, TypeInv, ThreadsOK
    <3> QED
      BY <3>1, <3>2 DEF TypeInv
<1>4. CASE HearLeave
  BY <1>4, HearsType DEF HearLeave, TypeInv, TypeOK, ThreadsOK
<1>5. CASE Forget
  BY <1>5 DEF Forget, TypeInv, TypeOK, ThreadsOK
<1>6. CASE HearJoin
  BY <1>6, HearsType DEF HearJoin, TypeInv, TypeOK, ThreadsOK
<1>7. CASE TimerExpires
  <2>1. waits' \in [Requests -> Nat] /\ due' \in [Requests -> Nat]
    BY <1>7, EndWaitsType DEF TimerExpires, TypeInv, TypeOK
  <2> QED
    <3>1. TypeOK'
      <4>1. /\ timer' = timer /\ stopping' = stopping
            /\ UNCHANGED <<stageVars, netVars, listenerVars, known, rearm, fault>>
        BY <1>7 DEF TimerExpires
      <4> QED
        BY <4>1, <2>1, SMTT(40) DEF TypeInv, TypeOK
    <3>2. ThreadsOK'
      BY <1>7, <2>1 DEF TimerExpires, TypeInv, ThreadsOK
    <3> QED
      BY <3>1, <3>2 DEF TypeInv
<1>8. CASE \E t \in Requests : SendHandshake(t)
  <2>1. PICK t \in Requests : SendHandshake(t)
    BY <1>8
  <2>2. due' \in [Requests -> Nat] /\ flight' \in 0..MaxFlight
    BY <2>1, HandshakeAssumption DEF SendHandshake, TypeInv, TypeOK
  <2> QED
    BY <2>1, <2>2 DEF SendHandshake, TypeInv, TypeOK, ThreadsOK
<1>9. CASE LoopTimer
  <2>1. CASE timer # rearm
    BY <1>9, <2>1, MisuseType DEF LoopTimer
  <2>2. CASE timer = rearm
    <3>1. waits' \in [Requests -> Nat] /\ due' \in [Requests -> Nat]
      <4>1. waits \in [Requests -> Nat] /\ due \in [Requests -> Nat]
        BY DEF TypeInv, TypeOK
      <4>2. rearm \in Requests
        BY <1>9 DEF LoopTimer, TypeInv, TypeOK
      <4> QED
        BY <1>9, <2>2, <4>1, <4>2 DEF LoopTimer
    <3> QED
      BY <1>9, <2>2, <3>1 DEF LoopTimer, TypeInv, TypeOK, ThreadsOK
  <2> QED
    BY <2>1, <2>2
<1> QED
  BY <1>1, <1>2, <1>3, <1>4, <1>5, <1>6, <1>7, <1>8, <1>9
     DEF BroadcasterStep

\* The actions of the specification, by the thread that takes them.
LEMMA NextCases ==
  ASSUME Next
  PROVE  \/ \E r \in Requests : \/ HandleCable(r) \/ HandleObserve(r)
                                \/ ReceiveAnswer(r) \/ SendListen(r)
                                \/ CompleteConnection(r) \/ ListenTimesOut(r)
         \/ ConnectClients \/ SendStart
         \/ ListenerLeaves \/ StageReaps \/ ListenerJoins \/ AnnounceJoin
         \/ ListenerStep \/ BroadcasterStep \/ UNCHANGED vars
BY DEF Next, StageStep, Environment, Stopped

\* A step keeps the types.
LEMMA StepType ==
  ASSUME TypeInv, [Next]_vars
  PROVE  TypeInv'
<1>1. CASE UNCHANGED vars
  BY <1>1 DEF vars, stageVars, netVars, listenerVars, broadcasterVars,
              TypeInv, TypeOK, ThreadsOK
<1>2. CASE ~UNCHANGED vars
  <2>1. Next
    BY <1>2
  <2>2. CASE \E r \in Requests : \/ HandleCable(r) \/ HandleObserve(r)
                                 \/ ReceiveAnswer(r) \/ SendListen(r)
                                 \/ CompleteConnection(r) \/ ListenTimesOut(r)
    BY <2>2, HandlerType, StageType
  <2>3. CASE ConnectClients \/ SendStart
    <3>1. handler.req \in Requests
      BY <2>3 DEF ConnectClients, SendStart, TypeInv, ThreadsOK
    <3> QED
      BY <2>3, <3>1, HandlerType
  <2> QED
    BY <1>2, <2>1, <2>2, <2>3, NextCases, LifeType, ListenerType,
       BroadcasterType
<1> QED
  BY <1>1, <1>2

\* The specification is type correct: every variable of the stage, the
\* messages and both clients has its type in every reachable state.
THEOREM TypeCorrect == Spec => []TypeOK
<1>1. Init => TypeInv
  BY InitType
<1>2. TypeInv /\ [Next]_vars => TypeInv'
  BY StepType
<1>3. TypeInv => TypeOK
  BY DEF TypeInv
<1> QED
  BY <1>1, <1>2, <1>3, PTL DEF Spec

-----------------------------------------------------------------------------
(* What is confirmed was heard *)

Heard == LeftIsDeaf /\ ListenForPresent /\ HeardOverLink

\* The types the argument needs.
LEMMA SomeTypes ==
  ASSUME TypeInv
  PROVE  /\ process \in Processes
         /\ request \in [Requests -> RequestAt]
         /\ target \in [Requests -> Processes]
         /\ toListener \in Seq(Requests)
         /\ toStage \in SUBSET Requests
         /\ flight \in Nat
         /\ pending \in Requests \union {None}
         /\ link \in [Processes -> {"none", "connecting", "up"}]
BY HandshakeAssumption DEF TypeInv, TypeOK

\* Steps that only move requests on.
LEMMA MovesHeard ==
  ASSUME TypeInv, Heard,
         UNCHANGED <<process, life, toListener, pending, flight, hearing, link>>,
         toStage' \subseteq toStage,
         \A q \in Requests : Active(q) => Active(q)' /\ target'[q] = target[q],
         \A q \in Requests : request'[q] \in {"answered", "done"} =>
            /\ request[q] \in {"answered", "done"} \/ q \in toStage
            /\ target'[q] = target[q]
  PROVE  Heard'
<1>1. LeftIsDeaf'
  BY DEF Heard, LeftIsDeaf
<1>2. ListenForPresent'
  BY SomeTypes DEF Heard, ListenForPresent
<1>3. HeardOverLink'
  BY SomeTypes DEF Heard, HeardOverLink
<1> QED
  BY <1>1, <1>2, <1>3 DEF Heard

\* How each step of the stage moves requests.
LEMMA StageMoves ==
  ASSUME TypeInv, NEW r \in Requests,
         \/ HandleCable(r) \/ HandleObserve(r) \/ ReceiveAnswer(r)
         \/ CompleteConnection(r) \/ ListenTimesOut(r) \/ SendListen(r)
         \/ handler.req = r /\ ConnectClients
  PROVE  /\ \A q \in Requests : Active(q) =>
               Active(q)' /\ target'[q] = target[q]
         /\ \A q \in Requests : request'[q] \in {"answered", "done"} =>
               /\ request[q] \in {"answered", "done"} \/ q \in toStage
               /\ target'[q] = target[q]
         /\ UNCHANGED <<process, life, pending, flight, hearing, link>>
         /\ toStage' \subseteq toStage
         /\ ~SendListen(r) => toListener' = toListener
<1> USE DEF netVars, listenerVars
<1>1. CASE HandleCable(r)
  BY <1>1, SomeTypes DEF HandleCable, At, Active
<1>2. CASE HandleObserve(r)
  BY <1>2, SomeTypes DEF HandleObserve, At, Active
<1>3. CASE ReceiveAnswer(r)
  BY <1>3, SomeTypes DEF ReceiveAnswer, At, Active
<1>4. CASE CompleteConnection(r)
  <2>1. CASE ~Live(target[r])
    <3>1. UNCHANGED <<stageVars, netVars, listenerVars>>
      BY <1>4, <2>1 DEF CompleteConnection, Misuse
    <3> QED
      BY <3>1 DEF stageVars, Active
  <2>2. CASE Live(target[r])
    BY <1>4, <2>2, SomeTypes DEF CompleteConnection, At, Active
  <2> QED
    BY <2>1, <2>2
<1>5. CASE ListenTimesOut(r)
  BY <1>5, SomeTypes DEF ListenTimesOut, At, Active
<1>6. CASE SendListen(r)
  BY <1>6, SomeTypes DEF SendListen, At, Active
<1>7. CASE handler.req = r /\ ConnectClients
  <2>1. CASE ~Live(target[r])
    <3>1. UNCHANGED <<stageVars, netVars, listenerVars>>
      BY <1>7, <2>1 DEF ConnectClients, Misuse
    <3> QED
      BY <3>1 DEF stageVars, Active
  <2>2. CASE Live(target[r])
    <3>1. request[r] = "connecting"
      BY <1>7 DEF ConnectClients, TypeInv, ThreadsOK
    <3> QED
      BY <1>7, <2>2, <3>1, SomeTypes DEF ConnectClients, At, Active
  <2> QED
    BY <2>1, <2>2
<1> QED
  BY <1>1, <1>2, <1>3, <1>4, <1>5, <1>6, <1>7

\* The sending of a listen message.
LEMMA SendListenHeard ==
  ASSUME TypeInv, Heard, NEW r \in Requests, SendListen(r)
  PROVE  Heard'
<1>1. /\ \A q \in Requests : Active(q) => Active(q)' /\ target'[q] = target[q]
      /\ \A q \in Requests : request'[q] \in {"answered", "done"} =>
            /\ request[q] \in {"answered", "done"} \/ q \in toStage
            /\ target'[q] = target[q]
      /\ UNCHANGED <<process, life, pending, flight, hearing, link>>
      /\ toStage' \subseteq toStage
  BY StageMoves
<1>2. Active(r) /\ Active(r)' /\ target'[r] = target[r]
  BY <1>1 DEF SendListen, Active
<1>3. CASE process = target[r] /\ life = "joined"
  <2>1. toListener' = Append(toListener, r)
    BY <1>3 DEF SendListen
  <2>2. /\ Len(toListener') = Len(toListener) + 1
        /\ toListener'[Len(toListener) + 1] = r
        /\ \A i \in 1..Len(toListener) : toListener'[i] = toListener[i]
        /\ \A i \in 1..Len(toListener) : toListener[i] \in Requests
        /\ Len(toListener) \in Nat
    BY <2>1, AppendParts, SomeTypes
  <2>3. \A i \in 1..Len(toListener') :
          /\ request'[toListener'[i]] \notin {"new", "refused"}
          /\ target'[toListener'[i]] = process
    <3> SUFFICES ASSUME NEW i \in 1..Len(toListener')
                 PROVE  /\ request'[toListener'[i]] \notin {"new", "refused"}
                        /\ target'[toListener'[i]] = process
      OBVIOUS
    <3>1. CASE i = Len(toListener) + 1
      BY <1>2, <1>3, <2>2, <3>1 DEF Active
    <3>2. CASE i \in 1..Len(toListener)
      BY <1>1, <2>2, <3>2 DEF Active, Heard, ListenForPresent
    <3> QED
      BY <2>2, <3>1, <3>2
  <2>4. LeftIsDeaf'
    BY <1>1, <1>3 DEF LeftIsDeaf
  <2>5. ListenForPresent'
    BY <1>1, <2>3, SomeTypes DEF Heard, ListenForPresent, Active
  <2>6. HeardOverLink'
    BY <1>1, SomeTypes DEF Heard, HeardOverLink
  <2> QED
    BY <2>4, <2>5, <2>6 DEF Heard
<1>4. CASE ~(process = target[r] /\ life = "joined")
  <2>1. toListener' = toListener
    BY <1>4 DEF SendListen
  <2> QED
    BY <1>1, <2>1, MovesHeard
<1> QED
  BY <1>3, <1>4

\* A listener that comes or goes.
LEMMA LifeHeard ==
  ASSUME TypeInv, Heard, ListenerLeaves \/ StageReaps \/ ListenerJoins
  PROVE  Heard'
<1> USE DEF netVars, listenerVars
<1>1. CASE ListenerLeaves
  <2>1. /\ toListener' = <<>> /\ pending' = None /\ flight' = 0
        /\ UNCHANGED <<request, target, toStage, link>>
    BY <1>1 DEF ListenerLeaves
  <2>2. ~hearing'
    BY <1>1 DEF ListenerLeaves
  <2> QED
    BY <2>1, <2>2, SomeTypes
       DEF Heard, LeftIsDeaf, ListenForPresent, HeardOverLink, Active
<1>2. CASE StageReaps
  <2>1. /\ life = "leaving" /\ life' = "gone"
        /\ UNCHANGED <<process, request, target, toListener, toStage, flight,
                       pending, link, hearing>>
    BY <1>2 DEF StageReaps
  <2> QED
    BY <2>1 DEF Heard, LeftIsDeaf, ListenForPresent, HeardOverLink, Active
<1>3. CASE ListenerJoins
  <2>1. /\ life = "gone" /\ life' = "joined"
        /\ UNCHANGED <<request, target, toListener, toStage, flight,
                       pending, link, hearing>>
    BY <1>3 DEF ListenerJoins
  <2>2. toListener = <<>> /\ pending = None /\ flight = 0
    BY <2>1 DEF Heard, LeftIsDeaf
  <2> QED
    BY <2>1, <2>2 DEF Heard, LeftIsDeaf, ListenForPresent, HeardOverLink, Active
<1> QED
  BY <1>1, <1>2, <1>3

\* The listener's own steps.
LEMMA ListenerHeard ==
  ASSUME TypeInv, Heard, ListenerStep
  PROVE  Heard'
<1> USE DEF stageVars, netVars, listenerVars
<1>1. CASE HearListen
  <2>1. /\ UNCHANGED <<process, life, request, target, toStage, flight>>
        /\ pending' = Head(toListener)
        /\ toListener' = Tail(toListener)
        /\ toListener # <<>>
        /\ hearing' = hearing
    BY <1>1 DEF HearListen
  <2>2. /\ Head(toListener) \in Requests
        /\ Head(toListener) = toListener[1]
        /\ Len(toListener') = Len(toListener) - 1
        /\ Len(toListener) \in Nat \ {0}
        /\ \A i \in 1..Len(toListener') : toListener'[i] = toListener[i + 1]
    BY <2>1, TailParts, SomeTypes
  <2>3. \A p \in Processes : link[p] = "up" => link'[p] = "up"
    BY <1>1, SomeTypes DEF HearListen
  <2>4. LeftIsDeaf'
    BY <2>1 DEF Heard, LeftIsDeaf
  <2>5. ListenForPresent'
    BY <2>1, <2>2 DEF Heard, ListenForPresent, Active
  <2>6. HeardOverLink'
    BY <2>1, <2>3, SomeTypes DEF Heard, HeardOverLink, Active
  <2> QED
    BY <2>4, <2>5, <2>6 DEF Heard
<1>2. CASE LinkUp
  <2>1. UNCHANGED <<process, life, request, target, toListener, toStage,
                    flight, pending, hearing>>
    BY <1>2 DEF LinkUp
  <2>2. \A p \in Processes : link[p] = "up" => link'[p] = "up"
    BY <1>2, SomeTypes DEF LinkUp
  <2> QED
    BY <2>1, <2>2, SomeTypes
       DEF Heard, LeftIsDeaf, ListenForPresent, HeardOverLink, Active
<1>3. CASE HearHandshake
  <2>1. /\ UNCHANGED <<process, life, request, target, toListener, pending,
                       link>>
        /\ flight > 0
        /\ flight' = flight - 1
        /\ toStage' = toStage \/ (pending # None
                                    /\ toStage' = toStage \union {pending})
    BY <1>3 DEF HearHandshake
  <2>2. life = "joined"
    BY <2>1, SomeTypes DEF Heard, LeftIsDeaf
  <2>3. LeftIsDeaf'
    BY <2>1, <2>2 DEF LeftIsDeaf
  <2>4. ListenForPresent'
    BY <2>1 DEF Heard, ListenForPresent, Active
  <2>5. HeardOverLink'
    BY <2>1, SomeTypes DEF Heard, ListenForPresent, HeardOverLink, Active
  <2> QED
    BY <2>3, <2>4, <2>5 DEF Heard
<1>4. CASE HandshakeErase
  <2>1. /\ UNCHANGED <<process, life, request, target, toListener, toStage,
                       flight, link>>
        /\ pending' = None
    BY <1>4 DEF HandshakeErase
  <2>2. ~hearing'
    BY <1>4 DEF HandshakeErase
  <2> QED
    BY <2>1, <2>2
       DEF Heard, LeftIsDeaf, ListenForPresent, HeardOverLink, Active
<1> QED
  BY <1>1, <1>2, <1>3, <1>4 DEF ListenerStep

\* The broadcaster's steps can only add a handshake message.
LEMMA BroadcasterQuiet ==
  ASSUME TypeInv, BroadcasterStep
  PROVE  /\ UNCHANGED <<process, life, request, target, toListener, toStage,
                        pending, link, hearing>>
         /\ flight' # flight => life = "joined" /\ link[process] = "up"
<1> USE DEF stageVars, netVars, listenerVars
<1>1. CASE HearStart \/ HearStop \/ LoopTimer
  BY <1>1 DEF HearStart, HearStop, LoopTimer, Misuse
<1>2. CASE StopErase \/ HearLeave \/ Forget \/ HearJoin \/ TimerExpires
  BY <1>2 DEF StopErase, HearLeave, Forget, HearJoin, TimerExpires
<1>3. CASE \E t \in Requests : SendHandshake(t)
  BY <1>3 DEF SendHandshake
<1> QED
  BY <1>1, <1>2, <1>3 DEF BroadcasterStep

\* What is sent to the broadcaster touches nothing the listener has.
LEMMA StartQuiet ==
  ASSUME SendStart \/ AnnounceJoin
  PROVE  UNCHANGED <<process, life, request, target, toListener, toStage,
                     pending, link, hearing, flight>>
BY DEF SendStart, AnnounceJoin, Misuse, stageVars, netVars, listenerVars

\* A step keeps HeardInv.
LEMMA StepHeard ==
  ASSUME HeardInv, [Next]_vars
  PROVE  HeardInv'
<1>1. TypeInv /\ Heard
  BY DEF HeardInv, Heard
<1>2. TypeInv'
  BY <1>1, StepType
<1>3. SUFFICES Heard'
  BY <1>2 DEF HeardInv, Heard
<1>4. CASE UNCHANGED vars \/ SendStart \/ AnnounceJoin
  <2>1. UNCHANGED <<process, life, request, target, toListener, toStage,
                    pending, link, hearing, flight>>
    BY <1>4, StartQuiet DEF vars, stageVars, netVars, listenerVars
  <2> QED
    BY <1>1, <2>1
       DEF Heard, LeftIsDeaf, ListenForPresent, HeardOverLink, Active
<1>5. CASE \E r \in Requests : \/ HandleCable(r) \/ HandleObserve(r)
                               \/ ReceiveAnswer(r) \/ SendListen(r)
                               \/ CompleteConnection(r) \/ ListenTimesOut(r)
  <2>1. PICK r \in Requests : \/ HandleCable(r) \/ HandleObserve(r)
                              \/ ReceiveAnswer(r) \/ SendListen(r)
                              \/ CompleteConnection(r) \/ ListenTimesOut(r)
    BY <1>5
  <2>2. CASE SendListen(r)
    BY <1>1, <2>2, SendListenHeard
  <2>3. CASE ~SendListen(r)
    BY <1>1, <2>1, <2>3, StageMoves, MovesHeard
  <2> QED
    BY <2>2, <2>3
<1>6. CASE ConnectClients
  <2>1. handler.req \in Requests
    BY <1>1, <1>6 DEF ConnectClients, TypeInv, ThreadsOK
  <2>2. ~SendListen(handler.req)
    <3>1. request[handler.req] = "connecting"
      BY <1>1, <1>6 DEF ConnectClients, TypeInv, ThreadsOK
    <3> QED
      BY <3>1 DEF SendListen
  <2> QED
    BY <1>1, <1>6, <2>1, <2>2, StageMoves, MovesHeard
<1>7. CASE ListenerLeaves \/ StageReaps \/ ListenerJoins
  BY <1>1, <1>7, LifeHeard
<1>8. CASE ListenerStep
  BY <1>1, <1>8, ListenerHeard
<1>9. CASE BroadcasterStep
  BY <1>1, <1>9, BroadcasterQuiet, SomeTypes
     DEF Heard, LeftIsDeaf, ListenForPresent, HeardOverLink, Active
<1> QED
  BY <1>4, <1>5, <1>6, <1>7, <1>8, <1>9, NextCases

\* The initial state satisfies HeardInv.
LEMMA InitHeard == Init => HeardInv
<1> SUFFICES ASSUME Init PROVE HeardInv
  OBVIOUS
<1>1. TypeInv
  BY InitType
<1>2. /\ life = "joined" /\ toListener = <<>> /\ pending = None
      /\ flight = 0 /\ toStage = {}
      /\ request = [r \in Requests |-> "new"]
  BY DEF Init
<1> QED
  BY <1>1, <1>2
     DEF HeardInv, LeftIsDeaf, ListenForPresent, HeardOverLink, Active

\* A request is confirmed only when the process it was made for has been
\* connected to the broadcaster: the stage's answer rests on a handshake the
\* listener has heard.
THEOREM Confirmation == Spec => []ConfirmedIsHeard
<1>1. Init => HeardInv
  BY InitHeard
<1>2. HeardInv /\ [Next]_vars => HeardInv'
  BY StepHeard
<1>3. HeardInv => ConfirmedIsHeard
  BY DEF HeardInv, HeardOverLink, ConfirmedIsHeard
<1> QED
  BY <1>1, <1>2, <1>3, PTL DEF Spec
-----------------------------------------------------------------------------
(* The broadcast goes on *)

\* The types the broadcaster's timers have.
LEMMA TimerTypes ==
  ASSUME TypeInv
  PROVE  /\ timer \in Requests \union {None}
         /\ rearm \in Requests \union {None}
         /\ None \notin Requests
         /\ waits \in [Requests -> Nat]
         /\ due \in [Requests -> Nat]
BY HandshakeAssumption DEF TypeInv, TypeOK

\* Ending the waits of a timer makes their handlers due.
LEMMA EndWaitsGoesOn ==
  ASSUME TypeInv, NEW t \in Requests, EndWaits(t), waits[t] > 0 \/ due[t] > 0
  PROVE  due'[t] > 0
BY TimerTypes DEF EndWaits

\* The broadcaster's stage transport keeps the broadcast going.
LEMMA MessagesGoOn ==
  ASSUME TypeInv, BroadcastGoesOn,
         \/ HearStart \/ HearStop \/ StopErase
         \/ HearLeave \/ Forget \/ HearJoin
  PROVE  BroadcastGoesOn'
<1> USE DEF broadcasterVars
<1>1. CASE HearStart
  <2>1. CASE known = "no"
    BY <1>1, <2>1 DEF HearStart, Misuse, BroadcastGoesOn
  <2>2. CASE known # "no"
    <3>1. Head(toBroadcaster).req \in Requests
      BY <1>1, HearsType DEF HearStart
    <3>2. /\ timer' \in Requests
          /\ waits' = [waits EXCEPT ![timer'] = @ + 1]
      BY <1>1, <2>2, <3>1, TimerTypes DEF HearStart
    <3>3. waits'[timer'] > 0
      BY <3>2, TimerTypes
    <3> QED
      BY <3>3 DEF BroadcastGoesOn
  <2> QED
    BY <2>1, <2>2
<1>2. CASE HearStop
  <2>1. CASE known = "no"
    BY <1>2, <2>1 DEF HearStop, Misuse, BroadcastGoesOn
  <2>2. CASE known # "no" /\ timer = None
    BY <1>2, <2>2 DEF HearStop, BroadcastGoesOn
  <2>3. CASE known # "no" /\ timer # None
    BY <1>2, <2>3 DEF HearStop, BroadcastGoesOn
  <2> QED
    BY <2>1, <2>2, <2>3
<1>3. CASE StopErase
  BY <1>3 DEF StopErase, BroadcastGoesOn
<1>4. CASE HearLeave
  BY <1>4 DEF HearLeave, BroadcastGoesOn
<1>5. CASE Forget
  BY <1>5 DEF Forget, BroadcastGoesOn
<1>6. CASE HearJoin
  BY <1>6 DEF HearJoin, BroadcastGoesOn
<1> QED
  BY <1>1, <1>2, <1>3, <1>4, <1>5, <1>6

\* The timer thread keeps the broadcast going.
LEMMA TimerGoesOn ==
  ASSUME TypeInv, BroadcastGoesOn,
         \/ TimerExpires \/ LoopTimer
         \/ \E t \in Requests : SendHandshake(t)
  PROVE  BroadcastGoesOn'
<1>1. CASE TimerExpires
  <2>1. timer \in Requests /\ timer' = timer /\ waits[timer] > 0
    BY <1>1, TimerTypes DEF TimerExpires
  <2>2. due'[timer] > 0
    BY <1>1, <2>1, EndWaitsGoesOn DEF TimerExpires
  <2> QED
    BY <2>1, <2>2 DEF BroadcastGoesOn
<1>2. CASE LoopTimer
  <2>1. CASE timer # rearm
    BY <1>2, <2>1 DEF LoopTimer, Misuse, BroadcastGoesOn, broadcasterVars
  <2>2. CASE timer = rearm
    <3>1. /\ rearm \in Requests /\ timer' = rearm
          /\ waits' = [waits EXCEPT ![rearm] = 1]
      BY <1>2, <2>2, TimerTypes DEF LoopTimer
    <3>2. waits'[timer'] > 0
      BY <3>1, TimerTypes
    <3> QED
      BY <3>2 DEF BroadcastGoesOn
  <2> QED
    BY <2>1, <2>2
<1>3. CASE \E t \in Requests : SendHandshake(t)
  <2>1. PICK t \in Requests : SendHandshake(t)
    BY <1>3
  <2>2. /\ rearm = None /\ timer' = timer /\ waits' = waits
        /\ stopping' = stopping
        /\ due' = [due EXCEPT ![t] = @ - 1]
        /\ timer # None => rearm' = t
    BY <2>1 DEF SendHandshake
  <2>3. CASE timer = t
    BY <2>2, <2>3, TimerTypes DEF BroadcastGoesOn
  <2>4. CASE timer # t
    <3>1. timer # None => due'[timer] = due[timer]
      BY <2>2, <2>4, TimerTypes
    <3> QED
      BY <2>2, <3>1, TimerTypes DEF BroadcastGoesOn
  <2> QED
    BY <2>3, <2>4
<1> QED
  BY <1>1, <1>2, <1>3

\* The stage and the listener leave the broadcaster's timers alone.
LEMMA ElsewhereQuiet ==
  ASSUME TypeInv,
         \/ \E r \in Requests : \/ HandleCable(r) \/ HandleObserve(r)
                                \/ ReceiveAnswer(r) \/ SendListen(r)
                                \/ CompleteConnection(r) \/ ListenTimesOut(r)
         \/ ConnectClients \/ SendStart
         \/ ListenerLeaves \/ StageReaps \/ ListenerJoins \/ AnnounceJoin
         \/ ListenerStep \/ UNCHANGED vars
  PROVE  UNCHANGED broadcasterVars
<1>1. CASE \E r \in Requests : \/ HandleCable(r) \/ HandleObserve(r)
                               \/ ReceiveAnswer(r) \/ SendListen(r)
                               \/ CompleteConnection(r) \/ ListenTimesOut(r)
  BY <1>1 DEF HandleCable, HandleObserve, ReceiveAnswer, SendListen,
              CompleteConnection, ListenTimesOut, Misuse
<1>2. CASE ConnectClients \/ SendStart \/ AnnounceJoin
  BY <1>2 DEF ConnectClients, SendStart, AnnounceJoin, Misuse
<1>3. CASE ListenerLeaves \/ StageReaps \/ ListenerJoins
  BY <1>3 DEF ListenerLeaves, StageReaps, ListenerJoins
<1>4. CASE ListenerStep
  BY <1>4 DEF ListenerStep, HearListen, LinkUp, HearHandshake, HandshakeErase
<1>5. CASE UNCHANGED vars
  BY <1>5 DEF vars
<1> QED
  BY <1>1, <1>2, <1>3, <1>4, <1>5

\* A timer in the broadcaster's map always has a wait, a due handler or a
\* handler about to set it again, so the handshake is repeated until a stop
\* message erases the timer.
THEOREM Broadcasting == Spec => []BroadcastGoesOn
<1>1. Init => BroadcastInv
  <2>1. Init => BroadcastGoesOn
    BY DEF Init, BroadcastGoesOn
  <2> QED
    BY <2>1, InitType DEF BroadcastInv
<1>2. BroadcastInv /\ [Next]_vars => BroadcastInv'
  <2> SUFFICES ASSUME BroadcastInv, [Next]_vars PROVE BroadcastInv'
    OBVIOUS
  <2>1. TypeInv /\ BroadcastGoesOn /\ TypeInv'
    BY StepType DEF BroadcastInv
  <2>2. CASE BroadcasterStep
    BY <2>1, <2>2, MessagesGoOn, TimerGoesOn DEF BroadcasterStep, BroadcastInv
  <2>3. CASE UNCHANGED broadcasterVars
    BY <2>1, <2>3 DEF BroadcastInv, BroadcastGoesOn, broadcasterVars
  <2> QED
    BY <2>1, <2>2, <2>3, NextCases, ElsewhereQuiet
<1>3. BroadcastInv => BroadcastGoesOn
  BY DEF BroadcastInv
<1> QED
  BY <1>1, <1>2, <1>3, PTL DEF Spec
-----------------------------------------------------------------------------
(* Listen messages are not forgotten *)

\* A request that is alone after a step of the stage was alone before it, and
\* the step was about it or left it where it was.
LEMMA StageAlone ==
  ASSUME TypeInv, NEW q \in Requests,
         \/ HandleCable(q) \/ HandleObserve(q) \/ ReceiveAnswer(q)
         \/ CompleteConnection(q) \/ ListenTimesOut(q) \/ SendListen(q)
         \/ handler.req = q /\ ConnectClients,
         NEW r \in Requests, Alone(r)'
  PROVE  Alone(r)
BY StageMoves DEF Alone

\* A step of the event thread keeps r in order.
LEMMA HandlerOrdered ==
  ASSUME ListenInv, NEW q \in Requests,
         \/ HandleCable(q) \/ HandleObserve(q)
         \/ handler.req = q /\ ConnectClients,
         NEW r \in Requests, Alone(r)'
  PROVE  Ordered(r)'
<1>1. TypeInv /\ Alone(r) /\ Ordered(r)
  BY StageAlone DEF ListenInv, HeardInv
<1>2. /\ UNCHANGED <<process, life, toListener, pending, toStage, hearing>>
      /\ \/ request'[r] = request[r] /\ target'[r] = target[r]
         \/ /\ request[r] \in {"new", "connecting"}
            /\ request'[r] \in {"refused", "connecting", "posted", "silent"}
  <2> USE DEF netVars, listenerVars
  <2>1. CASE HandleCable(q)
    BY <1>1, <2>1, SomeTypes DEF HandleCable, At
  <2>2. CASE HandleObserve(q)
    BY <1>1, <2>2, SomeTypes DEF HandleObserve, At
  <2>3. CASE handler.req = q /\ ConnectClients
    <3>1. CASE ~Live(target[q])
      BY <2>3, <3>1 DEF ConnectClients, Misuse, stageVars
    <3>2. CASE Live(target[q])
      <4>1. request[q] = "connecting"
        BY <1>1, <2>3 DEF ConnectClients, TypeInv, ThreadsOK
      <4> QED
        BY <1>1, <2>3, <3>2, <4>1, SomeTypes DEF ConnectClients, At
    <3> QED
      BY <3>1, <3>2
  <2> QED
    BY <2>1, <2>2, <2>3
<1> QED
  BY <1>1, <1>2 DEF Ordered

\* An answer, a completed handshake or a timeout keeps r in order.
LEMMA AnswerOrdered ==
  ASSUME ListenInv, NEW q \in Requests,
         ReceiveAnswer(q) \/ CompleteConnection(q) \/ ListenTimesOut(q),
         NEW r \in Requests, Alone(r)'
  PROVE  Ordered(r)'
<1>1. TypeInv /\ Alone(r) /\ Ordered(r) /\ HeardOverLink
  BY StageAlone DEF ListenInv, HeardInv
<1> USE DEF netVars, listenerVars
<1>2. CASE ReceiveAnswer(q)
  <2>1. q = r
    BY <1>1, <1>2 DEF ReceiveAnswer, HeardOverLink, Alone
  <2>2. /\ UNCHANGED <<process, life, target, toListener, pending, hearing>>
        /\ request'[r] # "waiting"
        /\ request'[r] = request[r] \/ request'[r] = "answered"
    BY <1>1, <1>2, <2>1, SomeTypes DEF ReceiveAnswer, At
  <2> QED
    BY <1>1, <2>2 DEF Ordered
<1>3. CASE CompleteConnection(q)
  <2>1. /\ UNCHANGED <<process, life, target, toListener, toStage, pending,
                       hearing>>
        /\ request'[r] = request[r] \/ request'[r] = "done"
    <3>1. CASE ~Live(target[q])
      BY <1>3, <3>1 DEF CompleteConnection, Misuse, stageVars
    <3>2. CASE Live(target[q])
      BY <1>1, <1>3, <3>2, SomeTypes DEF CompleteConnection, At
    <3> QED
      BY <3>1, <3>2
  <2> QED
    BY <1>1, <2>1 DEF Ordered
<1>4. CASE ListenTimesOut(q)
  <2>1. /\ UNCHANGED <<process, life, target, toListener, toStage, pending,
                       hearing>>
        /\ request'[r] = request[r] \/ request'[r] = "failed"
    BY <1>1, <1>4, SomeTypes DEF ListenTimesOut, At
  <2> QED
    BY <1>1, <2>1 DEF Ordered
<1> QED
  BY <1>2, <1>3, <1>4

\* Sending the listen message keeps r in order.
LEMMA SendOrdered ==
  ASSUME ListenInv, NEW q \in Requests, SendListen(q),
         NEW r \in Requests, Alone(r)'
  PROVE  Ordered(r)'
<1>1. TypeInv /\ Alone(r) /\ Ordered(r)
  BY StageAlone DEF ListenInv, HeardInv
<1>2. q = r
  BY <1>1 DEF SendListen, Alone, Active
<1>3. toListener = <<>> /\ pending = None /\ ~hearing
  BY <1>1, <1>2 DEF SendListen, Ordered
<1>4. /\ UNCHANGED <<process, life, target, toStage, pending, hearing>>
      /\ request'[r] = "waiting"
      /\ toListener' = IF process = target[r] /\ life = "joined"
                       THEN <<r>> ELSE <<>>
  BY <1>1, <1>2, <1>3, SomeTypes DEF SendListen, At, listenerVars
<1> QED
  BY <1>3, <1>4 DEF Ordered

\* A listener that comes or goes keeps r in order.
LEMMA LifeOrdered ==
  ASSUME ListenInv, ListenerLeaves \/ StageReaps \/ ListenerJoins,
         NEW r \in Requests, Alone(r)'
  PROVE  Ordered(r)'
<1> USE DEF netVars, listenerVars
<1>1. UNCHANGED <<request, target>>
  BY DEF ListenerLeaves, StageReaps, ListenerJoins
<1>2. TypeInv /\ Alone(r) /\ Ordered(r) /\ LeftIsDeaf
  BY <1>1 DEF ListenInv, HeardInv, Alone, Active
<1>3. CASE ListenerLeaves
  <2>1. toListener' = <<>> /\ pending' = None /\ life' = "leaving"
    BY <1>3 DEF ListenerLeaves
  <2>2. ~hearing'
    BY <1>3 DEF ListenerLeaves
  <2> QED
    BY <2>1, <2>2 DEF Ordered
<1>4. CASE StageReaps
  <2>1. /\ UNCHANGED <<toListener, toStage, pending, hearing>>
        /\ life' = "gone"
    BY <1>4 DEF StageReaps
  <2> QED
    BY <1>1, <1>2, <2>1 DEF Ordered
<1>5. CASE ListenerJoins
  <2>1. /\ UNCHANGED <<toListener, toStage, pending, hearing>>
        /\ process' = process + 1
    BY <1>5 DEF ListenerJoins
  <2>2. process' # target'[r]
    BY <1>1, <1>2, <2>1, SomeTypes DEF ListenInv, Processes
  <2> QED
    BY <1>1, <1>2, <2>1, <2>2 DEF Ordered
<1> QED
  BY <1>3, <1>4, <1>5

\* The listener's own steps keep r in order.
LEMMA ListenerOrdered ==
  ASSUME ListenInv, ListenerStep, NEW r \in Requests, Alone(r)'
  PROVE  Ordered(r)'
<1> USE DEF stageVars, netVars, listenerVars
<1>1. UNCHANGED <<process, life, request, target>>
  BY DEF ListenerStep, HearListen, LinkUp, HearHandshake, HandshakeErase
<1>2. TypeInv /\ Alone(r) /\ Ordered(r) /\ ListenForPresent
  BY <1>1 DEF ListenInv, HeardInv, Alone, Active
<1>3. pending # None => pending = r
  BY <1>2, SomeTypes DEF ListenForPresent, Alone
<1>4. CASE HearListen
  <2>1. toListener = <<r>> /\ pending = None /\ ~hearing
    BY <1>2, <1>4 DEF HearListen, Ordered
  <2>2. /\ toListener' = <<>> /\ pending' = r
        /\ UNCHANGED <<toStage, hearing>>
    BY <1>4, <2>1 DEF HearListen
  <2>3. request[r] \notin {"new", "refused", "connecting", "posted"}
    BY <1>2, <2>1 DEF Ordered
  <2> QED
    BY <1>1, <2>1, <2>2, <2>3 DEF Ordered
<1>5. CASE LinkUp
  <2>1. UNCHANGED <<toListener, toStage, pending, hearing>>
    BY <1>5 DEF LinkUp
  <2> QED
    BY <1>1, <1>2, <2>1 DEF Ordered
<1>6. CASE HearHandshake
  <2>1. CASE pending = None
    <3>1. UNCHANGED <<toListener, toStage, pending, hearing>>
      BY <1>6, <2>1 DEF HearHandshake
    <3> QED
      BY <1>1, <1>2, <3>1 DEF Ordered
  <2>2. CASE pending # None
    <3>1. /\ r \in toStage'
          /\ UNCHANGED <<toListener, pending>>
      BY <1>3, <1>6, <2>2 DEF HearHandshake
    <3> QED
      BY <1>1, <1>2, <2>2, <3>1 DEF Ordered
  <2> QED
    BY <2>1, <2>2
<1>7. CASE HandshakeErase
  <2>1. /\ UNCHANGED <<toListener, toStage>>
        /\ pending' = None
    BY <1>7 DEF HandshakeErase
  <2>2. hearing /\ ~hearing'
    BY <1>7 DEF HandshakeErase
  <2> QED
    BY <1>1, <1>2, <2>1, <2>2 DEF Ordered
<1> QED
  BY <1>4, <1>5, <1>6, <1>7 DEF ListenerStep

\* A step keeps requests that are alone in order.
LEMMA StepOrdered ==
  ASSUME ListenInv, [Next]_vars, NEW r \in Requests, Alone(r)'
  PROVE  Ordered(r)'
<1>1. TypeInv
  BY DEF ListenInv, HeardInv
<1>2. CASE UNCHANGED <<process, life, request, target, toListener, toStage,
                       pending, hearing>>
  BY <1>2 DEF ListenInv, Ordered, Alone, Active
<1>3. CASE \E q \in Requests : \/ HandleCable(q) \/ HandleObserve(q)
                               \/ ReceiveAnswer(q) \/ SendListen(q)
                               \/ CompleteConnection(q) \/ ListenTimesOut(q)
  BY <1>3, HandlerOrdered, AnswerOrdered, SendOrdered
<1>4. CASE ConnectClients
  <2>1. handler.req \in Requests
    BY <1>1, <1>4 DEF ConnectClients, TypeInv, ThreadsOK
  <2> QED
    BY <1>4, <2>1, HandlerOrdered
<1>5. CASE ListenerLeaves \/ StageReaps \/ ListenerJoins
  BY <1>5, LifeOrdered
<1>6. CASE ListenerStep
  BY <1>6, ListenerOrdered
<1>7. CASE SendStart \/ AnnounceJoin
  BY <1>2, <1>7, StartQuiet
<1>8. CASE BroadcasterStep
  BY <1>1, <1>2, <1>8, BroadcasterQuiet
<1>9. CASE UNCHANGED vars
  BY <1>2, <1>9 DEF vars, stageVars, netVars, listenerVars
<1> QED
  BY <1>3, <1>4, <1>5, <1>6, <1>7, <1>8, <1>9, NextCases

\* A step keeps every request pointing to a process that has joined.
LEMMA StepTargets ==
  ASSUME ListenInv, [Next]_vars, NEW r \in Requests
  PROVE  target'[r] <= process'
<1>1. TypeInv /\ target[r] <= process /\ process \in Nat /\ target[r] \in Nat
  BY SomeTypes DEF ListenInv, HeardInv, Processes
<1>2. \/ UNCHANGED <<process, target>>
      \/ target' = target /\ process' = process + 1
      \/ \E q \in Requests : /\ target' = [target EXCEPT ![q] = process]
                             /\ process' = process
  <2>1. CASE \E q \in Requests : HandleCable(q) \/ HandleObserve(q)
    BY <2>1 DEF HandleCable, HandleObserve
  <2>2. CASE \E q \in Requests : \/ ReceiveAnswer(q) \/ SendListen(q)
                                 \/ CompleteConnection(q) \/ ListenTimesOut(q)
    BY <2>2 DEF ReceiveAnswer, SendListen, CompleteConnection, ListenTimesOut,
                Misuse, stageVars
  <2>3. CASE ConnectClients
    BY <2>3 DEF ConnectClients, Misuse, stageVars
  <2>4. CASE ListenerLeaves \/ StageReaps \/ ListenerJoins
    BY <2>4 DEF ListenerLeaves, StageReaps, ListenerJoins
  <2>5. CASE ListenerStep
    BY <2>5 DEF ListenerStep, HearListen, LinkUp, HearHandshake,
                HandshakeErase, stageVars
  <2>6. CASE SendStart \/ AnnounceJoin
    BY <2>6, StartQuiet
  <2>7. CASE BroadcasterStep
    BY <1>1, <2>7, BroadcasterQuiet
  <2>8. CASE UNCHANGED vars
    BY <2>8 DEF vars, stageVars
  <2> QED
    BY <2>1, <2>2, <2>3, <2>4, <2>5, <2>6, <2>7, <2>8, NextCases
<1> QED
  BY <1>1, <1>2, SomeTypes

\* While the listener stays, a listen message that waits for its answer is on
\* its way, pending at the listener or answered, unless another request of the
\* pair was taken up.
THEOREM ListenKept == Spec => []ListenNotForgotten
<1>1. Init => ListenInv
  <2> SUFFICES ASSUME Init PROVE ListenInv
    OBVIOUS
  <2>1. \A r \in Requests : target[r] <= process
    <3>1. process = 1 /\ target = [r \in Requests |-> 1]
      BY DEF Init
    <3>2. \A r \in Requests : target[r] = process
      BY <3>1
    <3>3. process <= process
      BY <3>1
    <3> QED
      BY <3>2, <3>3, Zenon
  <2>2. \A r \in Requests : Ordered(r)
    BY DEF Init, Ordered
  <2> QED
    BY <2>1, <2>2, InitHeard DEF ListenInv
<1>2. ListenInv /\ [Next]_vars => ListenInv'
  <2> SUFFICES ASSUME ListenInv, [Next]_vars PROVE ListenInv'
    OBVIOUS
  <2>1. HeardInv'
    BY StepHeard DEF ListenInv
  <2> QED
    BY <2>1, StepOrdered, StepTargets DEF ListenInv
<1>3. ListenInv => ListenNotForgotten
  <2> SUFFICES ASSUME ListenInv, NEW r \in Requests,
                      request[r] = "waiting",
                      process = target[r], life = "joined", Alone(r)
               PROVE  \/ \E i \in 1..Len(toListener) : toListener[i] = r
                      \/ pending = r
                      \/ r \in toStage
    BY DEF ListenNotForgotten, Alone, Active
  <2>1. toListener = <<r>> \/ pending = r \/ r \in toStage
    BY DEF ListenInv, Ordered
  <2>2. toListener = <<r>> => 1 \in 1..Len(toListener) /\ toListener[1] = r
    OBVIOUS
  <2> QED
    BY <2>1, <2>2
<1> QED
  BY <1>1, <1>2, <1>3, PTL DEF Spec
=============================================================================
