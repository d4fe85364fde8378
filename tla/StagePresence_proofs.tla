------------------------- MODULE StagePresence_proofs -------------------------
(***************************************************************************)
(* Proofs about StagePresence, for every MAX_MISSED_HEARTBEATS and any     *)
(* number of calls and deferred events.                                    *)
(*                                                                         *)
(* The discovery, the auto join and the stage's watch over a client each   *)
(* have an invariant of their own; the auto join's also reads the list of  *)
(* stages.  PresenceInv is their conjunction.                              *)
(***************************************************************************)
EXTENDS StagePresence, SequenceTheorems, TLAPS

-----------------------------------------------------------------------------
(* The inductive invariant *)

DType ==
    d \in [onAir : BOOLEAN, listed : BOOLEAN, stamp : {"none", "fresh", "old"},
           handler : {"idle", "find", "renew", "insert", "stamp", "request"},
           timer : {"idle", "list", "stamp"}, events : Seq({"found", "lost"}),
           told : {"found", "lost"}, torn : BOOLEAN]

PromiseType == [value : BOOLEAN, taken : BOOLEAN, broken : BOOLEAN, missed : BOOLEAN]

AType ==
    a \in [joined : BOOLEAN, call : {"idle", "store"}, jobs : Nat, calls : 0..MaxCalls,
           request : Promises \cup {0}, promise : [Promises -> PromiseType],
           runner : [Runners -> {"idle", "future", "wait", "join", "late", "erase"}],
           future : [Runners -> Promises \cup {0}],
           window : BOOLEAN, overlap : BOOLEAN]

HType ==
    h \in [present : BOOLEAN, beats : BOOLEAN, flag : BOOLEAN, count : Nat,
           check : {"idle", "clear", "count", "judge"}, seen : Nat,
           quiet : Nat, raced : BOOLEAN]

\* What the application will have been told when the queue is empty.
Announced == IF d.events = <<>> THEN d.told ELSE d.events[Len(d.events)]

\* While no beacon met the timer, the list and the announcements differ only
\* between a change of the list and its announcement.
Announces ==
    ~d.torn =>
        /\ d.handler = "stamp" => d.timer = "idle" /\ d.listed
        /\ d.timer = "stamp" => ~d.listed
        /\ d.handler # "stamp" /\ d.timer = "idle" => (d.listed <=> Announced = "found")

\* A runner holds a future exactly while it waits for it or acts upon it.
Held == \A r \in Runners : a.future[r] = 0 <=> a.runner[r] \in {"idle", "future"}

\* The job of a call is queued at its end.
Counted == a.jobs + (IF a.call = "store" THEN 1 ELSE 0) <= a.calls

\* The caller is at one place.
Caller == a.call = "store" => a.runner["app"] = "idle"

\* A stage was not listed when the call began, and a promise in the map is one
\* that every later discovery reaches or that missed one.
Reached ==
    /\ a.call = "store" /\ d.listed => a.window
    /\ a.request # 0 =>
         /\ ~a.promise[a.request].broken
         /\ d.listed => \/ a.promise[a.request].missed \/ a.promise[a.request].value
                        \/ d.handler \in {"stamp", "request"}

\* Where calls do not overlap, a call is at one place, and its promise stays in
\* the map from the store to the erasure.
Alone ==
    /\ fault \in {"retrieved", "erased"} => a.overlap
    /\ ~a.overlap =>
         /\ a.call = "store" => a.jobs = 0 /\ a.runner["pool"] = "idle"
         /\ a.jobs > 0 => a.jobs = 1 /\ \A r \in Runners : a.runner[r] = "idle"
         /\ a.runner["app"] = "idle" \/ a.runner["pool"] = "idle"
         /\ a.jobs > 0 \/ (\E r \in Runners : a.runner[r] = "future")
              => a.request # 0 /\ ~a.promise[a.request].taken
         /\ \A r \in Runners :
              a.runner[r] \in {"wait", "join", "late", "erase"} => a.request = a.future[r]

\* The checks since the last heartbeat bound the count from above, unless that
\* heartbeat fell inside a check, and from below but for the check that finds
\* the flag set.
Counts ==
    /\ ~h.present => h.check = "idle"
    /\ h.count <= MaxMissed + 1 /\ h.seen <= MaxMissed + 1
    /\ h.quiet <= MaxMissed + 2
    /\ h.present /\ h.check # "judge" => h.count <= MaxMissed
    /\ h.check = "count" => h.seen <= MaxMissed /\ h.quiet <= h.count + 2 /\ h.quiet <= h.seen + 2
    /\ h.check # "count" => h.quiet <= h.count + 1
    /\ h.flag /\ h.check # "clear" => h.quiet <= h.count
    /\ h.flag /\ h.check = "count" => h.quiet = 0
    /\ ~h.raced => /\ h.count <= h.quiet
                   /\ h.check = "count" => h.count < h.quiet /\ h.seen < h.quiet

FaultType == fault \in {"none", "satisfied", "retrieved", "erased"}

DiscoveryInv == DType /\ Announces
JoinInv == AType /\ FaultType /\ Held /\ Counted /\ Caller /\ Reached /\ Alone
WatchInv == HType /\ Counts
PresenceInv == DiscoveryInv /\ JoinInv /\ WatchInv

-----------------------------------------------------------------------------
(* The stage's watch over a client *)

\* Every step of the router and of the timer keeps the bounds on the count.
LEMMA WatchStep ==
  ASSUME WatchInv, Watch
  PROVE  WatchInv'
<1> USE PresenceAssumption DEF WatchInv
<1>0. /\ h.count \in Nat /\ h.seen \in Nat /\ h.quiet \in Nat
      /\ h.check \in {"idle", "clear", "count", "judge"}
  BY DEF HType
<1>1. CASE Arrive
  <2>1. PICK flag \in BOOLEAN :
          h' = [h EXCEPT !.present = TRUE, !.beats = TRUE, !.flag = flag, !.count = 0,
                         !.quiet = 0, !.raced = FALSE]
    BY <1>1 DEF Arrive
  <2>2. HType'
    BY <2>1 DEF HType
  <2>3. /\ h'.count = 0 /\ h'.quiet = 0 /\ h'.seen = h.seen /\ h'.check = h.check
        /\ h.check = "idle"
    BY <1>1, <2>1 DEF HType, Arrive
  <2> QED
    BY <1>0, <2>2, <2>3 DEF Counts
<1>2. CASE Heartbeat
  <2>1. /\ h.present /\ h'.count = 0 /\ h'.quiet = 0 /\ h'.seen = h.seen /\ h'.check = h.check
        /\ h'.present = h.present /\ (h'.raced <=> h.check # "idle")
    BY <1>2 DEF HType, Heartbeat
  <2>2. HType'
    <3>1. (h.check # "idle") \in BOOLEAN
      OBVIOUS
    <3> QED
      BY <1>2, <3>1 DEF HType, Heartbeat
  <2> QED
    BY <1>0, <2>1, <2>2 DEF Counts
<1>3. CASE FallSilent
  BY <1>3 DEF FallSilent, HType, Counts
<1>4. CASE CheckRead
  <2>1. /\ h.present /\ h.check = "idle" /\ h'.check = (IF h.flag THEN "clear" ELSE "count")
        /\ h'.seen = h.count /\ h'.quiet = h.quiet + 1 /\ h'.count = h.count
        /\ h'.present = h.present /\ h'.flag = h.flag /\ h'.raced = h.raced
    BY <1>4 DEF HType, CheckRead
  <2>2. HType'
    <3>1. (IF h.flag THEN "clear" ELSE "count") \in {"idle", "clear", "count", "judge"}
      OBVIOUS
    <3>2. h.quiet + 1 \in Nat
      BY <1>0
    <3> QED
      BY <1>4, <3>1, <3>2 DEF HType, CheckRead
  <2>3. CASE h.flag
    BY <1>0, <2>1, <2>2, <2>3 DEF Counts
  <2>4. CASE ~h.flag
    BY <1>0, <2>1, <2>2, <2>4 DEF Counts
  <2> QED
    BY <2>3, <2>4
<1>5. CASE CheckClear
  BY <1>5 DEF CheckClear, HType, Counts
<1>6. CASE CheckCount
  <2>1. PICK n \in {h.seen + 1, h.count + 1} : h' = [h EXCEPT !.count = n, !.check = "judge"]
    BY <1>6 DEF CheckCount
  <2>2. HType'
    <3>1. n \in Nat
      BY <1>0
    <3> QED
      BY <2>1, <3>1 DEF HType
  <2>3. /\ h.check = "count" /\ h'.check = "judge" /\ h'.count = n /\ h'.seen = h.seen
        /\ h'.quiet = h.quiet /\ h'.present = h.present /\ h'.flag = h.flag
        /\ h'.raced = h.raced
    BY <1>6, <2>1 DEF CheckCount, HType
  <2>4. CASE h.present
    <3>1. CASE n = h.seen + 1
      BY <1>0, <2>2, <2>3, <2>4, <3>1 DEF Counts
    <3>2. CASE n = h.count + 1
      BY <1>0, <2>2, <2>3, <2>4, <3>2 DEF Counts
    <3> QED
      BY <3>1, <3>2
  <2>5. CASE ~h.present
    BY <2>3, <2>5 DEF Counts
  <2> QED
    BY <2>4, <2>5
<1>7. CASE CheckJudge
  <2>1. /\ h.check = "judge" /\ h'.check = "idle" /\ h'.count = h.count /\ h'.seen = h.seen
        /\ h'.quiet = h.quiet /\ (h'.present <=> h.count <= MaxMissed) /\ h'.flag = h.flag
        /\ h'.raced = h.raced
    BY <1>7 DEF CheckJudge, HType
  <2>2. HType'
    <3>1. (h.count <= MaxMissed) \in BOOLEAN
      OBVIOUS
    <3> QED
      BY <1>7, <3>1 DEF HType, CheckJudge
  <2> QED
    BY <1>0, <2>1, <2>2 DEF Counts
<1> QED
  BY <1>1, <1>2, <1>3, <1>4, <1>5, <1>6, <1>7 DEF Watch

-----------------------------------------------------------------------------
(* Discovery *)

\* What a deferred event does to the announcements.
LEMMA AppendAnnounces ==
  ASSUME NEW s \in Seq({"found", "lost"}), NEW e \in {"found", "lost"}
  PROVE  /\ Append(s, e) \in Seq({"found", "lost"}) /\ Append(s, e) # <<>>
         /\ Append(s, e)[Len(Append(s, e))] = e
  OBVIOUS

\* The last event stays the last when the first is taken.
LEMMA TailKeepsLast ==
  ASSUME NEW s \in Seq({"found", "lost"}), s # <<>>
  PROVE  IF Tail(s) = <<>> THEN Head(s) = s[Len(s)] ELSE Tail(s)[Len(Tail(s))] = s[Len(s)]
<1>1. /\ Len(s) \in Nat \ {0} /\ Len(Tail(s)) = Len(s) - 1 /\ Tail(s) \in Seq({"found", "lost"})
      /\ \A i \in 1..Len(Tail(s)) : Tail(s)[i] = s[i + 1]
  BY HeadTailProperties, EmptySeq
<1>2. Head(s) = s[1]
  OBVIOUS
<1>3. CASE Tail(s) = <<>>
  <2>1. Len(Tail(s)) = 0
    BY <1>3, EmptySeq, Zenon
  <2>2. Len(s) - 1 = 0 /\ Len(s) \in Nat
    BY <1>1, <2>1, Zenon
  <2>3. Len(s) = 1
    BY <2>2
  <2> QED
    BY <1>2, <1>3, <2>3
<1>4. CASE Tail(s) # <<>>
  <2>1. Len(Tail(s)) # 0
    BY <1>1, <1>4, EmptySeq
  <2>2. Len(Tail(s)) \in 1..Len(Tail(s)) /\ Len(Tail(s)) + 1 = Len(s)
    BY <1>1, <2>1
  <2>3. Tail(s)[Len(Tail(s))] = s[Len(Tail(s)) + 1]
    BY <1>1, <2>2
  <2> QED
    BY <1>4, <2>2, <2>3
<1> QED
  BY <1>3, <1>4

\* Polling an event leaves what will have been announced.
LEMMA PollAnnounces ==
  ASSUME DType, Poll
  PROVE  DType' /\ Announced' = Announced
<1>1. /\ d.events # <<>> /\ d.events \in Seq({"found", "lost"})
      /\ Head(d.events) \in {"found", "lost"} /\ Tail(d.events) \in Seq({"found", "lost"})
  BY DEF Poll, DType
<1>2. d' = [d EXCEPT !.told = Head(d.events), !.events = Tail(d.events)]
  BY DEF Poll
<1>3. DType'
  BY <1>1, <1>2 DEF DType
<1>4. d'.told = Head(d.events) /\ d'.events = Tail(d.events)
  BY <1>2 DEF DType
<1>5. CASE Tail(d.events) = <<>>
  <2>1. Head(d.events) = d.events[Len(d.events)]
    BY <1>1, <1>5, TailKeepsLast
  <2> QED
    BY <1>1, <1>3, <1>4, <1>5, <2>1 DEF Announced
<1>6. CASE Tail(d.events) # <<>>
  <2>1. Tail(d.events)[Len(Tail(d.events))] = d.events[Len(d.events)]
    BY <1>1, <1>6, TailKeepsLast
  <2> QED
    BY <1>1, <1>3, <1>4, <1>6, <2>1 DEF Announced
<1> QED
  BY <1>5, <1>6

\* The steps of the beacon, of the timer and of the application keep the list
\* and the announcements together.
LEMMA DiscoveryStep ==
  ASSUME DiscoveryInv, Discovery \/ Beacon \/ DiscoveryRequest
  PROVE  DiscoveryInv'
<1> USE DEF DiscoveryInv, Announces
<1>1. CASE StartBroadcast \/ StopBroadcast \/ HandleBeacon \/ Expire
  BY <1>1 DEF DType, Announced, StartBroadcast, StopBroadcast, HandleBeacon, Expire
<1>2. CASE BeaconCheck
  BY <1>2 DEF DType, Announced, BeaconCheck
<1>3. CASE LostList
  BY <1>3 DEF DType, Announced, LostList
<1>4. CASE LostStamp
  <2>1. /\ Append(d.events, "lost") \in Seq({"found", "lost"}) /\ Append(d.events, "lost") # <<>>
        /\ Append(d.events, "lost")[Len(Append(d.events, "lost"))] = "lost"
    BY AppendAnnounces DEF DType
  <2>2. /\ d' = [d EXCEPT !.stamp = "none", !.events = Append(d.events, "lost"), !.timer = "idle"]
        /\ d.timer = "stamp"
    BY <1>4 DEF LostStamp
  <2>3. DType'
    BY <2>1, <2>2 DEF DType
  <2>4. /\ d'.events = Append(d.events, "lost") /\ d'.timer = "idle" /\ d'.torn = d.torn
        /\ d'.handler = d.handler /\ d'.listed = d.listed
    BY <2>2 DEF DType
  <2>5. Announced' = "lost"
    BY <2>1, <2>4 DEF Announced
  <2> QED
    BY <2>2, <2>3, <2>4, <2>5
<1>5. CASE Poll
  <2>1. DType' /\ Announced' = Announced
    BY <1>5, PollAnnounces
  <2>2. /\ d'.timer = d.timer /\ d'.torn = d.torn
        /\ d'.handler = d.handler /\ d'.listed = d.listed
    BY <1>5 DEF Poll, DType
  <2> QED
    BY <2>1, <2>2
<1>6. CASE DiscoveryFind \/ DiscoveryRequest
  BY <1>6 DEF DType, Announced, DiscoveryFind, DiscoveryRequest
<1>7. CASE DiscoveryRenew
  BY <1>7 DEF DType, Announced, DiscoveryRenew
<1>8. CASE DiscoveryInsert
  BY <1>8 DEF DType, Announced, DiscoveryInsert
<1>9. CASE DiscoveryStamp
  <2>1. /\ Append(d.events, "found") \in Seq({"found", "lost"})
        /\ Append(d.events, "found") # <<>>
        /\ Append(d.events, "found")[Len(Append(d.events, "found"))] = "found"
    BY AppendAnnounces DEF DType
  <2>2. d.handler = "stamp"
    BY <1>9 DEF DiscoveryStamp
  <2>3. DType'
    BY <1>9, <2>1 DEF DType, DiscoveryStamp
  <2>4. /\ d'.events = Append(d.events, "found") /\ d'.timer = d.timer /\ d'.torn = d.torn
        /\ d'.handler = "request" /\ d'.listed = d.listed
    BY <1>9 DEF DType, DiscoveryStamp
  <2>5. Announced' = "found"
    BY <2>1, <2>4 DEF Announced
  <2> QED
    BY <2>2, <2>3, <2>4, <2>5
<1> QED
  BY <1>1, <1>2, <1>3, <1>4, <1>5, <1>6, <1>7, <1>8, <1>9 DEF Discovery, Beacon

-----------------------------------------------------------------------------
(* Auto join *)

\* The fields of the record of auto join.
LEMMA AFields ==
  ASSUME AType
  PROVE  /\ a.joined \in BOOLEAN /\ a.call \in {"idle", "store"} /\ a.jobs \in Nat
         /\ a.calls \in 0..MaxCalls /\ a.request \in Promises \cup {0}
         /\ a.promise \in [Promises -> PromiseType]
         /\ a.runner \in [Runners -> {"idle", "future", "wait", "join", "late", "erase"}]
         /\ a.future \in [Runners -> Promises \cup {0}]
         /\ a.window \in BOOLEAN /\ a.overlap \in BOOLEAN
  BY DEF AType

\* A promise is free for a caller that holds no future: three are enough.
LEMMA PromiseFree ==
  ASSUME AType, NEW r \in Runners, a.future[r] = 0
  PROVE  /\ FreePromise \in Promises /\ FreePromise # a.request
         /\ \A q \in Runners : a.future[q] # FreePromise
<1>1. /\ a.request \in {0, 1, 2, 3} /\ a.future["app"] \in {0, 1, 2, 3}
      /\ a.future["pool"] \in {0, 1, 2, 3}
      /\ a.future["app"] = 0 \/ a.future["pool"] = 0
  BY AFields DEF Promises, Runners
<1>2. \E p \in {1, 2, 3} : p # a.request /\ a.future["app"] # p /\ a.future["pool"] # p
  <2>1. \/ 1 # a.request /\ a.future["app"] # 1 /\ a.future["pool"] # 1
        \/ 2 # a.request /\ a.future["app"] # 2 /\ a.future["pool"] # 2
        \/ 3 # a.request /\ a.future["app"] # 3 /\ a.future["pool"] # 3
    BY <1>1
  <2> QED
    BY <2>1
<1>3. \E p \in Promises : p # a.request /\ \A q \in Runners : a.future[q] # p
  BY <1>2 DEF Promises, Runners
<1> QED
  BY <1>3 DEF FreePromise

\* A step that leaves the auto join alone, lists no stage and skips no
\* discovery keeps the invariant of the auto join.
LEMMA QuietStep ==
  ASSUME DType, JoinInv, UNCHANGED <<a, fault>>,
         d'.listed => d.listed,
         d.handler \in {"stamp", "request"} => d'.handler \in {"stamp", "request"}
  PROVE  JoinInv'
  BY DEF JoinInv, AType, FaultType, Held, Counted, Caller, Reached, Alone

\* Such are the steps of the stage's beacon, of the timer and of the application.
LEMMA DiscoveryJoins ==
  ASSUME DType, JoinInv, Discovery
  PROVE  JoinInv'
<1>1. d'.listed => d.listed
  BY DEF Discovery, DType, StartBroadcast, StopBroadcast, HandleBeacon, Expire,
         BeaconCheck, LostList, LostStamp, Poll
<1>2. d.handler \in {"stamp", "request"} => d'.handler \in {"stamp", "request"}
  BY DEF Discovery, DType, StartBroadcast, StopBroadcast, HandleBeacon, Expire,
         BeaconCheck, LostList, LostStamp, Poll
<1> QED
  BY <1>1, <1>2, QuietStep DEF Discovery

\* A stage is listed by the handler, which then looks for a request.
LEMMA BeaconJoins ==
  ASSUME DType, JoinInv, Beacon
  PROVE  JoinInv'
<1>1. CASE DiscoveryFind \/ DiscoveryRenew \/ DiscoveryStamp
  <2>1. UNCHANGED <<a, fault>>
    BY <1>1 DEF Beacon, DiscoveryFind, DiscoveryRenew, DiscoveryStamp
  <2>2. d'.listed => d.listed
    BY <1>1 DEF DType, DiscoveryFind, DiscoveryRenew, DiscoveryStamp
  <2>3. d.handler \in {"stamp", "request"} => d'.handler \in {"stamp", "request"}
    BY <1>1 DEF DType, DiscoveryFind, DiscoveryRenew, DiscoveryStamp
  <2> QED
    BY <2>1, <2>2, <2>3, QuietStep
<1>2. CASE DiscoveryInsert
  <2>1. d'.handler = "stamp"
    BY <1>2 DEF DType, DiscoveryInsert
  <2>2. AType'
    <3>1. (a.call = "store") \in BOOLEAN
      OBVIOUS
    <3> QED
      BY <1>2, <3>1 DEF DiscoveryInsert, AType, JoinInv
  <2>3. /\ a'.call = a.call /\ a'.jobs = a.jobs /\ a'.calls = a.calls /\ a'.request = a.request
        /\ a'.promise = a.promise /\ a'.runner = a.runner /\ a'.future = a.future
        /\ a'.overlap = a.overlap /\ (a'.window <=> a.call = "store")
    BY <1>2 DEF DiscoveryInsert, AType, JoinInv
  <2>4. fault' = fault
    BY DEF Beacon
  <2>5. Reached'
    BY <2>1, <2>3 DEF Reached, JoinInv
  <2>6. Held' /\ Counted' /\ Caller' /\ FaultType'
    BY <2>3, <2>4 DEF Held, Counted, Caller, FaultType, JoinInv
  <2>7. Alone'
    BY <2>3, <2>4 DEF Alone, JoinInv
  <2> QED
    BY <2>2, <2>5, <2>6, <2>7 DEF JoinInv
<1> QED
  BY <1>1, <1>2 DEF Beacon

\* The discovery reaches the promise in the map, or the promise misses it.
LEMMA RequestJoins ==
  ASSUME DType, JoinInv, DiscoveryRequest, fault = "none"
  PROVE  JoinInv'
<1>1. d'.listed = d.listed /\ d.handler = "request" /\ d'.handler = "idle"
  BY DEF DType, DiscoveryRequest
<1>2. CASE a.request = 0
  <2>1. UNCHANGED <<a, fault>>
    BY <1>2 DEF DiscoveryRequest
  <2> QED
    BY <1>1, <1>2, <2>1 DEF JoinInv, AType, FaultType, Held, Counted, Caller, Reached, Alone
<1>3. CASE a.request # 0 /\ (a.joined \/ ~a.promise[a.request].value)
  <2> DEFINE p == a.request
  <2>1. p \in Promises /\ a.promise[p] \in PromiseType
    BY <1>3, AFields DEF JoinInv
  <2>2. fault' = fault
    BY <1>3 DEF DiscoveryRequest
  <2>3. \E q \in PromiseType :
          /\ a' = [a EXCEPT !.promise = [a.promise EXCEPT ![p] = q]]
          /\ q.missed \/ q.value
          /\ q.taken = a.promise[p].taken /\ q.broken = a.promise[p].broken
    <3>1. CASE a.joined
      <4>1. a' = [a EXCEPT !.promise = [a.promise EXCEPT ![p] = [a.promise[p] EXCEPT !.missed = TRUE]]]
        BY <1>3, <3>1 DEF DiscoveryRequest
      <4> DEFINE q == [a.promise[p] EXCEPT !.missed = TRUE]
      <4>2. /\ q \in PromiseType /\ q.missed
            /\ q.taken = a.promise[p].taken /\ q.broken = a.promise[p].broken
        BY <2>1 DEF PromiseType
      <4> QED
        BY <4>1, <4>2
    <3>2. CASE ~a.joined
      <4>1. a' = [a EXCEPT !.promise = [a.promise EXCEPT ![p] = [a.promise[p] EXCEPT !.value = TRUE]]]
        BY <1>3, <3>2 DEF DiscoveryRequest
      <4> DEFINE q == [a.promise[p] EXCEPT !.value = TRUE]
      <4>2. /\ q \in PromiseType /\ q.value
            /\ q.taken = a.promise[p].taken /\ q.broken = a.promise[p].broken
        BY <2>1 DEF PromiseType
      <4> QED
        BY <4>1, <4>2
    <3> QED
      BY <3>1, <3>2
  <2>4. PICK q \in PromiseType :
          /\ a' = [a EXCEPT !.promise = [a.promise EXCEPT ![p] = q]]
          /\ q.missed \/ q.value
          /\ q.taken = a.promise[p].taken /\ q.broken = a.promise[p].broken
    BY <2>3
  <2>5. AType'
    BY <2>4 DEF AType, JoinInv
  <2>6. /\ a'.call = a.call /\ a'.jobs = a.jobs /\ a'.calls = a.calls /\ a'.request = a.request
        /\ a'.promise = [a.promise EXCEPT ![p] = q] /\ a'.runner = a.runner
        /\ a'.future = a.future /\ a'.overlap = a.overlap /\ a'.window = a.window
    BY <2>4 DEF AType, JoinInv
  <2>7. a'.promise[p] = q
    BY <2>1, <2>6, AFields DEF JoinInv
  <2>8. Reached'
    BY <1>1, <2>4, <2>6, <2>7 DEF Reached, JoinInv
  <2>9. Held' /\ Counted' /\ Caller' /\ FaultType'
    BY <2>2, <2>6 DEF Held, Counted, Caller, FaultType, JoinInv
  <2>10. Alone'
    BY <2>2, <2>4, <2>6, <2>7 DEF Alone, JoinInv
  <2> QED
    BY <2>5, <2>8, <2>9, <2>10 DEF JoinInv
<1>4. CASE a.request # 0 /\ ~a.joined /\ a.promise[a.request].value
  <2>1. a' = a /\ fault' = "satisfied"
    BY <1>4 DEF DiscoveryRequest
  <2> QED
    BY <1>1, <1>4, <2>1 DEF JoinInv, AType, FaultType, Held, Counted, Caller, Reached, Alone
<1> QED
  BY <1>2, <1>3, <1>4

\* A new call that finds no stage overlaps with one that has not ended.
LEMMA AutoJoinJoins ==
  ASSUME DType, JoinInv, AutoJoin, UNCHANGED d
  PROVE  JoinInv'
<1> USE DEF JoinInv
<1>1. PICK joined \in BOOLEAN :
        a' = [a EXCEPT !.calls = a.calls + 1, !.joined = joined,
                       !.call = IF d.listed THEN a.call ELSE "store",
                       !.overlap = a.overlap \/ a.runner["pool"] # "idle" \/ a.jobs > 0]
  BY AFields DEF AutoJoin, JoinOutcome
<1>2. /\ a.call = "idle" /\ a.runner["app"] = "idle" /\ a.calls < MaxCalls /\ fault' = fault
  BY DEF AutoJoin
<1>3. /\ a'.call = (IF d.listed THEN "idle" ELSE "store") /\ a'.jobs = a.jobs
      /\ a'.calls = a.calls + 1 /\ a'.request = a.request
      /\ a'.promise = a.promise /\ a'.runner = a.runner /\ a'.future = a.future
      /\ (a'.overlap <=> (a.overlap \/ a.runner["pool"] # "idle" \/ a.jobs > 0))
      /\ a'.window = a.window
  BY <1>1, <1>2 DEF AType
<1>4. AType'
  <2>1. a.calls + 1 \in 0..MaxCalls
    BY <1>2, AFields, PresenceAssumption
  <2>2. (a.overlap \/ a.runner["pool"] # "idle" \/ a.jobs > 0) \in BOOLEAN
    OBVIOUS
  <2>3. (IF d.listed THEN a.call ELSE "store") \in {"idle", "store"}
    BY AFields
  <2> QED
    BY <1>1, <2>1, <2>2, <2>3 DEF AType
<1>5. Held' /\ Caller' /\ FaultType' /\ Reached'
  BY <1>2, <1>3 DEF Held, Caller, FaultType, Reached
<1>6. Counted'
  BY <1>2, <1>3, AFields, PresenceAssumption DEF Counted
<1>7. Alone'
  <2>1. a.jobs \in Nat
    BY AFields
  <2>2. ~a'.overlap => ~a.overlap /\ a.jobs = 0 /\ a.runner["pool"] = "idle"
    BY <1>3, <2>1
  <2> QED
    BY <1>2, <1>3, <2>2 DEF Alone, Runners
<1> QED
  BY <1>4, <1>5, <1>6, <1>7

\* The store puts a promise into the map that nobody has taken.
LEMMA StoreJoins ==
  ASSUME DType, JoinInv, NEW async \in BOOLEAN, AutoJoinStore(async), UNCHANGED d
  PROVE  JoinInv'
<1> USE DEF JoinInv
<1> DEFINE F == FreePromise
           P == [Dropped("none") EXCEPT ![F].missed = a.window]
<1>1. /\ a.call = "store" /\ a.runner["app"] = "idle" /\ a.future["app"] = 0 /\ fault' = fault
  BY DEF AutoJoinStore, Held, Caller, Runners
<1>2. F \in Promises /\ F # 0 /\ \A q \in Runners : a.future[q] # F
  BY <1>1, PromiseFree DEF Promises, Runners
<1>3. Dropped("none") \in [Promises -> PromiseType]
  <2>1. ASSUME NEW p \in Promises
        PROVE  /\ NoPromise \in PromiseType
               /\ [a.promise[p] EXCEPT !.broken = a.promise[p].broken \/ p = a.request]
                    \in PromiseType
    <3>1. a.promise[p] \in PromiseType
      BY AFields
    <3>2. (a.promise[p].broken \/ p = a.request) \in BOOLEAN
      OBVIOUS
    <3> QED
      BY <3>1, <3>2 DEF PromiseType, NoPromise
  <2> QED
    BY <2>1 DEF Dropped
<1>4. Dropped("none")[F] = NoPromise
  BY <1>2 DEF Dropped
<1>5. P[F] = [NoPromise EXCEPT !.missed = a.window]
  BY <1>2, <1>3, <1>4
<1>6. P \in [Promises -> PromiseType]
  <2>1. [NoPromise EXCEPT !.missed = a.window] \in PromiseType
    BY AFields DEF PromiseType, NoPromise
  <2> QED
    BY <1>2, <1>3, <1>4, <2>1
<1>7. /\ ~P[F].taken /\ ~P[F].broken /\ P[F].missed = a.window
  BY <1>5 DEF NoPromise
<1>8. a' = [a EXCEPT !.call = "idle", !.window = FALSE, !.promise = P, !.request = F,
                     !.jobs = IF async THEN a.jobs + 1 ELSE a.jobs,
                     !.runner = [a.runner EXCEPT !["app"] = IF async THEN a.runner["app"] ELSE "future"]]
  BY DEF AutoJoinStore
<1> HIDE DEF P, F
<1>9. /\ a'.call = "idle" /\ a'.calls = a.calls /\ a'.promise = P /\ a'.request = F
      /\ a'.jobs = (IF async THEN a.jobs + 1 ELSE a.jobs)
      /\ a'.runner = [a.runner EXCEPT !["app"] = IF async THEN a.runner["app"] ELSE "future"]
      /\ a'.future = a.future /\ a'.overlap = a.overlap
  BY <1>8 DEF AType
<1>10. a'.runner["pool"] = a.runner["pool"]
       /\ a'.runner["app"] = (IF async THEN "idle" ELSE "future")
  BY <1>1, <1>9, AFields DEF Runners
<1>11. AType'
  <2>1. (IF async THEN a.jobs + 1 ELSE a.jobs) \in Nat
    BY AFields
  <2>2. [a.runner EXCEPT !["app"] = IF async THEN a.runner["app"] ELSE "future"]
          \in [Runners -> {"idle", "future", "wait", "join", "late", "erase"}]
    BY AFields
  <2> QED
    BY <1>2, <1>6, <1>8, <2>1, <2>2 DEF AType
<1>12. Held'
  BY <1>1, <1>9, <1>10 DEF Held, Runners
<1>13. Counted' /\ Caller' /\ FaultType'
  BY <1>1, <1>9, AFields DEF Counted, Caller, FaultType
<1>14. Reached'
  BY <1>1, <1>7, <1>9 DEF Reached
<1>15. Alone'
  <2>1. ~a.overlap => a.jobs = 0 /\ a.runner["pool"] = "idle"
    BY <1>1 DEF Alone
  <2> QED
    BY <1>1, <1>2, <1>7, <1>9, <1>10, <2>1 DEF Alone, Runners
<1> QED
  BY <1>11, <1>12, <1>13, <1>14, <1>15

\* The pool's thread takes a job.
LEMMA PoolJoins ==
  ASSUME DType, JoinInv, PoolStart, UNCHANGED d
  PROVE  JoinInv'
<1> USE DEF JoinInv
<1>1. a.jobs > 0 /\ a.runner["pool"] = "idle" /\ fault' = fault /\ a.jobs \in Nat
  BY AFields DEF PoolStart
<1>2. a' = [a EXCEPT !.jobs = a.jobs - 1, !.runner = [a.runner EXCEPT !["pool"] = "future"]]
  BY DEF PoolStart
<1>3. /\ a'.call = a.call /\ a'.calls = a.calls /\ a'.promise = a.promise
      /\ a'.request = a.request /\ a'.jobs = a.jobs - 1 /\ a'.window = a.window
      /\ a'.runner = [a.runner EXCEPT !["pool"] = "future"]
      /\ a'.future = a.future /\ a'.overlap = a.overlap
  BY <1>2 DEF AType
<1>4. a'.runner["pool"] = "future" /\ a'.runner["app"] = a.runner["app"]
  BY <1>3, AFields DEF Runners
<1>5. AType'
  <2>1. a.jobs - 1 \in Nat
    BY <1>1
  <2> QED
    BY <1>2, <2>1 DEF AType
<1>6. Held' /\ Caller' /\ FaultType' /\ Reached'
  BY <1>1, <1>3, <1>4 DEF Held, Caller, FaultType, Reached, Runners
<1>7. Counted'
  BY <1>1, <1>3, AFields DEF Counted
<1>8. Alone'
  <2>1. ~a.overlap => /\ a.jobs = 1 /\ a.runner["app"] = "idle" /\ a.call # "store"
                      /\ a.request # 0 /\ ~a.promise[a.request].taken
    BY <1>1 DEF Alone, Runners
  <2> QED
    BY <1>1, <1>3, <1>4, <2>1 DEF Alone, Runners
<1> QED
  BY <1>5, <1>6, <1>7, <1>8

\* The other runner.
Other(r) == IF r = "app" THEN "pool" ELSE "app"

\* A step of join_on_beacon in which a runner moves on and which leaves the
\* other runner where it is.
LEMMA RunnerMoves ==
  ASSUME AType, AType', NEW r \in Runners, NEW to, NEW fut,
         a'.runner = [a.runner EXCEPT ![r] = to], a'.future = [a.future EXCEPT ![r] = fut]
  PROVE  /\ a'.runner[r] = to /\ a'.future[r] = fut
         /\ a'.runner[Other(r)] = a.runner[Other(r)] /\ a'.future[Other(r)] = a.future[Other(r)]
         /\ Runners = {r, Other(r)} /\ r # Other(r)
  BY AFields DEF Runners, Other

\* While calls do not overlap, a runner that is busy is the only one.
LEMMA OnlyRunner ==
  ASSUME JoinInv, ~a.overlap, NEW r \in Runners, a.runner[r] # "idle"
  PROVE  a.runner[Other(r)] = "idle" /\ a.jobs = 0 /\ a.call # "store"
<1>1. a.jobs \in Nat
  BY AFields DEF JoinInv
<1> QED
  BY <1>1 DEF JoinInv, Alone, Runners, Other, Caller

\* A call that is alone takes the future of its promise for the first time.
LEMMA FutureJoins ==
  ASSUME DType, JoinInv, NEW r \in Runners, JoinFuture(r), fault = "none", UNCHANGED d
  PROVE  JoinInv'
<1> USE DEF JoinInv
<1>1. a.runner[r] = "future" /\ a.future[r] = 0
  BY DEF JoinFuture, Held
<1>2. CASE a.request = 0
  <2> DEFINE F == FreePromise
             q == [NoPromise EXCEPT !.taken = TRUE, !.missed = TRUE]
  <2>1. F \in Promises /\ F # 0
    BY <1>1, PromiseFree DEF Promises
  <2>2. q \in PromiseType /\ q.missed /\ ~q.broken
    BY DEF PromiseType, NoPromise
  <2>3. /\ a' = [a EXCEPT !.promise = [a.promise EXCEPT ![F] = q], !.request = F,
                          !.future = [a.future EXCEPT ![r] = F],
                          !.runner = [a.runner EXCEPT ![r] = "wait"]]
        /\ fault' = fault
    BY <1>2 DEF JoinFuture
  <2> HIDE DEF F, q
  <2>4. AType'
    BY <2>1, <2>2, <2>3 DEF AType
  <2>5. /\ a'.call = a.call /\ a'.calls = a.calls /\ a'.promise = [a.promise EXCEPT ![F] = q]
        /\ a'.request = F /\ a'.jobs = a.jobs /\ a'.window = a.window
        /\ a'.runner = [a.runner EXCEPT ![r] = "wait"]
        /\ a'.future = [a.future EXCEPT ![r] = F] /\ a'.overlap = a.overlap
    BY <2>3 DEF AType
  <2>6. a'.promise[F] = q
    BY <2>1, <2>5, AFields
  <2>7. /\ a'.runner[r] = "wait" /\ a'.future[r] = F
        /\ a'.runner[Other(r)] = a.runner[Other(r)] /\ a'.future[Other(r)] = a.future[Other(r)]
        /\ Runners = {r, Other(r)} /\ r # Other(r)
    BY <2>4, <2>5, RunnerMoves
  <2>8. Held' /\ Counted' /\ FaultType' /\ Reached'
    BY <2>1, <2>2, <2>3, <2>5, <2>6, <2>7 DEF Held, Counted, FaultType, Reached
  <2>9. Caller'
    BY <1>1, <2>5, <2>7 DEF Caller, Runners
  <2>10. a.overlap
    BY <1>1, <1>2 DEF Alone
  <2>11. Alone'
    BY <2>5, <2>10 DEF Alone
  <2> QED
    BY <2>4, <2>8, <2>9, <2>11
<1>3. CASE a.request # 0
  <2> DEFINE p == a.request
             q == [a.promise[p] EXCEPT !.taken = TRUE]
  <2>1. p \in Promises /\ a.promise[p] \in PromiseType
    BY <1>3, AFields
  <2>2. /\ q \in PromiseType /\ q.missed = a.promise[p].missed
        /\ q.value = a.promise[p].value /\ q.broken = a.promise[p].broken
    BY <2>1 DEF PromiseType
  <2>3. /\ a' = [a EXCEPT !.promise = [a.promise EXCEPT ![p] = q],
                          !.future = [a.future EXCEPT ![r] = p],
                          !.runner = [a.runner EXCEPT ![r] = "wait"]]
        /\ fault' = IF a.promise[a.request].taken THEN "retrieved" ELSE fault
    BY <1>3 DEF JoinFuture
  <2> HIDE DEF q
  <2>4. AType'
    BY <2>1, <2>2, <2>3 DEF AType
  <2>5. /\ a'.call = a.call /\ a'.calls = a.calls /\ a'.promise = [a.promise EXCEPT ![p] = q]
        /\ a'.request = p /\ a'.jobs = a.jobs /\ a'.window = a.window
        /\ a'.runner = [a.runner EXCEPT ![r] = "wait"]
        /\ a'.future = [a.future EXCEPT ![r] = p] /\ a'.overlap = a.overlap
    BY <2>3 DEF AType
  <2>6. a'.promise[p] = q
    BY <2>1, <2>5, AFields
  <2>7. /\ a'.runner[r] = "wait" /\ a'.future[r] = p
        /\ a'.runner[Other(r)] = a.runner[Other(r)] /\ a'.future[Other(r)] = a.future[Other(r)]
        /\ Runners = {r, Other(r)} /\ r # Other(r)
    BY <2>4, <2>5, RunnerMoves
  <2>8. Held' /\ Counted' /\ FaultType'
    BY <1>3, <2>3, <2>5, <2>7 DEF Held, Counted, FaultType
  <2>9. Reached'
    BY <2>2, <2>5, <2>6 DEF Reached
  <2>10. Caller'
    BY <1>1, <2>5, <2>7 DEF Caller, Runners
  <2>11. Alone'
    <3>1. CASE a.overlap
      BY <2>5, <3>1 DEF Alone
    <3>2. CASE ~a.overlap
      <4>1. a.runner[Other(r)] = "idle" /\ a.jobs = 0 /\ a.call # "store"
        BY <1>1, <3>2, OnlyRunner
      <4>2. ~a.promise[a.request].taken
        BY <1>1, <3>2 DEF Alone
      <4>3. fault' = fault
        BY <2>3, <4>2
      <4>4. "app" = r \/ "app" = Other(r)
        BY DEF Other
      <4> QED
        BY <2>5, <2>7, <4>1, <4>3, <4>4 DEF Alone, Runners
    <3> QED
      BY <3>1, <3>2
  <2> QED
    BY <2>4, <2>8, <2>9, <2>10, <2>11
<1> QED
  BY <1>2, <1>3

\* A waiting runner wakes up, gives up or joins; only a promise that has left
\* the map may be broken.
LEMMA WaitJoins ==
  ASSUME DType, JoinInv, NEW r \in Runners,
         JoinWoken(r) \/ JoinTimeout(r) \/ JoinStage(r), UNCHANGED d
  PROVE  JoinInv'
<1> USE DEF JoinInv
<1>1. /\ a.runner[r] \in {"wait", "join"} /\ fault' = fault
      /\ a.future[r] \in Promises /\ a.future[r] # 0
  <2>1. a.runner[r] \in {"wait", "join"} /\ fault' = fault
    BY DEF JoinWoken, JoinTimeout, JoinStage
  <2>2. a.future[r] # 0
    BY <2>1 DEF Held
  <2> QED
    BY <2>1, <2>2, AFields
<1>2. a.promise[a.future[r]] \in PromiseType /\ NoPromise \in PromiseType
  BY <1>1, AFields DEF PromiseType, NoPromise
<1>3. CASE (JoinWoken(r) /\ a.promise[a.future[r]].value) \/ JoinTimeout(r) \/ JoinStage(r)
  <2>1. PICK to \in {"join", "late", "erase"}, joined \in BOOLEAN :
          a' = [a EXCEPT !.joined = joined, !.runner = [a.runner EXCEPT ![r] = to]]
    <3>1. CASE JoinWoken(r) /\ a.promise[a.future[r]].value
      <4>1. a' = [a EXCEPT !.runner = [a.runner EXCEPT ![r] = "join"],
                           !.future = [a.future EXCEPT ![r] = a.future[r]],
                           !.promise = [a.promise EXCEPT ![a.future[r]] = a.promise[a.future[r]]]]
        BY <3>1 DEF JoinWoken
      <4>2. /\ [a.future EXCEPT ![r] = a.future[r]] = a.future
            /\ [a.promise EXCEPT ![a.future[r]] = a.promise[a.future[r]]] = a.promise
        BY AFields
      <4>3. a' = [a EXCEPT !.joined = a.joined, !.runner = [a.runner EXCEPT ![r] = "join"]]
        BY <4>1, <4>2 DEF AType
      <4> QED
        BY <4>3, AFields
    <3>2. CASE JoinTimeout(r)
      <4>1. a' = [a EXCEPT !.joined = a.joined, !.runner = [a.runner EXCEPT ![r] = "late"]]
        BY <3>2 DEF JoinTimeout, AType
      <4> QED
        BY <4>1, AFields
    <3>3. CASE JoinStage(r)
      BY <3>3, AFields DEF JoinStage, JoinOutcome
    <3> QED
      BY <1>3, <3>1, <3>2, <3>3
  <2>2. AType'
    BY <2>1 DEF AType
  <2>3. /\ a'.call = a.call /\ a'.calls = a.calls /\ a'.promise = a.promise
        /\ a'.request = a.request /\ a'.jobs = a.jobs /\ a'.window = a.window
        /\ a'.runner = [a.runner EXCEPT ![r] = to]
        /\ a'.future = a.future /\ a'.overlap = a.overlap
    BY <2>1 DEF AType
  <2>4. /\ a'.runner[r] = to /\ a'.runner[Other(r)] = a.runner[Other(r)]
        /\ Runners = {r, Other(r)} /\ r # Other(r)
    BY <2>3, AFields DEF Runners, Other
  <2>5. Held' /\ Counted' /\ FaultType' /\ Reached'
    BY <1>1, <2>3, <2>4 DEF Held, Counted, FaultType, Reached
  <2>6. Caller'
    BY <1>1, <2>3, <2>4 DEF Caller, Runners
  <2>7. Alone'
    BY <1>1, <2>3, <2>4 DEF Alone, Runners
  <2> QED
    BY <2>2, <2>5, <2>6, <2>7
<1>4. CASE JoinWoken(r) /\ ~a.promise[a.future[r]].value
  <2> DEFINE p == a.future[r]
  <2>1. /\ a' = [a EXCEPT !.runner = [a.runner EXCEPT ![r] = "idle"],
                          !.future = [a.future EXCEPT ![r] = 0],
                          !.promise = [a.promise EXCEPT ![p] = NoPromise]]
        /\ a.promise[p].broken /\ a.runner[r] = "wait"
    BY <1>4 DEF JoinWoken
  <2>2. p # a.request
    BY <1>1, <2>1 DEF Reached
  <2>3. AType'
    BY <1>1, <1>2, <2>1 DEF AType
  <2>4. /\ a'.call = a.call /\ a'.calls = a.calls
        /\ a'.promise = [a.promise EXCEPT ![p] = NoPromise]
        /\ a'.request = a.request /\ a'.jobs = a.jobs /\ a'.window = a.window
        /\ a'.runner = [a.runner EXCEPT ![r] = "idle"]
        /\ a'.future = [a.future EXCEPT ![r] = 0] /\ a'.overlap = a.overlap
    BY <2>1 DEF AType
  <2>5. /\ a'.runner[r] = "idle" /\ a'.future[r] = 0
        /\ a'.runner[Other(r)] = a.runner[Other(r)] /\ a'.future[Other(r)] = a.future[Other(r)]
        /\ Runners = {r, Other(r)} /\ r # Other(r)
    BY <2>3, <2>4, RunnerMoves
  <2>6. a.request # 0 => a'.promise[a.request] = a.promise[a.request]
    BY <2>2, <2>4, AFields
  <2>7. Held' /\ Counted' /\ FaultType' /\ Reached'
    BY <1>1, <2>4, <2>5, <2>6 DEF Held, Counted, FaultType, Reached
  <2>8. Caller'
    BY <2>1, <2>4, <2>5 DEF Caller, Runners
  <2>9. a.overlap
    BY <2>1, <2>2 DEF Alone
  <2>10. Alone'
    BY <2>4, <2>9 DEF Alone
  <2> QED
    BY <2>3, <2>7, <2>8, <2>10
<1> QED
  BY <1>3, <1>4

\* A call that is alone erases the promise it stored.
LEMMA EraseJoins ==
  ASSUME DType, JoinInv, NEW r \in Runners, JoinErase(r), fault = "none", UNCHANGED d
  PROVE  JoinInv'
<1> USE DEF JoinInv
<1>1. /\ a.runner[r] \in {"late", "erase"}
      /\ fault' = IF a.request = 0 THEN "erased" ELSE fault
  BY DEF JoinErase
<1>2. a.future[r] # 0
  BY <1>1 DEF Held
<1>3. Dropped(r) \in [Promises -> PromiseType]
  <2>1. ASSUME NEW p \in Promises
        PROVE  /\ NoPromise \in PromiseType
               /\ [a.promise[p] EXCEPT !.broken = a.promise[p].broken \/ p = a.request]
                    \in PromiseType
    <3>1. a.promise[p] \in PromiseType
      BY AFields
    <3>2. (a.promise[p].broken \/ p = a.request) \in BOOLEAN
      OBVIOUS
    <3> QED
      BY <3>1, <3>2 DEF PromiseType, NoPromise
  <2> QED
    BY <2>1 DEF Dropped
<1>4. a' = [a EXCEPT !.request = 0, !.promise = Dropped(r),
                     !.runner = [a.runner EXCEPT ![r] = "idle"],
                     !.future = [a.future EXCEPT ![r] = 0]]
  BY DEF JoinErase
<1>5. AType'
  BY <1>3, <1>4 DEF AType
<1>6. /\ a'.call = a.call /\ a'.calls = a.calls /\ a'.request = 0
      /\ a'.jobs = a.jobs /\ a'.window = a.window
      /\ a'.runner = [a.runner EXCEPT ![r] = "idle"]
      /\ a'.future = [a.future EXCEPT ![r] = 0] /\ a'.overlap = a.overlap
  BY <1>4 DEF AType
<1>7. /\ a'.runner[r] = "idle" /\ a'.future[r] = 0
      /\ a'.runner[Other(r)] = a.runner[Other(r)] /\ a'.future[Other(r)] = a.future[Other(r)]
      /\ Runners = {r, Other(r)} /\ r # Other(r)
  BY <1>5, <1>6, RunnerMoves
<1>8. Held' /\ Counted' /\ FaultType' /\ Reached'
  BY <1>1, <1>6, <1>7 DEF Held, Counted, FaultType, Reached
<1>9. Caller'
  BY <1>1, <1>6, <1>7 DEF Caller, Runners
<1>10. Alone'
  <2>1. CASE a.overlap
    BY <1>6, <2>1 DEF Alone
  <2>2. CASE ~a.overlap
    <3>1. a.runner[Other(r)] = "idle" /\ a.jobs = 0 /\ a.call # "store"
      BY <1>1, <2>2, OnlyRunner
    <3>2. a.request # 0
      BY <1>1, <1>2, <2>2 DEF Alone
    <3>3. fault' = fault
      BY <1>1, <3>2
    <3> QED
      BY <1>6, <1>7, <3>1, <3>3 DEF Alone, Runners
  <2> QED
    BY <2>1, <2>2
<1> QED
  BY <1>5, <1>8, <1>9, <1>10

\* Every step of the application and of the pool keeps the invariant.
LEMMA JoinStep ==
  ASSUME DType, JoinInv, Joining, fault = "none"
  PROVE  JoinInv'
<1>1. UNCHANGED d
  BY DEF Joining
<1>2. CASE Leave
  <2>1. a' = [a EXCEPT !.joined = FALSE] /\ fault' = fault
    BY <1>2 DEF Leave
  <2>2. AType'
    BY <2>1 DEF JoinInv, AType
  <2>3. /\ a'.call = a.call /\ a'.calls = a.calls /\ a'.promise = a.promise
        /\ a'.request = a.request /\ a'.jobs = a.jobs /\ a'.window = a.window
        /\ a'.runner = a.runner /\ a'.future = a.future /\ a'.overlap = a.overlap
    BY <2>1 DEF JoinInv, AType
  <2> QED
    BY <1>1, <2>1, <2>2, <2>3 DEF JoinInv, FaultType, Held, Counted, Caller, Reached, Alone
<1>3. CASE \E async \in BOOLEAN : AutoJoinStore(async)
  BY <1>1, <1>3, StoreJoins
<1>4. CASE \E r \in Runners : JoinFuture(r) \/ JoinErase(r)
  BY <1>1, <1>4, FutureJoins, EraseJoins
<1>5. CASE \E r \in Runners : JoinWoken(r) \/ JoinTimeout(r) \/ JoinStage(r)
  BY <1>1, <1>5, WaitJoins
<1> QED
  BY <1>1, <1>2, <1>3, <1>4, <1>5, AutoJoinJoins, PoolJoins DEF Joining

-----------------------------------------------------------------------------
(* The theorems *)

\* The invariant holds initially,
LEMMA InitPresence == Init => PresenceInv
<1> SUFFICES ASSUME Init PROVE PresenceInv
  OBVIOUS
<1>1. WatchInv
  BY PresenceAssumption DEF Init, WatchInv, HType, Counts
<1>2. DiscoveryInv
  BY DEF Init, DiscoveryInv, DType, Announces, Announced
<1>3. AType /\ FaultType
  BY PresenceAssumption DEF Init, AType, FaultType, NoPromise, PromiseType
<1>4. Held /\ Counted /\ Caller /\ Reached /\ Alone
  BY DEF Init, Held, Counted, Caller, Reached, Alone, Runners
<1> QED
  BY <1>1, <1>2, <1>3, <1>4 DEF PresenceInv, JoinInv

\* every step keeps it,
LEMMA PresenceStep == PresenceInv /\ [Next]_vars => PresenceInv'
<1> SUFFICES ASSUME PresenceInv, [Next]_vars PROVE PresenceInv'
  OBVIOUS
<1> USE DEF PresenceInv
<1>0. DType
  BY DEF DiscoveryInv
<1>1. CASE Discovery
  <2>1. WatchInv'
    BY <1>1 DEF Discovery, WatchInv, HType, Counts
  <2> QED
    BY <1>0, <1>1, <2>1, DiscoveryStep, DiscoveryJoins
<1>2. CASE Beacon
  <2>1. WatchInv'
    BY <1>2 DEF Beacon, WatchInv, HType, Counts
  <2> QED
    BY <1>0, <1>2, <2>1, DiscoveryStep, BeaconJoins
<1>3. CASE fault = "none" /\ DiscoveryRequest /\ UNCHANGED h
  <2>1. WatchInv'
    BY <1>3 DEF WatchInv, HType, Counts
  <2> QED
    BY <1>0, <1>3, <2>1, DiscoveryStep, RequestJoins
<1>4. CASE fault = "none" /\ Joining
  <2>1. WatchInv' /\ DiscoveryInv'
    BY <1>4 DEF Joining, WatchInv, HType, Counts, DiscoveryInv, DType, Announces, Announced
  <2> QED
    BY <1>0, <1>4, <2>1, JoinStep
<1>5. CASE Watch
  <2>1. UNCHANGED <<d, a, fault>>
    BY <1>5 DEF Watch
  <2>2. DiscoveryInv'
    BY <2>1 DEF DiscoveryInv, DType, Announces, Announced
  <2>3. JoinInv'
    BY <1>0, <2>1, QuietStep
  <2> QED
    BY <1>5, <2>2, <2>3, WatchStep
<1>6. CASE UNCHANGED vars
  <2>1. UNCHANGED <<d, a, fault, h>>
    BY <1>6 DEF vars
  <2>2. DiscoveryInv' /\ WatchInv'
    BY <2>1 DEF WatchInv, HType, Counts, DiscoveryInv, DType, Announces, Announced
  <2>3. JoinInv'
    BY <1>0, <2>1, QuietStep
  <2> QED
    BY <2>2, <2>3
<1> QED
  BY <1>1, <1>2, <1>3, <1>4, <1>5, <1>6 DEF Next

\* and so it holds always.
LEMMA PresenceHolds == Spec => []PresenceInv
  BY InitPresence, PresenceStep, PTL DEF Spec

\* The three records keep their types; the count and the periods of silence
\* stay below their bounds, and no more jobs are queued than calls were made.
THEOREM TypeCorrect == Spec => []TypeOK
<1>1. ASSUME PresenceInv PROVE TypeOK
  <2>1. DType /\ AType /\ FaultType /\ HType /\ Counts /\ Counted
    BY <1>1 DEF PresenceInv, DiscoveryInv, JoinInv, WatchInv
  <2>2. a.jobs \in 0..MaxCalls
    BY <2>1, AFields, PresenceAssumption DEF Counted
  <2>3. h.count \in 0..(MaxMissed + 1) /\ h.seen \in 0..(MaxMissed + 1)
        /\ h.quiet \in 0..(MaxMissed + 2)
    BY <2>1, PresenceAssumption DEF HType, Counts
  <2> QED
    BY <2>1, <2>2, <2>3 DEF TypeOK, DType, AType, FaultType, HType, PromiseType
<1> QED
  BY <1>1, PresenceHolds, PTL

\* At rest, what the application was told last of a stage is what the list of
\* discovered servers says, unless a beacon was handled while the timer dropped
\* the stage: for any number of beacons, losses and deferred events.
THEOREM AnnouncedInOrder == Spec => []ToldIsListed
<1>1. ASSUME PresenceInv PROVE ToldIsListed
  BY <1>1 DEF PresenceInv, DiscoveryInv, Announces, Announced, ToldIsListed
<1> QED
  BY <1>1, PresenceHolds, PTL

\* An auto join gives up only on a stage that was not discovered while it
\* waited, or whose discovery its promise had no chance to see.
THEOREM DiscoverySeen == Spec => []AutoJoinSees
<1>1. ASSUME PresenceInv PROVE AutoJoinSees
  <2> SUFFICES ASSUME NEW r \in Runners,
                      a.runner[r] = "late" /\ a.future[r] = a.request,
                      ~a.promise[a.request].value, d.handler = "idle" /\ d.listed
               PROVE  a.promise[a.request].missed
    BY DEF AutoJoinSees
  <2>1. a.request # 0
    BY <1>1 DEF PresenceInv, JoinInv, Held
  <2> QED
    BY <1>1, <2>1 DEF PresenceInv, JoinInv, Reached
<1> QED
  BY <1>1, PresenceHolds, PTL

\* One auto join at a time takes no future twice and erases no request twice,
\* for any number of calls.
THEOREM CallsAloneSafe == Spec => []OneCallIsSafe
<1>1. ASSUME PresenceInv PROVE OneCallIsSafe
  BY <1>1 DEF PresenceInv, JoinInv, Alone, OneCallIsSafe
<1> QED
  BY <1>1, PresenceHolds, PTL

\* The stage removes a silent client after MAX_MISSED_HEARTBEATS + 1 checks or
\* one more, whatever MAX_MISSED_HEARTBEATS is and however heartbeats fall
\* between the steps of a check.
THEOREM SilenceBounded == Spec => SilenceBounds
<1>1. ASSUME PresenceInv, [Next]_vars
      PROVE  [h.check = "judge" /\ h'.check = "idle" =>
                IF h'.present THEN h.quiet <= MaxMissed + 1
                              ELSE h.raced \/ h.quiet > MaxMissed]_vars
  <2> SUFFICES ASSUME Next, h.check = "judge", h'.check = "idle"
               PROVE  IF h'.present THEN h.quiet <= MaxMissed + 1
                                    ELSE h.raced \/ h.quiet > MaxMissed
    BY <1>1
  <2>1. HType /\ Counts
    BY <1>1 DEF PresenceInv, WatchInv
  <2>2. h' # h
    OBVIOUS
  <2>3. Watch
    BY <2>2 DEF Next, Discovery, Beacon, Joining
  <2>4. CheckJudge
    BY <2>1, <2>3 DEF Watch, HType, Arrive, Heartbeat, FallSilent, CheckRead, CheckClear,
                      CheckCount
  <2>5. h'.present <=> h.count <= MaxMissed
    BY <2>1, <2>4 DEF CheckJudge, HType
  <2>6. h.count \in Nat /\ h.quiet \in Nat
    BY <2>1 DEF HType
  <2> QED
    BY <2>1, <2>5, <2>6, PresenceAssumption DEF Counts
<1> QED
  BY <1>1, PresenceHolds, PTL DEF Spec, SilenceBounds
=============================================================================
