---------------------------- MODULE StagePresence -----------------------------
(***************************************************************************)
(* How a client and a stage notice each other's presence.                  *)
(*                                                                         *)
(* A stage publishes beacons.  The client's discovery thread keeps a list  *)
(* of the stages heard of and the time of each one's last beacon, a timer  *)
(* drops those that have been silent, and auto_join_stage waits for the    *)
(* beacon of a stage by name.  The three, and the pool thread of an        *)
(* asynchronous auto join, share the list, the times and the map of        *)
(* promises without a lock: each access is a step.  The model has one      *)
(* stage; different names share none of their entries.                     *)
(*                                                                         *)
(* In the other direction the stage's timer counts the periods in which a  *)
(* client sent no heartbeat, while the router's thread resets the count.   *)
(*                                                                         *)
(* Time is abstract: a beacon's time may turn out of date whenever no      *)
(* handler has renewed it, since beacons travel by multicast and may be    *)
(* lost.  The address of a stage follows from its name.                    *)
(***************************************************************************)
EXTENDS Integers, Sequences

CONSTANTS
    MaxMissed,   \* MAX_MISSED_HEARTBEATS
    MaxCalls,    \* bound on the calls of auto_join_stage
    MaxEvents    \* bound on deferred events of the application

ASSUME PresenceAssumption == MaxMissed \in Nat /\ MaxCalls \in Nat /\ MaxEvents \in Nat

\* Who runs join_on_beacon: the caller, or the one thread of m_thread_pool.
Runners == {"app", "pool"}

\* One in the map and one for each runner; 0 stands for none.
Promises == 1..3
NoPromise == [value |-> FALSE, taken |-> FALSE, broken |-> FALSE, missed |-> FALSE]

VARIABLES
    d,       \* discovery: see TypeOK for the fields of these records
    a,       \* auto join
    fault,   \* "none", or what the program died of
    h        \* the stage's record of one client

vars == <<d, a, fault, h>>

Init ==
    /\ d = [onAir |-> FALSE, listed |-> FALSE, stamp |-> "none",
            handler |-> "idle", timer |-> "idle", events |-> <<>>,
            told |-> "lost", torn |-> FALSE]
    /\ a = [joined |-> FALSE, call |-> "idle", jobs |-> 0, calls |-> 0,
            request |-> 0, promise |-> [p \in Promises |-> NoPromise],
            runner |-> [r \in Runners |-> "idle"], future |-> [r \in Runners |-> 0],
            window |-> FALSE, overlap |-> FALSE]
    /\ fault = "none"
    /\ h = [present |-> FALSE, beats |-> FALSE, flag |-> FALSE, count |-> 0,
            check |-> "idle", seen |-> 0, quiet |-> 0, raced |-> FALSE]

-----------------------------------------------------------------------------
(* The stage's beacon *)

StartBroadcast == ~d.onAir /\ d' = [d EXCEPT !.onAir = TRUE]

StopBroadcast == d.onAir /\ d' = [d EXCEPT !.onAir = FALSE]

\* s_handle_beacon hands the beacon to the event thread.  Beacons are alike: one
\* that waits in the queue is one that comes later, one that is lost never comes.
HandleBeacon ==
    /\ d.onAir /\ d.handler = "idle"
    /\ d' = [d EXCEPT !.handler = "find"]

-----------------------------------------------------------------------------
(* server_discovery_handler, on the discovery transport's event thread *)

DiscoveryFind ==
    /\ d.handler = "find"
    /\ d' = [d EXCEPT !.handler = IF d.listed THEN "renew" ELSE "insert"]
    /\ UNCHANGED a

\* "Reset beacon timeout": the assignment makes an entry if the timer has
\* erased it meanwhile.
DiscoveryRenew ==
    /\ d.handler = "renew"
    /\ d' = [d EXCEPT !.stamp = "fresh", !.handler = "idle",
                      !.torn = @ \/ d.stamp = "none" \/ d.timer # "idle"]
    /\ UNCHANGED a

DiscoveryInsert ==
    /\ d.handler = "insert"
    /\ d' = [d EXCEPT !.listed = TRUE, !.torn = d.timer # "idle", !.handler = "stamp"]
    /\ a' = [a EXCEPT !.window = a.call = "store"]

\* Mutant: a new stage is listed and announced, but not looked for among the
\* requests.
DiscoveryStamp_Returns ==
    /\ d.handler = "stamp" /\ Len(d.events) < MaxEvents
    /\ d' = [d EXCEPT !.stamp = IF @ = "none" THEN "fresh" ELSE @,
                      !.events = Append(@, "found"), !.handler = "idle"]
    /\ UNCHANGED a

\* emplace keeps a time that is there.
DiscoveryStamp ==
    /\ d.handler = "stamp" /\ Len(d.events) < MaxEvents
    /\ d' = [d EXCEPT !.stamp = IF @ = "none" THEN "fresh" ELSE @,
                      !.events = Append(@, "found"), !.handler = "request"]
    /\ UNCHANGED a

\* m_auto_join_stage is set by the first call.  set_value of a promise that has
\* its value throws out of the handler.
DiscoveryRequest ==
    /\ d.handler = "request"
    /\ d' = [d EXCEPT !.handler = "idle"]
    /\ LET p == a.request
       IN  IF p = 0 THEN UNCHANGED <<a, fault>>
           ELSE IF a.joined
           THEN a' = [a EXCEPT !.promise[p].missed = TRUE] /\ UNCHANGED fault
           ELSE IF a.promise[p].value THEN fault' = "satisfied" /\ UNCHANGED a
           ELSE a' = [a EXCEPT !.promise[p].value = TRUE] /\ UNCHANGED fault

-----------------------------------------------------------------------------
(* beaconcheck_timer and lost_server_beacon, on the timer thread *)

Expire == d.stamp = "fresh" /\ d' = [d EXCEPT !.stamp = "old"]

BeaconCheck ==
    /\ d.timer = "idle" /\ d.stamp = "old"
    /\ d' = [d EXCEPT !.timer = "list", !.torn = d.handler # "idle"]

\* Mutant: the stage stays in m_server_beacons.
LostList_Kept == d.timer = "list" /\ d' = [d EXCEPT !.timer = "stamp"]

LostList == d.timer = "list" /\ d' = [d EXCEPT !.listed = FALSE, !.timer = "stamp"]

LostStamp ==
    /\ d.timer = "stamp" /\ Len(d.events) < MaxEvents
    /\ d' = [d EXCEPT !.stamp = "none", !.events = Append(@, "lost"), !.timer = "idle"]

\* process_events delivers a deferred event.
Poll == d.events # <<>> /\ d' = [d EXCEPT !.told = Head(d.events), !.events = Tail(@)]

-----------------------------------------------------------------------------
(* auto_join_stage and join_on_beacon *)

\* join_stage returns at once when connected, and may fail (ClientConnection).
JoinOutcome == IF a.joined THEN {TRUE} ELSE BOOLEAN

\* "If the server beacon as already been received, join immediately"
AutoJoin ==
    /\ a.call = "idle" /\ a.runner["app"] = "idle" /\ a.calls < MaxCalls
    /\ \E joined \in IF d.listed THEN JoinOutcome ELSE {a.joined} :
         a' = [a EXCEPT !.calls = @ + 1, !.joined = joined,
                        !.call = IF d.listed THEN @ ELSE "store",
                        !.overlap = @ \/ a.runner["pool"] # "idle" \/ a.jobs > 0]
    /\ UNCHANGED fault

\* A promise that leaves the map breaks its future, if that has no value yet;
\* what no runner r waits for any more is freed.
Dropped(r) ==
    [p \in Promises |->
        IF \E q \in Runners \ {r} : a.future[q] = p
        THEN [a.promise[p] EXCEPT !.broken = @ \/ p = a.request]
        ELSE NoPromise]

FreePromise == CHOOSE p \in Promises : p # a.request /\ \A r \in Runners : a.future[r] # p

\* The new promise replaces one that is in the map.
AutoJoinStore(async) ==
    /\ a.call = "store"
    /\ a' = [a EXCEPT
               !.call = "idle", !.window = FALSE,
               !.promise = [Dropped("none") EXCEPT ![FreePromise].missed = a.window],
               !.request = FreePromise,
               !.jobs = IF async THEN @ + 1 ELSE @,
               !.runner["app"] = IF async THEN @ ELSE "future"]
    /\ UNCHANGED fault

PoolStart ==
    /\ a.jobs > 0 /\ a.runner["pool"] = "idle"
    /\ a' = [a EXCEPT !.jobs = @ - 1, !.runner["pool"] = "future"]
    /\ UNCHANGED fault

\* operator[] makes a promise when there is none; a future can be had once.
JoinFuture(r) ==
    /\ a.runner[r] = "future"
    /\ IF a.request = 0
       THEN /\ a' = [a EXCEPT
                       !.promise[FreePromise] = [NoPromise EXCEPT !.taken = TRUE, !.missed = TRUE],
                       !.request = FreePromise,
                       !.future[r] = FreePromise, !.runner[r] = "wait"]
            /\ UNCHANGED fault
       ELSE /\ a' = [a EXCEPT !.promise[a.request].taken = TRUE,
                              !.future[r] = a.request, !.runner[r] = "wait"]
            /\ fault' = IF a.promise[a.request].taken THEN "retrieved" ELSE fault

\* A broken promise ends the wait, and its exception the function.
JoinWoken(r) ==
    /\ a.runner[r] = "wait"
    /\ LET p == a.promise[a.future[r]]
       IN  /\ p.value \/ p.broken
           /\ a' = [a EXCEPT !.runner[r] = IF p.value THEN "join" ELSE "idle",
                             !.future[r] = IF p.value THEN @ ELSE 0,
                             !.promise[a.future[r]] = IF p.value THEN @ ELSE NoPromise]
    /\ UNCHANGED fault

JoinTimeout(r) ==
    /\ a.runner[r] = "wait"
    /\ LET p == a.promise[a.future[r]] IN ~p.value /\ ~p.broken
    /\ a' = [a EXCEPT !.runner[r] = "late"]
    /\ UNCHANGED fault

JoinStage(r) ==
    /\ a.runner[r] = "join"
    /\ \E joined \in JoinOutcome :
         a' = [a EXCEPT !.joined = joined, !.runner[r] = "erase"]
    /\ UNCHANGED fault

\* Mutant: the request is erased again after a timeout.
JoinErase_Twice(r) ==
    /\ a.runner[r] \in {"late", "erase"}
    /\ a' = [a EXCEPT !.request = 0, !.promise = Dropped(r),
                      !.future[r] = 0,
                      !.runner[r] = IF @ = "late" THEN "erase" ELSE "idle"]
    /\ fault' = IF a.request = 0 THEN "erased" ELSE fault

\* erase(find(...)) of a request that is gone is undefined.
JoinErase(r) ==
    /\ a.runner[r] \in {"late", "erase"}
    /\ a' = [a EXCEPT !.request = 0, !.promise = Dropped(r),
                      !.runner[r] = "idle", !.future[r] = 0]
    /\ fault' = IF a.request = 0 THEN "erased" ELSE fault

\* leave_stage_complete (ClientConnection)
Leave == a.joined /\ a' = [a EXCEPT !.joined = FALSE] /\ UNCHANGED fault

-----------------------------------------------------------------------------
(* Heartbeats at the stage: the router's thread *)

\* create_client_handler: the constructor from a buffer leaves the flag unset.
Arrive ==
    /\ ~h.present /\ h.check = "idle"
    /\ \E flag \in BOOLEAN :
         h' = [h EXCEPT !.present = TRUE, !.beats = TRUE, !.flag = flag, !.count = 0,
                        !.quiet = 0, !.raced = FALSE]

\* Mutant: the heartbeat sets the flag only.
Heartbeat_KeepsCount ==
    /\ h.present /\ h.beats
    /\ h' = [h EXCEPT !.flag = TRUE, !.quiet = 0, !.raced = h.check # "idle"]

\* signal_handler and set_heartbeat_active
Heartbeat ==
    /\ h.present /\ h.beats
    /\ h' = [h EXCEPT !.flag = TRUE, !.count = 0,
                      !.quiet = 0, !.raced = h.check # "idle"]

\* The client dies, or its network does.
FallSilent == h.present /\ h.beats /\ h' = [h EXCEPT !.beats = FALSE]

(* ... and the timer's thread, stage_heartbeat_timer *)

CheckRead ==
    /\ h.present /\ h.check = "idle"
    /\ h' = [h EXCEPT !.check = IF h.flag THEN "clear" ELSE "count",
                      !.seen = h.count, !.quiet = @ + 1]

CheckClear == h.check = "clear" /\ h' = [h EXCEPT !.flag = FALSE, !.check = "judge"]

\* The increment races with the reset: it may write what it had read.
CheckCount ==
    /\ h.check = "count"
    /\ \E n \in {h.seen + 1, h.count + 1} :
         h' = [h EXCEPT !.count = n, !.check = "judge"]

CheckJudge ==
    /\ h.check = "judge"
    /\ h' = [h EXCEPT !.present = h.count <= MaxMissed, !.check = "idle"]

-----------------------------------------------------------------------------

Discovery ==
    /\ \/ StartBroadcast \/ StopBroadcast \/ HandleBeacon
       \/ Expire \/ BeaconCheck \/ LostList \/ LostStamp \/ Poll
    /\ UNCHANGED <<a, fault, h>>

Beacon ==
    /\ \/ DiscoveryFind \/ DiscoveryRenew \/ DiscoveryInsert \/ DiscoveryStamp
    /\ UNCHANGED <<fault, h>>

Joining ==
    /\ \/ AutoJoin \/ PoolStart \/ Leave
       \/ \E async \in BOOLEAN : AutoJoinStore(async)
       \/ \E r \in Runners :
            \/ JoinFuture(r) \/ JoinWoken(r) \/ JoinTimeout(r)
            \/ JoinStage(r) \/ JoinErase(r)
    /\ UNCHANGED <<d, h>>

Watch ==
    /\ \/ Arrive \/ Heartbeat \/ FallSilent
       \/ CheckRead \/ CheckClear \/ CheckCount \/ CheckJudge
    /\ UNCHANGED <<d, a, fault>>

\* Nothing follows a fault.
Next ==
    /\ fault = "none"
    /\ Discovery \/ Beacon \/ (DiscoveryRequest /\ UNCHANGED h) \/ Joining \/ Watch

Spec == Init /\ [][Next]_vars

-----------------------------------------------------------------------------
(* Properties *)

\* Types of the three records.
TypeOK ==
    /\ d \in [onAir : BOOLEAN,                     \* the stage broadcasts
              listed : BOOLEAN,                    \* in m_server_beacons
              stamp : {"none", "fresh", "old"},    \* m_server_beacon_timestamps
              handler : {"idle", "find", "renew", "insert", "stamp", "request"},
              timer : {"idle", "list", "stamp"},
              events : Seq({"found", "lost"}),     \* deferred, and the last one
              told : {"found", "lost"},            \* the application got
              torn : BOOLEAN]                      \* history: handler met timer
    /\ a \in [joined : BOOLEAN,                    \* m_connected_to_stage
              call : {"idle", "store"}, jobs : 0..MaxCalls, calls : 0..MaxCalls,
              request : Promises \cup {0},         \* m_auto_join_stage_requests
              promise : [Promises -> [value : BOOLEAN, taken : BOOLEAN,
                                      broken : BOOLEAN, missed : BOOLEAN]],
              runner : [Runners -> {"idle", "future", "wait", "join", "late", "erase"}],
              future : [Runners -> Promises \cup {0}],
              window : BOOLEAN,                    \* history: listed before the store
              overlap : BOOLEAN]                   \* history: two calls at once
    /\ fault \in {"none", "satisfied", "retrieved", "erased"}
    /\ h \in [present : BOOLEAN, beats : BOOLEAN,  \* at the stage; alive
              flag : BOOLEAN, count : 0..(MaxMissed + 1),
              check : {"idle", "clear", "count", "judge"}, seen : 0..(MaxMissed + 1),
              quiet : 0..(MaxMissed + 2),          \* history: checks since a beat
              raced : BOOLEAN]                     \* history: a beat in a check

\* What the application was told last of a stage, discovered or lost, is what
\* get_discovered_servers says, once the threads are at rest: each change of the
\* list is announced, in the order of the changes.  Excepted is a beacon that
\* is handled while the timer drops the same stage.
ToldIsListed ==
    (d.handler = "idle" /\ d.timer = "idle" /\ d.events = <<>> /\ ~d.torn)
        => (d.listed <=> d.told = "found")

\* An auto join whose promise is the one in the map gives up only on a stage that
\* was not discovered while it waited.  Excepted are a promise that came after
\* the stage was listed, in the window between the test of the list and the
\* store, and a discovery while the client was connected; a beacon after the
\* wait comes too late for it.
AutoJoinSees ==
    \A r \in Runners :
        (/\ a.runner[r] = "late" /\ a.future[r] = a.request
         /\ ~a.promise[a.request].value
         /\ d.handler = "idle" /\ d.listed) => a.promise[a.request].missed

\* A program that makes one auto join at a time takes no future twice and erases
\* no request twice, however timeouts, beacons and lost stages fall.
OneCallIsSafe == fault \in {"retrieved", "erased"} => a.overlap

\* A client is removed after MAX_MISSED_HEARTBEATS + 1 checks without a
\* heartbeat, or one more: no earlier, unless its last heartbeat fell inside a
\* check and was overwritten, and no later.
SilenceBounds ==
    [][h.check = "judge" /\ h'.check = "idle" =>
         IF h'.present THEN h.quiet <= MaxMissed + 1
                       ELSE h.raced \/ h.quiet > MaxMissed]_vars
=============================================================================
