-------------------------- MODULE ClientConnection --------------------------
(***************************************************************************)
(* The connection of one ZstClient to a stage: joining, the heartbeat      *)
(* timer, and the three ways to leave (the application asks, the stage     *)
(* quits, a heartbeat is not answered), each on a thread of its own.       *)
(*                                                                         *)
(* The heartbeat timer is a boost::asio::deadline_timer.  Its handler is   *)
(* bound without the error code, so a cancelled wait runs it just like an  *)
(* expired one; expires_at, expires_from_now and cancel cancel every wait  *)
(* that is pending.  The model therefore counts waits and queued handlers. *)
(*                                                                         *)
(* The requests' replies come through MessageSupervisor; here each answer  *)
(* is one of the outcomes it can have.  The stage is an environment that   *)
(* is up or down.  The entities of the client are its root performer only. *)
(***************************************************************************)
EXTENDS Integers

CONSTANTS
  App,          \* the application's thread
  Net,          \* the event thread of the client's stage transport
  Pool,         \* threads that wait for the replies to requests
  MaxJoins      \* bound: calls of join_stage that get as far as connecting

Leavers == {App, Net} \union Pool

ASSUME ConnectionAssumption ==
  /\ App # Net
  /\ {App, Net} \intersect Pool = {}
  /\ MaxJoins \in Nat

VARIABLES
  connecting,   \* m_is_connecting
  connected,    \* m_connected_to_stage
  up,           \* ZstTransportLayerBase::m_is_connected of the transport
  joins,        \* calls of join_stage so far
  pool,         \* the request each pool thread is busy with
  leave,        \* where each thread is in leave_stage_complete
  armed,        \* waits pending on m_heartbeat_timer
  posted,       \* timer handlers queued on the IO context
  beat,         \* where the running timer handler is
  status,       \* status of the root performer
  queued,       \* an activated event of the root is not yet delivered
  farewells,    \* deactivated and destroyed events of it are not yet either
  balance,      \* connections made, less those adaptors are told were lost
  stage         \* whether there is a stage that answers

vars == <<connecting, connected, up, joins, pool, leave, armed, posted, beat,
          status, queued, farewells, balance, stage>>

flags == <<connecting, connected, up>>
timer == <<armed, posted, beat>>
root == <<status, queued, farewells>>

Status == {"DEACTIVATED", "ACTIVATION_QUEUED", "ACTIVATED",
           "DEACTIVATION_QUEUED", "DESTROYED"}

\* Every variable has its type.
TypeOK ==
  /\ connecting \in BOOLEAN
  /\ connected \in BOOLEAN
  /\ up \in BOOLEAN
  /\ joins \in 0..MaxJoins
  /\ pool \in [Pool -> {"idle", "join", "arm", "heartbeat"}]
  /\ leave \in [Leavers -> {"none", "check", "flags", "teardown", "process"}]
  /\ armed \in Nat
  /\ posted \in Nat
  /\ beat \in {"none", "send", "rearm"}
  /\ status \in Status
  /\ queued \in BOOLEAN
  /\ farewells \in BOOLEAN
  /\ balance \in Int
  /\ stage \in {"up", "down"}

Init ==
  /\ connecting = FALSE
  /\ connected = FALSE
  /\ up = FALSE
  /\ joins = 0
  /\ pool = [p \in Pool |-> "idle"]
  /\ leave = [t \in Leavers |-> "none"]
  /\ armed = 0
  /\ posted = 0
  /\ beat = "none"
  /\ status = "DEACTIVATED"
  /\ queued = FALSE
  /\ farewells = FALSE
  /\ balance = 0
  /\ stage = "up"

-----------------------------------------------------------------------------
(* Joining.                                                                *)

\* join_stage, asynchronously: the request waits for its reply on thread p.
Join(p) ==
  /\ leave[App] = "none"
  /\ joins < MaxJoins
  /\ ~connecting
  /\ ~connected
  /\ pool[p] = "idle"
  /\ leave[p] = "none"
  /\ connecting' = TRUE
  /\ up' = TRUE
  /\ joins' = joins + 1
  /\ pool' = [pool EXCEPT ![p] = "join"]
  /\ UNCHANGED <<connected, leave, timer, root, balance, stage>>

\* The reply is Signal_OK: join_stage_complete up to the activation of the
\* root performer, whose status was set ACTIVATING on the way.
JoinAccepted(p) ==
  /\ pool[p] = "join"
  /\ stage = "up"
  /\ connecting' = FALSE
  /\ connected' = TRUE
  /\ status' = "ACTIVATION_QUEUED"
  /\ queued' = TRUE
  /\ balance' = balance + 1
  /\ pool' = [pool EXCEPT ![p] = "arm"]
  /\ UNCHANGED <<up, joins, leave, timer, farewells, stage>>

\* Mutant: the heartbeat timer is only set up by the first join.
JoinArm_FirstOnly(p) ==
  /\ pool[p] = "arm"
  /\ IF joins = 1
       THEN /\ posted' = posted + armed
            /\ armed' = 1
       ELSE UNCHANGED <<posted, armed>>
  /\ pool' = [pool EXCEPT ![p] = "idle"]
  /\ UNCHANGED <<flags, joins, leave, beat, root, balance, stage>>

\* The rest of join_stage_complete: the timer's new expiry cancels the waits
\* that are pending, and a new wait begins; adaptors are told.
JoinArm(p) ==
  /\ pool[p] = "arm"
  /\ posted' = posted + armed
  /\ armed' = 1
  /\ pool' = [pool EXCEPT ![p] = "idle"]
  /\ UNCHANGED <<flags, joins, leave, beat, root, balance, stage>>

\* The stage refused, or STAGE_TIMEOUT passed: the callback just returns.
JoinFailed(p) ==
  /\ pool[p] = "join"
  /\ pool' = [pool EXCEPT ![p] = "idle"]
  /\ UNCHANGED <<flags, joins, leave, timer, root, balance, stage>>

-----------------------------------------------------------------------------
(* heartbeat_timer, on the timer thread.                                   *)

\* The timer expires: every wait pending on it is over.
TimerExpires ==
  /\ armed > 0
  /\ posted' = posted + armed
  /\ armed' = 0
  /\ UNCHANGED <<flags, joins, pool, leave, beat, root, balance, stage>>

\* A handler runs; on a client that is not connected it does nothing.
HandlerStart ==
  /\ beat = "none"
  /\ posted > 0
  /\ posted' = posted - 1
  /\ beat' = IF connected THEN "send" ELSE "none"
  /\ UNCHANGED <<flags, joins, pool, leave, armed, root, balance, stage>>

\* The heartbeat is posted to the pool.
HandlerSend(p) ==
  /\ beat = "send"
  /\ up
  /\ pool[p] = "idle"
  /\ leave[p] = "none"
  /\ pool' = [pool EXCEPT ![p] = "heartbeat"]
  /\ beat' = "rearm"
  /\ UNCHANGED <<flags, joins, leave, armed, posted, root, balance, stage>>

\* The transport is down: begin_send_message returns, with no callback.
HandlerSendNothing ==
  /\ beat = "send"
  /\ ~up
  /\ beat' = "rearm"
  /\ UNCHANGED <<flags, joins, pool, leave, armed, posted, root, balance, stage>>

\* Mutant: the handler begins a wait of its own besides the one it renews.
HandlerRearm_Twice ==
  /\ beat = "rearm"
  /\ posted' = posted + armed
  /\ armed' = 2
  /\ beat' = "none"
  /\ UNCHANGED <<flags, joins, pool, leave, root, balance, stage>>

\* expires_at cancels the waits that are pending; async_wait adds one.
HandlerRearm ==
  /\ beat = "rearm"
  /\ posted' = posted + armed
  /\ armed' = 1
  /\ beat' = "none"
  /\ UNCHANGED <<flags, joins, pool, leave, root, balance, stage>>

\* The heartbeat's reply is Signal_OK.
HeartbeatAnswered(p) ==
  /\ pool[p] = "heartbeat"
  /\ stage = "up"
  /\ pool' = [pool EXCEPT ![p] = "idle"]
  /\ UNCHANGED <<flags, joins, leave, timer, root, balance, stage>>

\* Mutant: a heartbeat that is not answered is not acted upon.
HeartbeatFailed_Ignored(p) ==
  /\ pool[p] = "heartbeat"
  /\ pool' = [pool EXCEPT ![p] = "idle"]
  /\ UNCHANGED <<flags, joins, leave, timer, root, balance, stage>>

\* It timed out, or the stage does not know us.  Whether the connection it
\* was sent on is still the present one is not asked.
HeartbeatFailed(p) ==
  /\ pool[p] = "heartbeat"
  /\ pool' = [pool EXCEPT ![p] = "idle"]
  /\ leave' = [leave EXCEPT ![p] = "check"]
  /\ UNCHANGED <<flags, joins, timer, root, balance, stage>>

-----------------------------------------------------------------------------
(* Leaving.                                                                *)

\* leave_stage: ClientLeaveRequest is published, nobody waits for an answer.
AppLeave ==
  /\ leave[App] = "none"
  /\ leave' = [leave EXCEPT ![App] = "check"]
  /\ connecting' = (connecting /\ ~connected)
  /\ UNCHANGED <<connected, up, joins, pool, timer, root, balance, stage>>

\* The stage quits and says so.  A client whose transport is connected gets
\* the message and will handle it (server_status_handler) on its own time.
StageQuits ==
  /\ stage = "up"
  /\ stage' = "down"
  /\ leave' = IF up /\ leave[Net] = "none"
                THEN [leave EXCEPT ![Net] = "check"] ELSE leave
  /\ UNCHANGED <<flags, joins, pool, timer, root, balance>>

\* leave_stage, which only the application calls, ends with process_events.
AfterLeave(t) == IF t = App THEN "process" ELSE "none"

\* leave_stage_complete: the flag is tested ...
LeaveCheck(t) ==
  /\ leave[t] = "check"
  /\ leave' = [leave EXCEPT ![t] = IF connected THEN "flags"
                                               ELSE AfterLeave(t)]
  /\ UNCHANGED <<flags, joins, pool, timer, root, balance, stage>>

\* ... then the flags are cleared, under no lock ...
LeaveFlags(t) ==
  /\ leave[t] = "flags"
  /\ connected' = FALSE
  /\ connecting' = FALSE
  /\ leave' = [leave EXCEPT ![t] = "teardown"]
  /\ UNCHANGED <<up, joins, pool, timer, root, balance, stage>>

\* ... then the timer is cancelled, the sockets are disconnected, the root
\* performer is deactivated if it is ACTIVATED, and adaptors are told.
LeaveTeardown(t) ==
  /\ leave[t] = "teardown"
  /\ posted' = posted + armed
  /\ armed' = 0
  /\ up' = FALSE
  /\ IF status = "ACTIVATED"
       THEN /\ status' = "DEACTIVATION_QUEUED"
            /\ farewells' = TRUE
       ELSE UNCHANGED <<status, farewells>>
  /\ balance' = balance - 1
  /\ leave' = [leave EXCEPT ![t] = AfterLeave(t)]
  /\ UNCHANGED <<connecting, connected, joins, pool, beat, queued, stage>>

-----------------------------------------------------------------------------
(* process_events on the application's thread.                             *)

\* All that is queued is delivered.  The activated event, and the deactivated
\* and destroyed events, were queued by different threads: the order in which
\* they come out is not the order in which they went in.
ProcessEvents ==
  /\ leave[App] \in {"none", "process"}
  /\ \/ queued /\ status' = "ACTIVATED"
     \/ farewells /\ status' = "DESTROYED"
     \/ ~queued /\ ~farewells /\ status' = status
  /\ queued' = FALSE
  /\ farewells' = FALSE
  /\ leave' = [leave EXCEPT ![App] = "none"]
  /\ UNCHANGED <<flags, joins, pool, timer, balance, stage>>

-----------------------------------------------------------------------------
(* The stage, as far as the client can tell.                               *)

StageDies ==
  /\ stage = "up"
  /\ stage' = "down"
  /\ UNCHANGED <<flags, joins, pool, leave, timer, root, balance>>

StageStarts ==
  /\ stage = "down"
  /\ stage' = "up"
  /\ UNCHANGED <<flags, joins, pool, leave, timer, root, balance>>

-----------------------------------------------------------------------------
PoolStep(p) ==
  \/ JoinAccepted(p) \/ JoinFailed(p)
  \/ JoinArm(p)
  \/ HeartbeatAnswered(p) \/ HeartbeatFailed(p)

LeaveStep(t) == LeaveCheck(t) \/ LeaveFlags(t) \/ LeaveTeardown(t)

\* The call of process_events that leave_stage makes.
LeaveProcess == leave[App] = "process" /\ ProcessEvents

TimerStep ==
  \/ HandlerStart
  \/ \E p \in Pool : HandlerSend(p)
  \/ HandlerSendNothing
  \/ HandlerRearm

Next ==
  \/ \E p \in Pool : Join(p)
  \/ \E p \in Pool : PoolStep(p)
  \/ AppLeave
  \/ \E t \in Leavers : LeaveStep(t)
  \/ TimerExpires
  \/ TimerStep
  \/ ProcessEvents
  \/ StageQuits \/ StageDies \/ StageStarts

Spec == Init /\ [][Next]_vars

(***************************************************************************)
(* Requests end by their timeout at the latest, the timer and its thread   *)
(* go on, and so does a thread that is leaving.  Nothing makes the         *)
(* application join, leave or process events, or the stage do anything.    *)
(***************************************************************************)
FairSpec ==
  /\ Spec
  /\ \A p \in Pool : WF_vars(PoolStep(p))
  /\ \A t \in Leavers : WF_vars(LeaveStep(t))
  /\ WF_vars(LeaveProcess)
  /\ WF_vars(TimerExpires)
  /\ WF_vars(TimerStep)

-----------------------------------------------------------------------------
(* Properties.                                                             *)

\* From the end of join_stage_complete on, as long as the client takes itself
\* for connected, the heartbeat goes on: a wait is pending, or a handler is
\* queued or running, whatever leaves, rejoins and cancellations overlapped.
HeartbeatGoesOn ==
  connected /\ (\A p \in Pool : pool[p] # "arm") =>
    armed + posted > 0 \/ beat # "none"

\* Every join sets off at most one chain of heartbeats: handlers that run
\* because their wait was cancelled carry on a chain and never split it.
OneChainPerJoin ==
  armed + posted + (IF beat = "none" THEN 0 ELSE 1)
    <= joins

\* A stage that stays silent is noticed: the heartbeats are not answered and
\* the client stops taking itself for connected.  The exception is a client
\* whose transport was disconnected by the late teardown of an earlier
\* connection: its heartbeats are not sent, so none of them ever fails.
SilentStageIsNoticed == <>[](stage = "down" /\ up) => <>[](~connected)

=============================================================================
