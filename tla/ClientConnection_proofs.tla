----------------------- MODULE ClientConnection_proofs -----------------------
(***************************************************************************)
(* Theorems about ClientConnection, for any number of pool threads and     *)
(* joins.                                                                  *)
(***************************************************************************)
EXTENDS ClientConnection, FiniteSetTheorems, TLAPS

\* The initial state has its types.
LEMMA InitType == Init => TypeOK
<1> SUFFICES ASSUME Init PROVE TypeOK
  OBVIOUS
<1>1. /\ connecting \in BOOLEAN /\ connected \in BOOLEAN /\ up \in BOOLEAN
      /\ queued \in BOOLEAN /\ farewells \in BOOLEAN
  BY Zenon DEF Init
<1> QED
  BY <1>1, ConnectionAssumption DEF Init, TypeOK, Status

\* Every step keeps the types.
LEMMA TypeStep ==
  ASSUME TypeOK, [Next]_vars
  PROVE  TypeOK'
<1> USE DEF TypeOK, flags, timer, root
<1>1. ASSUME NEW p \in Pool, Join(p) PROVE TypeOK'
  BY <1>1, ConnectionAssumption DEF Join
<1>2. ASSUME NEW p \in Pool, PoolStep(p) PROVE TypeOK'
  <2>1. CASE JoinAccepted(p)
    <3>1. connecting' \in BOOLEAN /\ connected' \in BOOLEAN /\ queued' \in BOOLEAN
      BY <2>1, Zenon DEF JoinAccepted
    <3> QED
      BY <2>1, <3>1 DEF JoinAccepted, Status
  <2>2. CASE JoinFailed(p)
    BY <2>2 DEF JoinFailed
  <2>3. CASE JoinArm(p)
    BY <2>3 DEF JoinArm
  <2>4. CASE HeartbeatAnswered(p)
    BY <2>4 DEF HeartbeatAnswered
  <2>5. CASE HeartbeatFailed(p)
    BY <2>5 DEF HeartbeatFailed, Leavers
  <2> QED
    BY <1>2, <2>1, <2>2, <2>3, <2>4, <2>5 DEF PoolStep
<1>3. ASSUME AppLeave PROVE TypeOK'
  <2>1. connecting' \in BOOLEAN
    BY <1>3 DEF AppLeave
  <2> QED
    BY <1>3, <2>1 DEF AppLeave, Leavers
<1>4. ASSUME NEW t \in Leavers, LeaveStep(t) PROVE TypeOK'
  <2>1. CASE LeaveCheck(t)
    BY <2>1 DEF LeaveCheck, AfterLeave
  <2>2. CASE LeaveFlags(t)
    <3>1. connecting' \in BOOLEAN /\ connected' \in BOOLEAN
      BY <2>2, Zenon DEF LeaveFlags
    <3> QED
      BY <2>2, <3>1 DEF LeaveFlags
  <2>3. CASE LeaveTeardown(t)
    <3>1. up' \in BOOLEAN /\ farewells' \in BOOLEAN
      BY <2>3, Zenon DEF LeaveTeardown
    <3>2. status' \in Status
      BY <2>3 DEF LeaveTeardown, Status
    <3>3. leave' \in [Leavers -> {"none", "check", "flags", "teardown", "process"}]
      BY <2>3 DEF LeaveTeardown, AfterLeave
    <3> QED
      BY <2>3, <3>1, <3>2, <3>3 DEF LeaveTeardown
  <2> QED
    BY <1>4, <2>1, <2>2, <2>3 DEF LeaveStep
<1>5. ASSUME TimerExpires PROVE TypeOK'
  BY <1>5 DEF TimerExpires
<1>6. ASSUME TimerStep PROVE TypeOK'
  <2>1. CASE HandlerStart
    BY <2>1 DEF HandlerStart
  <2>2. CASE \E p \in Pool : HandlerSend(p)
    BY <2>2 DEF HandlerSend
  <2>3. CASE HandlerSendNothing
    BY <2>3 DEF HandlerSendNothing
  <2>4. CASE HandlerRearm
    BY <2>4 DEF HandlerRearm
  <2> QED
    BY <1>6, <2>1, <2>2, <2>3, <2>4 DEF TimerStep
<1>7. ASSUME ProcessEvents PROVE TypeOK'
  BY <1>7 DEF ProcessEvents, Status, Leavers
<1>8. ASSUME StageQuits PROVE TypeOK'
  BY <1>8 DEF StageQuits, Leavers
<1>9. ASSUME StageDies \/ StageStarts PROVE TypeOK'
  BY <1>9 DEF StageDies, StageStarts
<1>10. CASE UNCHANGED vars
  BY <1>10 DEF vars
<1> QED
  BY <1>1, <1>2, <1>3, <1>4, <1>5, <1>6, <1>7, <1>8, <1>9, <1>10 DEF Next

\* Flags, counters and statuses keep their domains; in particular the counts
\* of timer waits and queued timer handlers never go below zero.
THEOREM TypeCorrect == Spec => []TypeOK
<1>1. TypeOK /\ [Next]_vars => TypeOK'
  BY TypeStep
<1> QED
  BY <1>1, InitType, PTL DEF Spec

-----------------------------------------------------------------------------
\* Every step keeps the heartbeat going.
LEMMA HeartbeatStep ==
  ASSUME TypeOK, HeartbeatGoesOn, [Next]_vars
  PROVE  HeartbeatGoesOn'
<1> USE DEF HeartbeatGoesOn, flags, timer, root
<1>1. ASSUME NEW p \in Pool, Join(p) PROVE HeartbeatGoesOn'
  BY <1>1 DEF Join
<1>2. ASSUME NEW p \in Pool, PoolStep(p) PROVE HeartbeatGoesOn'
  <2>1. CASE JoinAccepted(p)
    BY <2>1 DEF JoinAccepted, TypeOK
  <2>2. CASE JoinFailed(p)
    BY <2>2 DEF JoinFailed, TypeOK
  <2>3. CASE JoinArm(p)
    BY <2>3 DEF JoinArm, TypeOK
  <2>4. CASE HeartbeatAnswered(p)
    BY <2>4 DEF HeartbeatAnswered, TypeOK
  <2>5. CASE HeartbeatFailed(p)
    BY <2>5 DEF HeartbeatFailed, TypeOK
  <2> QED
    BY <1>2, <2>1, <2>2, <2>3, <2>4, <2>5 DEF PoolStep
<1>3. ASSUME AppLeave PROVE HeartbeatGoesOn'
  BY <1>3 DEF AppLeave
<1>4. ASSUME NEW t \in Leavers, LeaveStep(t) PROVE HeartbeatGoesOn'
  <2>1. CASE LeaveCheck(t)
    BY <2>1 DEF LeaveCheck
  <2>2. CASE LeaveFlags(t)
    BY <2>2 DEF LeaveFlags
  <2>3. CASE LeaveTeardown(t)
    BY <2>3 DEF LeaveTeardown, TypeOK
  <2> QED
    BY <1>4, <2>1, <2>2, <2>3 DEF LeaveStep
<1>5. ASSUME TimerExpires PROVE HeartbeatGoesOn'
  BY <1>5 DEF TimerExpires, TypeOK
<1>6. ASSUME TimerStep PROVE HeartbeatGoesOn'
  <2>1. CASE HandlerStart
    BY <2>1 DEF HandlerStart
  <2>2. CASE \E p \in Pool : HandlerSend(p)
    BY <2>2 DEF HandlerSend
  <2>3. CASE HandlerSendNothing
    BY <2>3 DEF HandlerSendNothing
  <2>4. CASE HandlerRearm
    BY <2>4 DEF HandlerRearm, TypeOK
  <2> QED
    BY <1>6, <2>1, <2>2, <2>3, <2>4 DEF TimerStep
<1>7. ASSUME ProcessEvents PROVE HeartbeatGoesOn'
  BY <1>7 DEF ProcessEvents
<1>8. ASSUME StageQuits \/ StageDies \/ StageStarts PROVE HeartbeatGoesOn'
  BY <1>8 DEF StageQuits, StageDies, StageStarts
<1>9. CASE UNCHANGED vars
  BY <1>9 DEF vars
<1> QED
  BY <1>1, <1>2, <1>3, <1>4, <1>5, <1>6, <1>7, <1>8, <1>9 DEF Next

\* A client that takes itself for connected has a heartbeat under way, however
\* many joins, leaves and failed heartbeats overlapped before: a cancelled
\* wait runs its handler, and the handler of a connected client waits again.
THEOREM HeartbeatNeverStops == Spec => []HeartbeatGoesOn
<1> DEFINE Inv == TypeOK /\ HeartbeatGoesOn
<1>1. Init => Inv
  BY InitType DEF Init, HeartbeatGoesOn
<1>2. Inv /\ [Next]_vars => Inv'
  BY TypeStep, HeartbeatStep
<1> QED
  BY <1>1, <1>2, PTL DEF Spec

-----------------------------------------------------------------------------
(* Chains of heartbeats.  OneChainPerJoin is not inductive: the end of a   *)
(* join starts a chain, so the joins that may still end must be counted.   *)

\* The pool threads whose join may still set the timer.
Owing == {p \in Pool : pool[p] \in {"join", "arm"}}

Chains == armed + posted + (IF beat = "none" THEN 0 ELSE 1)

\* Every join has started a chain, or may still start one, or neither.
ChainsPaid == IsFiniteSet(Owing) /\ Chains + Cardinality(Owing) <= joins

\* Chains and joins are counted.
LEMMA ChainsType ==
  /\ TypeOK => Chains \in Nat /\ joins \in Nat
  /\ TypeOK' => Chains' \in Nat
<1>1. TypeOK => armed \in Nat /\ posted \in Nat /\ joins \in Nat
  BY ConnectionAssumption DEF TypeOK
<1>2. TypeOK' => armed' \in Nat /\ posted' \in Nat
  BY DEF TypeOK
<1> QED
  BY <1>1, <1>2 DEF Chains

\* A step that moves no thread into or out of a join and makes no chain.
LEMMA QuietChains ==
  ASSUME TypeOK, TypeOK', ChainsPaid, Owing' = Owing, Chains' <= Chains,
         joins' = joins
  PROVE  ChainsPaid'
<1>1. Cardinality(Owing) \in Nat
  BY FS_CardinalityType DEF ChainsPaid
<1>2. Chains \in Nat /\ Chains' \in Nat /\ joins \in Nat
  BY ChainsType
<1> QED
  BY <1>1, <1>2 DEF ChainsPaid

\* A thread that is through with its join: it may have made one chain.
LEMMA JoinEnds ==
  ASSUME TypeOK, TypeOK', ChainsPaid, NEW p \in Pool, p \in Owing,
         Owing' = Owing \ {p}, Chains' <= Chains + 1, joins' = joins
  PROVE  ChainsPaid'
<1>1. IsFiniteSet(Owing')
  BY FS_RemoveElement DEF ChainsPaid
<1>2. Cardinality(Owing') = Cardinality(Owing) - 1
  BY FS_RemoveElement DEF ChainsPaid
<1>3. Cardinality(Owing) \in Nat
  BY FS_CardinalityType DEF ChainsPaid
<1>4. Chains \in Nat /\ Chains' \in Nat /\ joins \in Nat
  BY ChainsType
<1> QED
  BY <1>1, <1>2, <1>3, <1>4 DEF ChainsPaid

\* Every step keeps the account of chains and joins.
LEMMA ChainsStep ==
  ASSUME TypeOK, ChainsPaid, [Next]_vars
  PROVE  ChainsPaid'
<1> USE DEF flags, timer, root
<1>0. TypeOK'
  BY TypeStep
<1>1. ASSUME NEW p \in Pool, Join(p) PROVE ChainsPaid'
  <2>1. Owing' = Owing \union {p} /\ p \notin Owing
    BY <1>1 DEF Join, Owing, TypeOK
  <2>2. /\ IsFiniteSet(Owing')
        /\ Cardinality(Owing') = Cardinality(Owing) + 1
    BY <2>1, FS_AddElement DEF ChainsPaid
  <2>3. Cardinality(Owing) \in Nat
    BY FS_CardinalityType DEF ChainsPaid
  <2>4. Chains' = Chains /\ joins' = joins + 1 /\ Chains \in Nat /\ joins \in Nat
    BY <1>1, ConnectionAssumption DEF Join, Chains, TypeOK
  <2> QED
    BY <2>2, <2>3, <2>4 DEF ChainsPaid
<1>2. ASSUME NEW p \in Pool, PoolStep(p) PROVE ChainsPaid'
  <2>1. CASE JoinAccepted(p)
    <3>1. Owing' = Owing /\ Chains' <= Chains /\ joins' = joins
      BY <2>1 DEF JoinAccepted, Owing, Chains, TypeOK
    <3> QED BY <1>0, <3>1, QuietChains
  <2>2. CASE JoinFailed(p)
    <3>1. /\ p \in Owing /\ Owing' = Owing \ {p}
          /\ Chains' <= Chains + 1 /\ joins' = joins
      BY <2>2 DEF JoinFailed, Owing, Chains, TypeOK
    <3> QED BY <1>0, <3>1, JoinEnds
  <2>3. CASE JoinArm(p)
    <3>1. p \in Owing /\ Owing' = Owing \ {p}
      BY <2>3 DEF JoinArm, Owing, TypeOK
    <3>2. Chains' <= Chains + 1 /\ joins' = joins
      BY <2>3 DEF JoinArm, Chains, TypeOK
    <3> QED BY <1>0, <3>1, <3>2, JoinEnds
  <2>4. CASE HeartbeatAnswered(p) \/ HeartbeatFailed(p)
    <3>1. Owing' = Owing /\ Chains' <= Chains /\ joins' = joins
      BY <2>4 DEF HeartbeatAnswered, HeartbeatFailed, Owing, Chains, TypeOK
    <3> QED BY <1>0, <3>1, QuietChains
  <2> QED
    BY <1>2, <2>1, <2>2, <2>3, <2>4 DEF PoolStep
<1>3. ASSUME TimerExpires \/ TimerStep PROVE ChainsPaid'
  <2>1. joins' = joins
    BY <1>3
       DEF TimerExpires, TimerStep, HandlerStart, HandlerSend,
           HandlerSendNothing, HandlerRearm
  <2>2. Owing' = Owing
    BY <1>3
       DEF TimerExpires, TimerStep, HandlerStart, HandlerSend,
           HandlerSendNothing, HandlerRearm, Owing, TypeOK
  <2>3. Chains' <= Chains
    BY <1>3
       DEF TimerExpires, TimerStep, HandlerStart, HandlerSend,
           HandlerSendNothing, HandlerRearm, Chains, TypeOK
  <2> QED BY <1>0, <2>1, <2>2, <2>3, QuietChains
<1>4. ASSUME NEW t \in Leavers, LeaveStep(t) PROVE ChainsPaid'
  <2>1. Owing' = Owing /\ joins' = joins
    BY <1>4 DEF LeaveStep, LeaveCheck, LeaveFlags, LeaveTeardown, Owing
  <2>2. Chains' <= Chains
    BY <1>4
       DEF LeaveStep, LeaveCheck, LeaveFlags, LeaveTeardown, Chains, TypeOK
  <2> QED BY <1>0, <2>1, <2>2, QuietChains
<1>5. ASSUME \/ AppLeave \/ ProcessEvents
             \/ StageQuits \/ StageDies \/ StageStarts
             \/ UNCHANGED vars
      PROVE  ChainsPaid'
  <2>1. Owing' = Owing /\ joins' = joins /\ Chains' <= Chains
    BY <1>5
       DEF AppLeave, ProcessEvents, StageQuits, StageDies, StageStarts, vars,
           Owing, Chains, TypeOK
  <2> QED BY <1>0, <2>1, QuietChains
<1> QED
  BY <1>1, <1>2, <1>3, <1>4, <1>5 DEF Next

\* However many joins fail, leaves overlap and waits are cancelled, there are
\* never more heartbeat chains (waits, queued handlers and a running one) than
\* calls of join_stage: heartbeat_timer carries a chain on and splits none.
THEOREM ChainsBounded == Spec => []OneChainPerJoin
<1> DEFINE Inv == TypeOK /\ ChainsPaid
<1>1. Init => Inv
  <2> SUFFICES ASSUME Init PROVE Inv
    OBVIOUS
  <2>1. Owing = {} /\ Chains = 0 /\ joins = 0
    BY DEF Init, Owing, Chains
  <2> QED
    BY <2>1, InitType, FS_EmptySet DEF ChainsPaid
<1>2. Inv /\ [Next]_vars => Inv'
  BY TypeStep, ChainsStep
<1>3. Inv => OneChainPerJoin
  <2> SUFFICES ASSUME Inv PROVE OneChainPerJoin
    OBVIOUS
  <2>1. Cardinality(Owing) \in Nat
    BY FS_CardinalityType DEF ChainsPaid
  <2>2. Chains \in Nat /\ joins \in Nat
    BY ChainsType
  <2> QED
    BY <2>1, <2>2 DEF ChainsPaid, Chains, OneChainPerJoin
<1> QED
  BY <1>1, <1>2, <1>3, PTL DEF Spec

=============================================================================
