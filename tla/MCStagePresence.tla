---------------------------- MODULE MCStagePresence ----------------------------
(***************************************************************************)
(* Instance of StagePresence for TLC.  The discovery of a stage and the    *)
(* watch over a client share no variable, so that each needs to be         *)
(* explored only while the other is where it began.                        *)
(***************************************************************************)
EXTENDS StagePresence

OneSide ==
    \/ ~d.onAir /\ d.handler = "idle" /\ ~d.listed /\ d.stamp = "none" /\ a.calls = 0
    \/ ~h.present /\ h.quiet = 0
=============================================================================
