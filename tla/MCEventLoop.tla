----------------------------- MODULE MCEventLoop -----------------------------
(***************************************************************************)
(* EventLoop with the router's thread, the heartbeat timer's thread and    *)
(* the loop, which deliver performers, entities and cables.                *)
(***************************************************************************)
EXTENDS EventLoop

CONSTANTS router, timer, loop

MCThreads == {router, timer, loop}
MCChannels == {<<router, "session">>, <<timer, "hierarchy">>, <<loop, "entity">>}
MCDispatchers == {"hierarchy", "entity", "session", "cable"}

=============================================================================
