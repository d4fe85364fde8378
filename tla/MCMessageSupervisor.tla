------------------------ MODULE MCMessageSupervisor ------------------------
(***************************************************************************)
(* MessageSupervisor with a few concurrent requests.                       *)
(***************************************************************************)
EXTENDS MessageSupervisor

CONSTANTS r1, r2

=============================================================================
