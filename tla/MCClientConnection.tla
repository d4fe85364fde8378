------------------------- MODULE MCClientConnection -------------------------
(***************************************************************************)
(* ClientConnection with a few pool threads and joins.                     *)
(***************************************************************************)
EXTENDS ClientConnection

CONSTANTS q1, q2

=============================================================================
