--------------------------- MODULE MCPeerHandshake ---------------------------
(***************************************************************************)
(* PeerHandshake with a cable and an observe request, or two cables.       *)
(***************************************************************************)
EXTENDS PeerHandshake

CONSTANTS c1, c2

=============================================================================
