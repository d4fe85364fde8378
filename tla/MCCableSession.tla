--------------------------- MODULE MCCableSession ---------------------------
(***************************************************************************)
(* CableSession with an input limited to one cable, an output of the same  *)
(* performer and an output of another one.                                 *)
(***************************************************************************)
EXTENDS CableSession

CONSTANTS ann, bob, i, x, y

MCHome == (i :> ann) @@ (x :> ann) @@ (y :> bob)
MCLimit == (i :> 1)

=============================================================================
