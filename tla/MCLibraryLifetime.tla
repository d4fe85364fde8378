-------------------------- MODULE MCLibraryLifetime ---------------------------
(***************************************************************************)
(* LibraryLifetime with one worker, the application and a stage.           *)
(***************************************************************************)
EXTENDS LibraryLifetime

CONSTANTS w1, w2

===============================================================================
