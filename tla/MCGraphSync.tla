----------------------------- MODULE MCGraphSync -----------------------------
(***************************************************************************)
(* GraphSync with a performer that has a component and a factory, and one  *)
(* that watches them and asks the factory for an entity.                   *)
(***************************************************************************)
EXTENDS GraphSync

CONSTANTS ann, bob, f, k

MCHome == (f :> ann) @@ (k :> ann)
MCFactory == (k :> f)

=============================================================================
