----------------------------- MODULE MCEntityTree -----------------------------
(* Instance of EntityTree for TLC. *)
EXTENDS EntityTree

CONSTANTS comp, part, factory, proxy, proxypart, proxyfactory

MCLocals == {comp, part, factory}
MCRemotes == {proxy, proxypart, proxyfactory}
MCFactories == {factory, proxyfactory}

=============================================================================
