-------------------------- MODULE MCProxyLifecycle --------------------------
(***************************************************************************)
(* ProxyLifecycle on the threads of a client and of a stage server.        *)
(***************************************************************************)
EXTENDS ProxyLifecycle

CONSTANTS n1, n2, p1, p2, e1, stage, graph, pool1, pool2, router, timer

\* Two incarnations of the same remote entity, and one local entity.
MCUri == [o \in Proxies \union Locals |-> IF o = e1 THEN n2 ELSE n1]

\* A client's local entity and a stage's proxies are of two processes: each
\* side is explored while the other is where it began.
OneSide ==
  \/ budget = MaxCalls /\ \A o \in Locals : Live(o)
  \/ /\ \A o \in Proxies : memory[o] = "unborn"
     /\ \A t \in Creators \union Removers \union Timers : call[t] = Idle

=============================================================================
