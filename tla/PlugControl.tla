---------------------------- MODULE PlugControl ----------------------------
(***************************************************************************)
(* Who may fire an output plug.  Every performer holds an instance of the  *)
(* plug: its creator the plug itself, the others a proxy.  An instance may *)
(* fire when its m_can_fire flag is set.  The creator's flag is set when   *)
(* the stage accepts the plug and again when the plug is activated; after  *)
(* that the flags follow the owner, which any performer may change: it     *)
(* asks the stage, the stage records the owner, links the performers that  *)
(* listen to the plug and broadcasts the new owner, and each client sets   *)
(* its flag when the broadcast reaches it.                                 *)
(***************************************************************************)
EXTENDS Naturals, Sequences

CONSTANTS
  Performers,    \* performers that know the plug
  Creator,       \* the performer whose entity the plug is
  Receivers,     \* performers with an input plug at the end of a cable
  NoOwner,       \* the empty owner a release request carries
  MaxAsks        \* bound: ownership requests in a behaviour

ASSUME ControlAssumption ==
  /\ Creator \in Performers
  /\ Receivers \subseteq Performers
  /\ NoOwner \notin Performers
  /\ MaxAsks \in Nat

Owners == Performers \cup {NoOwner}

VARIABLES
  present,     \* performers the stage still knows
  requests,    \* ownership requests of each performer on their way to the stage
  stageOwner,  \* m_current_owner of the plug's proxy on the stage
  moved,       \* history: the stage has changed the owner at least once
  orders,      \* ownership broadcasts on their way to each performer
  owner,       \* m_current_owner of each instance
  canFire,     \* m_can_fire of each instance
  ruled,       \* history: performers that applied a broadcast
  born,        \* the creator's plug: "asked", "queued" or "active"
  late,        \* history: the creator's flag was set after it lost the plug
  hears,       \* <<listener, publisher>>: graph subscriptions
  links,       \* subscriptions the stage has asked for
  asks         \* ownership requests made so far

controlVars == <<present, requests, stageOwner, moved, orders, owner, canFire,
                 ruled, born, late, hears, links, asks>>

-----------------------------------------------------------------------------

\* The stage has the plug's proxy, its arrival is known to every performer and
\* the creator waits for the answer.  The cables in place have linked the
\* receivers with the creator; other cables may have linked them the other way.
ControlInit ==
  /\ present = Performers
  /\ requests = [p \in Performers |-> <<>>]
  /\ stageOwner = NoOwner
  /\ moved = FALSE
  /\ orders = [p \in Performers |-> <<>>]
  /\ owner = [p \in Performers |-> NoOwner]
  /\ canFire = [p \in Performers |-> FALSE]
  /\ ruled = {}
  /\ born = "asked"
  /\ late = FALSE
  /\ \E more \in SUBSET ({Creator} \X (Performers \ {Creator})) :
       hears = ((Receivers \ {Creator}) \X {Creator}) \cup more
  /\ links = {}
  /\ asks = 0

-----------------------------------------------------------------------------

\* The creator's flag is raised without a look at the owner.
RaiseFlag ==
  /\ canFire' = [canFire EXCEPT ![Creator] = TRUE]
  /\ late' = (late \/ (Creator \in ruled /\ owner[Creator] # Creator))

\* The stage's answer: activate_entity_complete queues the activation and
\* announces the arrival, which marks a plug of the local performer as fireable.
Accepted ==
  /\ born = "asked"
  /\ born' = "queued"
  /\ RaiseFlag
  /\ UNCHANGED <<present, requests, stageOwner, moved, orders, owner, ruled,
                 hears, links, asks>>

\* on_activation, run by the application's process_events.
Activated ==
  /\ born = "queued"
  /\ born' = "active"
  /\ RaiseFlag
  /\ UNCHANGED <<present, requests, stageOwner, moved, orders, owner, ruled,
                 hears, links, asks>>

\* The request to take over the plug, or to give it up, goes to the stage.
SendOwnership(p, o) == requests' = [requests EXCEPT ![p] = Append(@, o)]

\* The application of p acquires the plug (o is p) or releases it (o is NoOwner).
\* Nothing on the client compares p with the present owner.
AskOwnership(p, o) ==
  /\ asks < MaxAsks
  /\ asks' = asks + 1
  /\ SendOwnership(p, o)
  /\ UNCHANGED <<present, stageOwner, moved, orders, owner, canFire, ruled,
                 born, late, hears, links>>

\* The listeners the stage links with a new owner: the owner is asked to
\* listen to each receiver of the plug that is another performer.
NewLinks(o) ==
  IF o = NoOwner THEN {}
  ELSE {<<o, r>> : r \in (Receivers \cap present) \ {o}} \ hears

\* Mutant: the performer that asked is left out of the broadcast.
TakeOwnership_Others(p) ==
  /\ p \in present
  /\ requests[p] # <<>>
  /\ LET o == Head(requests[p])
     IN /\ stageOwner' = o
        /\ links' = links \cup NewLinks(o)
        /\ orders' = [q \in Performers |->
                        IF q \in present \ {p} THEN Append(orders[q], o) ELSE orders[q]]
  /\ requests' = [requests EXCEPT ![p] = Tail(@)]
  /\ moved' = TRUE
  /\ UNCHANGED <<present, owner, canFire, ruled, born, late, hears, asks>>

\* The stage's handler: records the owner, links the clients and broadcasts.
TakeOwnership(p) ==
  /\ p \in present
  /\ requests[p] # <<>>
  /\ LET o == Head(requests[p])
     IN /\ stageOwner' = o
        /\ links' = links \cup NewLinks(o)
        /\ orders' = [q \in Performers |->
                        IF q \in present THEN Append(orders[q], o) ELSE orders[q]]
  /\ requests' = [requests EXCEPT ![p] = Tail(@)]
  /\ moved' = TRUE
  /\ UNCHANGED <<present, owner, canFire, ruled, born, late, hears, asks>>

\* A request of a performer the stage no longer knows is dropped.
DropRequest(p) ==
  /\ p \notin present
  /\ requests[p] # <<>>
  /\ requests' = [requests EXCEPT ![p] = Tail(@)]
  /\ UNCHANGED <<present, stageOwner, moved, orders, owner, canFire, ruled, born,
                 late, hears, links, asks>>

\* What ZstOutputPlug::set_owner makes of the flag at performer p.
Controls(p, o) == o = p

\* A client applies a broadcast to the plug.
HearOwner(p) ==
  /\ orders[p] # <<>>
  /\ LET o == Head(orders[p])
     IN /\ owner' = [owner EXCEPT ![p] = o]
        /\ canFire' = [canFire EXCEPT ![p] = Controls(p, o)]
  /\ orders' = [orders EXCEPT ![p] = Tail(@)]
  /\ ruled' = ruled \cup {p}
  /\ late' = (late /\ p # Creator)
  /\ UNCHANGED <<present, requests, stageOwner, moved, born, hears, links, asks>>

\* The handshake of a link is over and the listener hears the publisher.
Linked(l) ==
  /\ l \in links
  /\ links' = links \ {l}
  /\ hears' = hears \cup {l}
  /\ UNCHANGED <<present, requests, stageOwner, moved, orders, owner, canFire,
                 ruled, born, late, asks>>

\* The stage evicts a performer other than the creator.  The performer is not
\* told: its flag, its subscriptions and the messages on their way to it stay,
\* but no further broadcast reaches it.  The owner on the stage stays as well.
Evict(p) ==
  /\ p \in present \ {Creator}
  /\ present' = present \ {p}
  /\ UNCHANGED <<requests, stageOwner, moved, orders, owner, canFire, ruled, born,
                 late, hears, links, asks>>

ControlNext ==
  \/ Accepted
  \/ Activated
  \/ \E p \in Performers :
       \/ AskOwnership(p, p)
       \/ AskOwnership(p, NoOwner)
       \/ TakeOwnership(p)
       \/ DropRequest(p)
       \/ HearOwner(p)
       \/ Evict(p)
  \/ \E l \in Performers \X Performers : Linked(l)

ControlSpec == ControlInit /\ [][ControlNext]_controlVars

-----------------------------------------------------------------------------

\* Every variable of the control protocol stays in its domain.
ControlTypeOK ==
  /\ present \subseteq Performers
  /\ requests \in [Performers -> Seq(Owners)]
  /\ stageOwner \in Owners
  /\ moved \in BOOLEAN
  /\ orders \in [Performers -> Seq(Owners)]
  /\ owner \in [Performers -> Owners]
  /\ canFire \in [Performers -> BOOLEAN]
  /\ ruled \subseteq Performers
  /\ born \in {"asked", "queued", "active"}
  /\ late \in BOOLEAN
  /\ hears \subseteq Performers \X Performers
  /\ links \subseteq Performers \X Performers
  /\ asks \in 0 .. MaxAsks

\* Whom the stage's last decision leaves in control: the creator before the
\* first one, then the performer it named, and nobody once it released the plug
\* with an empty owner.  The comments at ZstClientSession.cpp:286 and
\* ZstStageSession.cpp:264 say that a release gives the plug back to its
\* original owner; no code does, as set_owner compares the owner with the local
\* performer and an empty path is nobody's.
Controller == {p \in Performers : p = IF moved THEN stageOwner ELSE Creator}

\* Fire control converges (ZstPlug.cpp set_owner, on_activation; ZstClient.cpp
\* init_arriving_plug; the stage's ownership handler): once the plug is active
\* and no broadcast is on its way to a performer the stage knows, that
\* performer can fire exactly when the stage's last decision put it in control,
\* whatever the order in which requests, broadcasts and the creator's two
\* activation steps happened.  The one exception is the creator whose flag was
\* raised by an activation step after it had already applied the loss of the
\* plug: it goes on firing beside the owner until the next broadcast.  After a
\* release it follows that no performer can fire the plug at all, its creator
\* included, until somebody acquires it: not what the comments at
\* ZstClientSession.cpp:286 and ZstStageSession.cpp:264 promise.
ControlAgrees ==
  born = "active" =>
    \A p \in present :
      orders[p] = <<>> =>
        (canFire[p] <=> (p \in Controller \/ (p = Creator /\ late)))

=============================================================================
