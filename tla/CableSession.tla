---------------------------- MODULE CableSession ----------------------------
(***************************************************************************)
(* Cables: ZstSession on the stage (ZstStageSession) and on the clients    *)
(* (ZstClientSession), with the addresses each plug lists (ZstPlug).       *)
(*                                                                         *)
(* A client creates its cable early, as ACTIVATING, and asks the stage.    *)
(* The stage evicts the cables of an input at its limit, creates its own   *)
(* cable and publishes it to every client: at once when both plugs belong  *)
(* to one performer, and after a handshake of the performers otherwise.    *)
(* Destroyed cables, and those of a component that leaves, are published   *)
(* too.  A session keeps a destroyed cable in m_cables until its events    *)
(* are processed and the reaper erases it.                                 *)
(*                                                                         *)
(* A component that leaves is taken from its parent first: it and its      *)
(* plugs get new paths at once.  Until their deactivation is processed     *)
(* they can be found under the new paths, but no longer by the address of  *)
(* a cable, so their lists keep what is destroyed meanwhile.  Components   *)
(* have different names here, whichever performer they belong to.          *)
(*                                                                         *)
(* Threads: the stage's router handles requests, its event loop drains     *)
(* leaving events, entity events and cable events in this order, a pool    *)
(* thread finishes each handshake; a client's transport handles messages   *)
(* and its application calls the API and process_events (Poll).            *)
(***************************************************************************)
EXTENDS Naturals, Sequences, FiniteSets, SequencesExt

CONSTANTS
  Clients,   \* performers
  Inputs,    \* input plugs
  Outputs,   \* output plugs
  Home,      \* the performer of each plug
  Limit,     \* max_connected_cables of each input
  MaxCalls   \* bound: API calls of all clients

Plugs == Inputs \cup Outputs
Cables == Inputs \X Outputs
Ends(a) == {a[1], a[2]}
Of(p) == {a \in Cables : p \in Ends(a)}
Local(a) == Home[a[1]] = Home[a[2]]

ASSUME CableAssumption ==
  /\ IsFiniteSet(Plugs)
  /\ Inputs \cap Outputs = {}
  /\ Home \in [Plugs -> Clients]
  /\ Limit \in [Inputs -> Nat \ {0}]
  /\ MaxCalls \in Nat

VARIABLES
  \* The stage.
  cable,     \* status of each cable in m_cables, "none" when it is not there
  lists,     \* m_cables of each plug: addresses
  live,      \* plugs the lookup finds by the address of a cable
  leaveQ,    \* plugs whose leaving event is deferred
  deactQ,    \* plugs whose deactivation is deferred
  removing,  \* {p} while the router is between the two
  loop,      \* what the event loop drains next
  shakes,    \* handshakes under way: cable, requester, is the cable erased
  linked,    \* pairs of performers that are connected
  \* The clients.
  mine,      \* status of each cable in a client's m_cables
  events,    \* events deferred on each of its cables: "act", "deact"
  plugged,   \* cables listed by each plug of the client
  known,     \* plugs its lookup finds by the address of a cable
  parting,   \* plugs whose deactivation is deferred
  calls,     \* API calls made
  claimed,   \* history: cables it asked for and was not granted (yet)
  \* Messages.
  up,        \* requests of each client
  down       \* messages to each client

stage == <<cable, lists, live, leaveQ, deactQ, removing, loop, shakes, linked>>
client == <<mine, events, plugged, known, parting, calls, claimed>>
vars == <<stage, client, up, down>>

Init ==
  /\ cable = [a \in Cables |-> "none"]
  /\ lists = [p \in Plugs |-> {}]
  /\ live = Plugs
  /\ leaveQ = {} /\ deactQ = {} /\ removing = {}
  /\ loop = "leave"
  /\ shakes = {}
  /\ linked = {}
  /\ mine = [c \in Clients |-> [a \in Cables |-> "none"]]
  /\ events = [c \in Clients |-> [a \in Cables |-> {}]]
  /\ plugged = [c \in Clients |-> [p \in Plugs |-> {}]]
  /\ known = [c \in Clients |-> Plugs]
  /\ parting = [c \in Clients |-> {}]
  /\ calls = 0
  /\ claimed = [c \in Clients |-> {}]
  /\ up = [c \in Clients |-> <<>>]
  /\ down = [c \in Clients |-> <<>>]

----------------------------------------------------------------------------
(* ZstSession on the stage *)

Msg(kind, what) == <<kind, what>>
Messages(kind, set) == SetToSeq({Msg(kind, x) : x \in set})
Broadcast(msgs) == down' = [c \in Clients |-> down[c] \o msgs]

(* Only the input plug forgets the cable.                                  *)
Unlisted_InputOnly(D) ==
  [p \in Plugs |-> IF p \in live \cap Inputs THEN lists[p] \ D ELSE lists[p]]

(* destroy_cable_complete of the cables D: the plugs that are found by the *)
(* address forget them and their deactivation is deferred, until the event *)
(* loop erases them.                                                       *)
Destroyed(D) == [a \in Cables |-> IF a \in D /\ cable[a] = "on" THEN "deactq" ELSE cable[a]]
Unlisted(D) == [p \in Plugs |-> IF p \in live THEN lists[p] \ D ELSE lists[p]]

(* ZstStageSession::destroy_cable of every cable in D.                     *)
DestroyAll(D) ==
  /\ cable' = Destroyed(D)
  /\ lists' = Unlisted(D)
  /\ Broadcast(Messages("destroy", D))

(* find_cable on the stage: a cable that waits for the reaper is found too. *)
FindCable(a) == cable[a] # "none"

(* num_cables against max_connected_cables.                                *)
Full(i) == Cardinality(lists[i]) >= Limit[i]

(* Eviction that lets the plug go over its limit.                          *)
Evicted_OffByOne(i) == IF Cardinality(lists[i]) > Limit[i] THEN lists[i] ELSE {}

(* The cables to disconnect before one more fits into the input.           *)
Evicted(i) == IF Full(i) THEN lists[i] ELSE {}

Request(c, kind) == up[c] # <<>> /\ Head(up[c])[1] = kind /\ removing = {}
Taken(c) == up' = [up EXCEPT ![c] = Tail(@)]

(* create_cable_handler: an error, as the cable exists or a plug does not. *)
RefuseCable(c) ==
  /\ Request(c, "create")
  /\ LET a == Head(up[c])[2] IN
       /\ FindCable(a) \/ ~(Ends(a) \subseteq live)
       /\ down' = [down EXCEPT ![c] = Append(@, Msg("err", a))]
  /\ Taken(c)
  /\ UNCHANGED <<stage, client>>

(* create_cable_handler: evict, create, and publish or start a handshake;  *)
(* of performers already connected nothing more comes.                     *)
CreateCable(c) ==
  /\ Request(c, "create")
  /\ LET a == Head(up[c])[2]
         E == Evicted(a[1])
         pair == <<Home[a[2]], Home[a[1]]>>
         gone == Messages("destroy", E)
     IN /\ ~FindCable(a)
        /\ Ends(a) \subseteq live
        /\ cable' = [Destroyed(E) EXCEPT ![a] = "on"]
        /\ lists' = [p \in Plugs |-> Unlisted(E)[p] \cup (IF p \in Ends(a) THEN {a} ELSE {})]
        /\ down' = [d \in Clients |-> down[d] \o gone
                      \o (IF Local(a) THEN <<Msg("create", a)>> ELSE <<>>)
                      \o (IF Local(a) /\ d = c THEN <<Msg("ok", a)>> ELSE <<>>)]
        /\ shakes' = IF Local(a) \/ pair \in linked THEN shakes
                     ELSE shakes \cup {[cable |-> a, to |-> c, erased |-> FALSE]}
  /\ Taken(c)
  /\ UNCHANGED <<live, leaveQ, deactQ, removing, loop, linked, client>>

(* connect_finished_cb after the listener answered.  The callback reads    *)
(* the address through a pointer to the cable; when the cable was erased   *)
(* meanwhile it may read the old address or nothing of use.                *)
FinishHandshake(h) ==
  /\ h \in shakes
  /\ \/ down' = [d \in Clients |-> down[d] \o <<Msg("create", h.cable)>>
                   \o (IF d = h.to THEN <<Msg("ok", h.cable)>> ELSE <<>>)]
     \/ h.erased /\ UNCHANGED down
  /\ linked' = linked \cup {<<Home[h.cable[2]], Home[h.cable[1]]>>}
  /\ shakes' = shakes \ {h}
  /\ UNCHANGED <<cable, lists, live, leaveQ, deactQ, removing, loop, client, up>>

(* The listener never answered: no one is told.                            *)
HandshakeFails(h) ==
  /\ h \in shakes
  /\ shakes' = shakes \ {h}
  /\ UNCHANGED <<cable, lists, live, leaveQ, deactQ, removing, loop, linked, client, up, down>>

(* destroy_cable_handler: OK, whether the cable was found or not; an       *)
(* address with a plug's new path is that of no cable.                     *)
DestroyCable(c) ==
  /\ Request(c, "destroy") \/ Request(c, "astray")
  /\ LET a == Head(up[c])[2]
         D == IF Request(c, "destroy") /\ FindCable(a) THEN {a} ELSE {}
     IN /\ cable' = Destroyed(D)
        /\ lists' = Unlisted(D)
        /\ down' = [d \in Clients |-> down[d] \o Messages("destroy", D)
                      \o (IF d = c THEN <<Msg("destroyed", a)>> ELSE <<>>)]
  /\ Taken(c)
  /\ UNCHANGED <<live, leaveQ, deactQ, removing, loop, shakes, linked, client>>

(* destroy_entity_handler of the component of plug p, if it is found: it   *)
(* gets its new path and its leaving event is deferred, then its           *)
(* deactivation; then the clients are told.                                *)
RemovePlug(c) ==
  /\ Request(c, "remove")
  /\ LET found == {Head(up[c])[2]} \cap live IN
       /\ live' = live \ found
       /\ leaveQ' = leaveQ \cup found
       /\ removing' = found
  /\ Taken(c)
  /\ UNCHANGED <<cable, lists, deactQ, loop, shakes, linked, client, down>>

RemovePlugEnds ==
  /\ removing # {}
  /\ deactQ' = deactQ \cup removing
  /\ removing' = {}
  /\ Broadcast(Messages("gone", removing))
  /\ UNCHANGED <<cable, lists, live, leaveQ, loop, shakes, linked, client, up>>

(* Plugs that can still be found, under their new paths.                   *)
Leaving == removing \cup deactQ

(* The loop wakes.  on_entity_leaving: disconnect_cables of the entity, if *)
(* it was not reaped yet, of the cables that its plugs list and the        *)
(* session finds.                                                          *)
LoopLeaving ==
  /\ loop = "leave"
  /\ leaveQ \cup deactQ # {} \/ \E a \in Cables : cable[a] = "deactq"
  /\ DestroyAll({a \in UNION {lists[p] : p \in leaveQ \cap Leaving} : FindCable(a)})
  /\ leaveQ' = {}
  /\ loop' = "entity"
  /\ UNCHANGED <<live, deactQ, removing, shakes, linked, client, up>>

(* Deactivated plugs clear their lists (on_deactivation) and are reaped.   *)
LoopEntities ==
  /\ loop = "entity"
  /\ lists' = [p \in Plugs |-> IF p \in deactQ THEN {} ELSE lists[p]]
  /\ deactQ' = {}
  /\ loop' = "cable"
  /\ UNCHANGED <<cable, live, leaveQ, removing, shakes, linked, client, up, down>>

(* on_synchronisable_destroyed of the cables, and the reaper.              *)
LoopCables ==
  /\ loop = "cable"
  /\ cable' = [a \in Cables |-> IF cable[a] = "deactq" THEN "none" ELSE cable[a]]
  /\ shakes' = {[h EXCEPT !.erased = @ \/ cable[h.cable] = "deactq"] : h \in shakes}
  /\ loop' = "leave"
  /\ UNCHANGED <<lists, live, leaveQ, deactQ, removing, linked, client, up, down>>

----------------------------------------------------------------------------
(* ZstClientSession *)

Call == calls < MaxCalls /\ calls' = calls + 1
Ask(c, kind, what) == up' = [up EXCEPT ![c] = Append(@, Msg(kind, what))]

(* create_cable: both plugs of client c list the new cable.                *)
Plug(c, a) ==
  plugged' = [plugged EXCEPT ![c] =
    [p \in Plugs |-> plugged[c][p] \cup (IF p \in Ends(a) THEN {a} ELSE {})]]

(* ZstSession::connect_cable of two plugs that are ACTIVATED: create_cable *)
(* or the cable that exists (whose activation it finishes if that is due), *)
(* set to ACTIVATING.                                                      *)
ConnectEarly(c, a) ==
  /\ Ends(a) \subseteq known[c]
  /\ mine' = [mine EXCEPT ![c][a] = "activating"]
  /\ events' = [events EXCEPT ![c][a] = IF mine[c][a] = "activating" THEN @ \cup {"act"} ELSE @]
  /\ IF mine[c][a] = "none" THEN Plug(c, a) ELSE UNCHANGED plugged

(* connect_cable: the cable, created early, and the request.               *)
ConnectCable(c, a) ==
  /\ Call
  /\ ConnectEarly(c, a)
  /\ claimed' = [claimed EXCEPT ![c] = @ \cup {a}]
  /\ Ask(c, "create", a)
  /\ UNCHANGED <<stage, known, parting, down>>

(* destroy_cable of a cable the application holds.  The address is made of *)
(* the paths its plugs have now, through the cable's pointers: a plug that *)
(* leaves has a new path, and one that was reaped gives anything.          *)
AskDestroy(c, a) ==
  /\ Call
  /\ mine[c][a] # "none"
  /\ \/ Ends(a) \cap parting[c] = {} /\ Ask(c, "destroy", a)
     \/ ~(Ends(a) \subseteq known[c]) /\ Ask(c, "astray", a)
  /\ UNCHANGED <<stage, mine, events, plugged, known, parting, claimed, down>>

(* The application destroys the component of its plug p.                   *)
AskRemove(c, p) ==
  /\ Call
  /\ Home[p] = c /\ p \in known[c]
  /\ Ask(c, "remove", p)
  /\ UNCHANGED <<stage, mine, events, plugged, known, parting, claimed, down>>

Reply(c, kind) == down[c] # <<>> /\ Head(down[c])[1] = kind
Heard(c) == down' = [down EXCEPT ![c] = Tail(@)]

(* enqueue_activation, which only an ACTIVATING cable accepts.             *)
Activate(c, a) ==
  IF mine[c][a] = "activating"
  THEN /\ mine' = [mine EXCEPT ![c][a] = "actq"]
       /\ events' = [events EXCEPT ![c][a] = @ \cup {"act"}]
  ELSE UNCHANGED <<mine, events>>

(* create_cable: a new cable is ACTIVATED, one that exists is finished.    *)
CreateHeard(c, a) ==
  IF mine[c][a] = "none"
  THEN /\ mine' = [mine EXCEPT ![c][a] = "on"]
       /\ Plug(c, a)
       /\ UNCHANGED events
  ELSE Activate(c, a) /\ UNCHANGED plugged

(* cable_create_handler, when both plugs are found.                        *)
HearCreate(c) ==
  /\ Reply(c, "create")
  /\ LET a == Head(down[c])[2] IN
       IF Ends(a) \subseteq known[c] THEN CreateHeard(c, a)
                                     ELSE UNCHANGED <<mine, events, plugged>>
  /\ Heard(c)
  /\ UNCHANGED <<stage, known, parting, calls, claimed, up>>

(* The plugs are left alone.                                               *)
Unplug_KeepsLists(c, a) ==
  /\ mine' = [mine EXCEPT ![c][a] = IF @ = "on" THEN "deactq" ELSE @]
  /\ events' = [events EXCEPT ![c][a] = IF mine[c][a] = "on" THEN @ \cup {"deact"} ELSE @]
  /\ UNCHANGED plugged

(* destroy_cable_complete: the plugs found by the address forget the cable *)
(* and, if it is ACTIVATED, it will be deactivated.                        *)
Unplug(c, a) ==
  /\ plugged' = [plugged EXCEPT ![c] =
       [p \in Plugs |-> IF p \in known[c] THEN plugged[c][p] \ {a} ELSE plugged[c][p]]]
  /\ mine' = [mine EXCEPT ![c][a] = IF @ = "on" THEN "deactq" ELSE @]
  /\ events' = [events EXCEPT ![c][a] = IF mine[c][a] = "on" THEN @ \cup {"deact"} ELSE @]

(* cable_destroy_handler, when the cable is found.                         *)
HearDestroy(c) ==
  /\ Reply(c, "destroy")
  /\ LET a == Head(down[c])[2] IN
       IF mine[c][a] = "none" THEN UNCHANGED <<mine, events, plugged>> ELSE Unplug(c, a)
  /\ Heard(c)
  /\ UNCHANGED <<stage, known, parting, calls, claimed, up>>

(* connect_cable_complete, or nothing when the request was refused.        *)
HearReply(c) ==
  /\ Reply(c, "ok") \/ Reply(c, "err")
  /\ LET a == Head(down[c])[2] IN
       IF Reply(c, "ok") THEN Activate(c, a) /\ claimed' = [claimed EXCEPT ![c] = @ \ {a}]
                         ELSE UNCHANGED <<mine, events, claimed>>
  /\ Heard(c)
  /\ UNCHANGED <<stage, plugged, known, parting, calls, up>>

(* destroy_cable_complete through the pointer of the request, which may    *)
(* have been erased: then it meets the cable that took its place, or none. *)
HearDestroyed(c) ==
  /\ Reply(c, "destroyed")
  /\ LET a == Head(down[c])[2] IN
       \/ mine[c][a] # "none" /\ Unplug(c, a)
       \/ mine[c][a] \in {"none", "on"} /\ UNCHANGED <<mine, events, plugged>>
  /\ Heard(c)
  /\ UNCHANGED <<stage, known, parting, calls, claimed, up>>

(* The component of a plug has left: it gets its new path at once and its  *)
(* deactivation is deferred.                                               *)
HearGone(c) ==
  /\ Reply(c, "gone")
  /\ LET found == {Head(down[c])[2]} \cap known[c] IN
       /\ known' = [known EXCEPT ![c] = @ \ found]
       /\ parting' = [parting EXCEPT ![c] = @ \cup found]
  /\ Heard(c)
  /\ UNCHANGED <<stage, mine, events, plugged, calls, claimed, up>>

(* process_events of the application: plugs that leave clear their lists   *)
(* (on_deactivation), proxies are reaped, and the events of the cables     *)
(* run; a cable deactivated is erased.                                     *)
Poll(c) ==
  /\ parting[c] # {} \/ \E a \in Cables : events[c][a] # {}
  /\ plugged' = [plugged EXCEPT ![c] =
       [p \in Plugs |-> IF p \in parting[c] THEN {} ELSE plugged[c][p]]]
  /\ parting' = [parting EXCEPT ![c] = {}]
  /\ mine' = [mine EXCEPT ![c] = [a \in Cables |->
       IF "deact" \in events[c][a] THEN "none"
       ELSE IF "act" \in events[c][a] THEN "on" ELSE mine[c][a]]]
  /\ events' = [events EXCEPT ![c] = [a \in Cables |-> {}]]
  /\ UNCHANGED <<stage, known, calls, claimed, up, down>>

----------------------------------------------------------------------------

StageNext ==
  \/ \E c \in Clients : RefuseCable(c) \/ CreateCable(c) \/ DestroyCable(c) \/ RemovePlug(c)
  \/ RemovePlugEnds
  \/ \E h \in shakes : FinishHandshake(h) \/ HandshakeFails(h)
  \/ LoopLeaving \/ LoopEntities \/ LoopCables

ClientNext ==
  \E c \in Clients :
    \/ \E a \in Cables : ConnectCable(c, a) \/ AskDestroy(c, a)
    \/ \E p \in Plugs : AskRemove(c, p)
    \/ HearCreate(c) \/ HearDestroy(c) \/ HearReply(c) \/ HearDestroyed(c) \/ HearGone(c)
    \/ Poll(c)

Next == StageNext \/ ClientNext

Spec == Init /\ [][Next]_vars

----------------------------------------------------------------------------
(* Properties *)

(* Types of the records of the stage and of the clients.                   *)
TypeOK ==
  /\ cable \in [Cables -> {"none", "on", "deactq"}]
  /\ lists \in [Plugs -> SUBSET Cables]
  /\ live \subseteq Plugs /\ leaveQ \subseteq Plugs /\ deactQ \subseteq Plugs
  /\ removing \subseteq Plugs
  /\ shakes \subseteq [cable : Cables, to : Clients, erased : BOOLEAN]
  /\ mine \in [Clients -> [Cables -> {"none", "activating", "actq", "on", "deactq"}]]
  /\ plugged \in [Clients -> [Plugs -> SUBSET Cables]]
  /\ known \in [Clients -> SUBSET Plugs] /\ parting \in [Clients -> SUBSET Plugs]

(* However requests, evictions and leaving components interleave, an input *)
(* of the stage never lists more cables than max_connected_cables.         *)
InputLimit == \A i \in Inputs : Cardinality(lists[i]) <= Limit[i]

(* A plug of the stage lists exactly its cables that are ACTIVATED in the  *)
(* session's m_cables, as long as it is found by their address: eviction,  *)
(* destruction and creation keep the two ends and the session together.    *)
(* A plug that leaves lists all of them until its deactivation, and maybe  *)
(* cables that are gone, so its leaving event can disconnect them.         *)
PlugsAgree ==
  /\ \A p \in live : lists[p] = {a \in Of(p) : cable[a] = "on"}
  /\ \A p \in Leaving : {a \in Of(p) : cable[a] = "on"} \subseteq lists[p]

(* A cable inside one performer: a client's plugs stop listing it once the *)
(* stage destroyed it, or the message that will make them is on its way,   *)
(* or the plug leaves itself and the next process_events clears its list.  *)
(* Excepted is a client whose own request for it was not granted (yet).    *)
DestroyedIsUnplugged ==
  \A c \in Clients, p \in Plugs, a \in Cables :
    (Local(a) /\ a \in plugged[c][p] \ claimed[c] /\ cable[a] # "on")
      => \/ p \in parting[c]
         \/ \E i \in 1..Len(down[c]) : down[c][i] = Msg("destroy", a)

=============================================================================
