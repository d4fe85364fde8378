------------------------------ MODULE GraphSync ------------------------------
(***************************************************************************)
(* The graph the stage keeps and the clients mirror.  Clients join, create,*)
(* rename and destroy entities, ask the factories of others for entities,  *)
(* leave or crash.  The stage's router thread handles their requests in    *)
(* order; its event loop broadcasts what has arrived and frees what has    *)
(* gone; its timer removes performers that stay silent.                    *)
(*                                                                         *)
(* A path is an object and the version of its name: renaming goes to the   *)
(* next version, and no path is used twice.  Messages to and from one      *)
(* client keep their order; a socket that was closed drops them.  For the  *)
(* requests this is an assumption: what is sent with SYNC_REPLY waits for  *)
(* its answer and what is published is sent at once, but requests with     *)
(* ASYNC_REPLY are sent by a pool of four threads, which may overtake each *)
(* other.  The model is of applications that do not have two of them under *)
(* way whose order matters.                                                *)
(***************************************************************************)
EXTENDS Naturals, Sequences, FiniteSets, SequencesExt

CONSTANTS
  Clients,    \* performers
  Entities,   \* components and factories below them
  Home,       \* the performer of each entity
  Factory,    \* the factory of each entity that is made on request
  MaxVersion, \* bound: names an entity has
  MaxCalls    \* bound: calls of all applications

Objects == Clients \cup Entities
Creatables == DOMAIN Factory

ASSUME GraphAssumption ==
  /\ IsFiniteSet(Clients) /\ IsFiniteSet(Entities) /\ Clients \cap Entities = {}
  /\ Home \in [Entities -> Clients]
  /\ Creatables \subseteq Entities
  /\ \A e \in Creatables : Factory[e] \in Entities /\ Home[Factory[e]] = Home[e]
  /\ MaxVersion \in Nat \ {0} /\ MaxCalls \in Nat

VARIABLES
  \* The stage.
  perf,     \* performers: "none", "in", "going" (deactivation queued), "freed"
  ent,      \* entities: also "parted", off the tree under a bare name
  ver,      \* version of each entity's name
  arrivals, \* arriving events, deferred by the router
  sending,  \* what the event loop has serialised and is about to broadcast
  loop,     \* the event loop: "arrive" or "reap"
  waits,    \* factory requests that were forwarded: entity, requester
  fault,    \* "none", or the memory error that stopped the stage
  \* The clients.
  phase,    \* "out", "joining", "joined", "synced", "left", "dead"
  own,      \* version of each entity at home, 0 when it is not there
  used,     \* entities that were created at some time
  view,     \* proxies of each client: object, version, has it a parent
  answer,   \* the first answer to the request for an entity
  calls,    \* calls the applications made
  \* Messages.
  up, down,
  \* History.
  clash     \* entities changed between serialising and broadcasting them

stage == <<perf, ent, ver, arrivals, sending, loop, waits, fault>>
client == <<phase, own, used, view, answer, calls>>
vars == <<stage, client, up, down, clash>>

Init ==
  /\ perf = [c \in Clients |-> "none"]
  /\ ent = [e \in Entities |-> "none"]
  /\ ver = [e \in Entities |-> 0]
  /\ arrivals = <<>> /\ sending = {} /\ loop = "arrive" /\ waits = {} /\ fault = "none"
  /\ phase = [c \in Clients |-> "out"]
  /\ own = [e \in Entities |-> 0]
  /\ used = {}
  /\ view = [c \in Clients |-> {}]
  /\ answer = [e \in Creatables |-> "none"]
  /\ calls = 0
  /\ up = [c \in Clients |-> <<>>]
  /\ down = [c \in Clients |-> <<>>]
  /\ clash = {}

----------------------------------------------------------------------------
(* What the stage's threads share *)

Online(c) == phase[c] \in {"joining", "joined", "synced"}
Performers == {c \in Clients : perf[c] \in {"in", "going"}}
Found(e) == ent[e] \in {"in", "going"}
Of(c) == {e \in Entities : Home[e] = c}

(* The queues after the given messages went to each client: the socket of  *)
(* a client that is gone drops them.                                       *)
Sent(msgs) == [c \in Clients |-> IF Online(c) THEN down[c] \o msgs[c] ELSE down[c]]
To(c, msgs) == [d \in Clients |-> IF d = c THEN msgs ELSE <<>>]

(* broadcast: every performer the stage has, but for the excluded ones.    *)
All(except, msg) == [d \in Clients |-> IF d \in Performers \ except THEN <<msg>> ELSE <<>>]

(* destroy_entity_complete of performers R: they and their children are    *)
(* queued for deactivation.                                                *)
Leave(R) ==
  /\ perf' = [c \in Clients |-> IF c \in R /\ perf[c] = "in" THEN "going" ELSE perf[c]]
  /\ ent' = [e \in Entities |-> IF Home[e] \in R /\ ent[e] = "in" THEN "going" ELSE ent[e]]

(* An entity touched while the event loop is in the middle of its arrival. *)
Clashes(e) == clash' = IF \E s \in sending : s[1] = e THEN clash \cup {e} ELSE clash

Request(c, kind) == up[c] # <<>> /\ Head(up[c])[1] = kind /\ fault = "none"
Item(c) == Head(up[c])[2]
Taken(c) == up' = [up EXCEPT ![c] = Tail(@)]

----------------------------------------------------------------------------
(* ZstStageHierarchy and ZstStageSession: the router *)

(* create_client_handler.  Names are the clients' own and a client joins   *)
(* once, so the answer to a join under a name that exists is left out.     *)
HandleJoin(c) ==
  /\ Request(c, "join")
  /\ perf' = [perf EXCEPT ![c] = "in"]
  /\ arrivals' = Append(arrivals, c)
  /\ down' = Sent(To(c, <<<<"joined">>>>))
  /\ Taken(c)
  /\ UNCHANGED <<ent, ver, sending, loop, waits, fault, client, clash>>

(* A snapshot that is not recursive.                                       *)
Snapshot_Flat(c) == SetToSeq({<<"create", p, 1>> : p \in Performers \ {c}})

(* synchronise_client_graph_handler: the performers but for the sender,    *)
(* with what is below them, ancestors first.                               *)
Snapshot(c) ==
  LET P == Performers \ {c}
      E == {e \in Entities : Found(e) /\ Home[e] \in P}
  IN  SetToSeq({<<"create", p, 1>> : p \in P}) \o SetToSeq({<<"create", e, ver[e]>> : e \in E})

(* The session ignores a sender it does not know, the hierarchy refuses.   *)
HandleSync(c) ==
  /\ Request(c, "sync")
  /\ down' = Sent(To(c, IF c \in Performers THEN Append(Snapshot(c), <<"synced">>)
                                            ELSE <<<<"refused">>>>))
  /\ Taken(c)
  /\ UNCHANGED <<stage, client, clash>>

(* client_leaving_handler and create_entity_handler read the sender's URI  *)
(* although there may be no performer for the sender any more.             *)
NoSender(c) ==
  /\ Request(c, "leave") \/ Request(c, "create")
  /\ c \notin Performers
  /\ fault' = "null sender"
  /\ Taken(c)
  /\ UNCHANGED <<perf, ent, ver, arrivals, sending, loop, waits, client, down,
                 clash>>

(* client_leaving_handler: nobody is excluded from the broadcast.          *)
HandleLeave(c) ==
  /\ Request(c, "leave")
  /\ c \in Performers
  /\ Leave({c})
  /\ down' = Sent(All({}, <<"left", c>>))
  /\ Taken(c)
  /\ UNCHANGED <<ver, arrivals, sending, loop, waits, fault, client, clash>>

(* create_entity_handler.                                                  *)
HandleCreate(c) ==
  /\ Request(c, "create")
  /\ c \in Performers
  /\ LET e == Item(c) IN
       /\ ent' = [ent EXCEPT ![e] = "in"]
       /\ ver' = [ver EXCEPT ![e] = Head(up[c])[3]]
       /\ arrivals' = Append(arrivals, e)
       /\ down' = Sent(To(c, <<<<"ok", e>>>>))
  /\ Taken(c)
  /\ UNCHANGED <<perf, sending, loop, waits, fault, client, clash>>

(* update_entity_handler: a rename, if the original path is found.         *)
HandleUpdate(c) ==
  /\ Request(c, "update")
  /\ LET e == Item(c)  hit == Found(e) /\ ver[e] = Head(up[c])[3] IN
       IF hit THEN /\ ver' = [ver EXCEPT ![e] = @ + 1]
                   /\ down' = Sent(All({c}, Head(up[c])))
                   /\ Clashes(e)
              ELSE UNCHANGED <<ver, down, clash>>
  /\ Taken(c)
  /\ UNCHANGED <<perf, ent, arrivals, sending, loop, waits, fault, client>>

(* destroy_entity_handler: off the tree at once, freed by the event loop.  *)
HandleDestroy(c) ==
  /\ Request(c, "destroy")
  /\ LET e == Item(c)  hit == Found(e) /\ ver[e] = Head(up[c])[3] IN
       IF hit THEN /\ ent' = [ent EXCEPT ![e] = "parted"]
                   /\ down' = Sent(All({c}, Head(up[c])))
                   /\ Clashes(e)
              ELSE UNCHANGED <<ent, down, clash>>
  /\ Taken(c)
  /\ UNCHANGED <<perf, ver, arrivals, sending, loop, waits, fault, client>>

(* factory_create_entity_handler: forward, or refuse without a factory.    *)
HandleMake(c) ==
  /\ Request(c, "make")
  /\ LET e == Item(c)  h == Home[e] IN
       IF Found(Factory[e]) /\ h \in Performers
       THEN /\ waits' = waits \cup {<<e, c>>}
            /\ down' = Sent(To(h, <<<<"make", e>>>>))
       ELSE /\ down' = Sent(To(c, <<<<"error", e>>>>))
            /\ UNCHANGED waits
  /\ Taken(c)
  /\ UNCHANGED <<perf, ent, ver, arrivals, sending, loop, fault, client, clash>>

(* Failure is answered by the ACK alone.                                   *)
Answers_AckOnly(e, result) == <<<<"ack", e>>>>

(* The callback of the forwarded request: the signal of a failed one (an   *)
(* empty one when nothing came), and the ACK in every case.                *)
Answers(e, result) ==
  (IF result = "made" THEN <<>> ELSE <<<<IF result = "none" THEN "empty" ELSE "error", e>>>>)
    \o <<<<"ack", e>>>>

(* It sends through the pointer of the requester, null or freed if that    *)
(* performer has gone.                                                     *)
Callback(w, result) ==
  /\ waits' = waits \ {w}
  /\ IF w[2] \in Performers
     THEN down' = Sent(To(w[2], Answers(w[1], result))) /\ UNCHANGED fault
     ELSE fault' = "freed sender" /\ UNCHANGED down

HandleMade(c) ==
  /\ Request(c, "made") \/ Request(c, "unmade")
  /\ LET W == {w \in waits : w[1] = Item(c)} IN
       IF W = {} THEN UNCHANGED <<waits, down, fault>>
                 ELSE \E w \in W : Callback(w, Head(up[c])[1])
  /\ Taken(c)
  /\ UNCHANGED <<perf, ent, ver, arrivals, sending, loop, client, clash>>

MakeTimesOut(w) ==
  /\ fault = "none"
  /\ w \in waits
  /\ Callback(w, "none")
  /\ UNCHANGED <<perf, ent, ver, arrivals, sending, loop, client, up, clash>>

----------------------------------------------------------------------------
(* The event loop and the timer *)

(* An arriving event: on_entity_arriving serialises the object.  One that  *)
(* is off the tree has a bare name, which every client refuses.            *)
LoopArrive ==
  /\ fault = "none" /\ loop = "arrive" /\ sending = {} /\ arrivals # <<>>
  /\ LET o == Head(arrivals) IN
       IF o \in Clients
       THEN /\ sending' = IF perf[o] = "freed" THEN {} ELSE {<<o, 1>>}
            /\ fault' = IF perf[o] = "freed" THEN "freed arrival" ELSE fault
       ELSE /\ sending' = IF Found(o) THEN {<<o, ver[o]>>} ELSE {}
            /\ fault' = IF ent[o] = "freed" THEN "freed arrival" ELSE fault
  /\ arrivals' = Tail(arrivals)
  /\ UNCHANGED <<perf, ent, ver, loop, waits, client, up, down, clash>>

(* ... and broadcasts it to all but its own performer.                     *)
LoopSend ==
  /\ fault = "none" /\ sending # {}
  /\ \E s \in sending :
       down' = Sent(All(IF s[1] \in Clients THEN {s[1]} ELSE {Home[s[1]]},
                        <<"create", s[1], s[2]>>))
  /\ sending' = {}
  /\ UNCHANGED <<perf, ent, ver, arrivals, loop, waits, fault, client, up, clash>>

LoopDrained ==
  /\ fault = "none" /\ loop = "arrive" /\ sending = {} /\ arrivals = <<>>
  /\ \/ \E c \in Clients : perf[c] = "going"
     \/ \E e \in Entities : ent[e] \in {"going", "parted"}
  /\ loop' = "reap"
  /\ UNCHANGED <<perf, ent, ver, arrivals, sending, waits, fault, client, up, down,
                 clash>>

(* Farewell events and the reaper (ProxyLifecycle has the steps).          *)
LoopReap ==
  /\ fault = "none" /\ loop = "reap"
  /\ perf' = [c \in Clients |-> IF perf[c] = "going" THEN "freed" ELSE perf[c]]
  /\ ent' = [e \in Entities |-> IF ent[e] \in {"going", "parted"} THEN "freed" ELSE ent[e]]
  /\ loop' = "arrive"
  /\ UNCHANGED <<ver, arrivals, sending, waits, fault, client, up, down, clash>>

(* stage_heartbeat_timer removes a performer that missed its heartbeats    *)
(* (StagePresence has the count); nobody is told.                          *)
Evict(c) ==
  /\ fault = "none"
  /\ perf[c] = "in"
  /\ Leave({c})
  /\ UNCHANGED <<ver, arrivals, sending, loop, waits, fault, client, up, down, clash>>

----------------------------------------------------------------------------
(* The clients *)

Call == calls < MaxCalls /\ calls' = calls + 1

(* The requests of one client arrive in the order of its calls.            *)
Ask(c, msgs) == up' = [up EXCEPT ![c] = @ \o msgs]
Create(e) == <<"create", e, own[e]>>

Join(c) ==
  /\ Call
  /\ phase[c] = "out"
  /\ phase' = [phase EXCEPT ![c] = "joining"]
  /\ Ask(c, <<<<"join">>>>)
  /\ UNCHANGED <<stage, own, used, view, answer, down, clash>>

(* leave_stage; or the process dies.                                       *)
Depart(c, how) ==
  /\ Call
  /\ phase[c] \in {"joined", "synced"}
  /\ phase' = [phase EXCEPT ![c] = how]
  /\ Ask(c, IF how = "left" THEN <<<<"leave">>>> ELSE <<>>)
  /\ down' = [down EXCEPT ![c] = <<>>]
  /\ UNCHANGED <<stage, own, used, view, answer, clash>>

(* add_child, before the client joins or, with activation, after.          *)
AddEntity(c, e) ==
  /\ Call
  /\ Home[e] = c /\ e \notin used \cup Creatables
  /\ phase[c] \in {"out", "joined", "synced"}
  /\ own' = [own EXCEPT ![e] = 1]
  /\ used' = used \cup {e}
  /\ Ask(c, IF phase[c] = "out" THEN <<>> ELSE <<<<"create", e, 1>>>>)
  /\ UNCHANGED <<stage, phase, view, answer, down, clash>>

(* set_name, which publishes the update.                                   *)
Rename(c, e) ==
  /\ Call
  /\ Home[e] = c /\ own[e] \in 1..(MaxVersion - 1)
  /\ phase[c] \in {"joined", "synced"}
  /\ own' = [own EXCEPT ![e] = @ + 1]
  /\ Ask(c, <<<<"update", e, own[e]>>>>)
  /\ UNCHANGED <<stage, phase, used, view, answer, down, clash>>

(* deactivate_entity.                                                      *)
DestroyEntity(c, e) ==
  /\ Call
  /\ Home[e] = c /\ own[e] > 0
  /\ phase[c] \in {"joined", "synced"}
  /\ own' = [own EXCEPT ![e] = 0]
  /\ Ask(c, <<<<"destroy", e, own[e]>>>>)
  /\ UNCHANGED <<stage, phase, used, view, answer, down, clash>>

(* create_entity through the proxy of somebody else's factory.             *)
AskMake(c, e) ==
  /\ Call
  /\ phase[c] = "synced" /\ Home[e] # c /\ answer[e] = "none"
  /\ \E x \in view[c] : x.what = Factory[e]
  /\ answer' = [answer EXCEPT ![e] = "asked"]
  /\ Ask(c, <<<<"make", e>>>>)
  /\ UNCHANGED <<stage, phase, own, used, view, down, clash>>

Hears(c, kind) == down[c] # <<>> /\ Head(down[c])[1] = kind
News(c) == Head(down[c])[2]
Heard(c) == down' = [down EXCEPT ![c] = Tail(@)]

(* join_stage_complete: ask for the graph and activate what is there.      *)
HearJoined(c) ==
  /\ Hears(c, "joined")
  /\ phase' = [phase EXCEPT ![c] = "joined"]
  /\ Ask(c, <<<<"sync">>>> \o SetToSeq({Create(e) : e \in {x \in Of(c) : own[x] > 0}}))
  /\ Heard(c)
  /\ UNCHANGED <<stage, calls, own, used, view, answer, clash>>

HearSynced(c) ==
  /\ Hears(c, "synced") \/ Hears(c, "refused")
  /\ phase' = [phase EXCEPT ![c] = IF Hears(c, "synced") THEN "synced" ELSE @]
  /\ Heard(c)
  /\ UNCHANGED <<stage, calls, own, used, view, answer, up, clash>>

(* create_proxy_entity_handler: unless it is local or the path is taken.   *)
HearCreate(c) ==
  /\ Hears(c, "create")
  /\ LET o == News(c)
         v == Head(down[c])[3]
         mine == o = c \/ (o \in Entities /\ Home[o] = c)
         tied == o \in Entities /\ \E x \in view[c] : x.what = Home[o]
     IN view' = [view EXCEPT ![c] =
          IF mine \/ \E x \in @ : x.what = o /\ x.ver = v THEN @
          ELSE @ \cup {[what |-> o, ver |-> v, tied |-> tied]}]
  /\ Heard(c)
  /\ UNCHANGED <<stage, calls, phase, own, used, answer, up, clash>>

(* The switch falls through from one handler to the other.                 *)
(* update_proxy_entity_handler and destroy_entity_handler, by path.        *)
HearChange(c) ==
  /\ Hears(c, "update") \/ Hears(c, "destroy")
  /\ LET X == {x \in view[c] : x.what = News(c) /\ x.ver = Head(down[c])[3]} IN
       view' = [view EXCEPT ![c] = (@ \ X) \cup
         (IF Hears(c, "update") THEN {[x EXCEPT !.ver = @ + 1] : x \in X} ELSE {})]
  /\ Heard(c)
  /\ UNCHANGED <<stage, calls, phase, own, used, answer, up, clash>>

(* client_leaving_handler: the performer and what is tied to it.           *)
HearLeft(c) ==
  /\ Hears(c, "left")
  /\ view' = [view EXCEPT ![c] =
       {x \in @ : x.what # News(c) /\ ~(x.tied /\ Home[x.what] = News(c))}]
  /\ Heard(c)
  /\ UNCHANGED <<stage, calls, phase, own, used, answer, up, clash>>

(* factory_create_entity_handler of the factory's client: no factory, no   *)
(* answer; the creatable may be missing.                                   *)
HearMake(c) ==
  /\ Hears(c, "make")
  /\ LET e == News(c) IN
       \/ own[Factory[e]] = 0 /\ UNCHANGED <<own, used, up>>
       \/ own[Factory[e]] > 0 /\ Ask(c, <<<<"unmade", e>>>>) /\ UNCHANGED <<own, used>>
       \/ /\ own[Factory[e]] > 0
          /\ own' = [own EXCEPT ![e] = 1]
          /\ used' = used \cup {e}
          /\ Ask(c, <<<<"create", e, 1>>>>)
  /\ Heard(c)
  /\ UNCHANGED <<stage, calls, phase, view, answer, clash>>

(* The reply to a create request: the callback of a factory's entity tells *)
(* the stage.                                                              *)
HearOK(c) ==
  /\ Hears(c, "ok")
  /\ Ask(c, IF News(c) \in Creatables THEN <<<<"made", News(c)>>>> ELSE <<>>)
  /\ Heard(c)
  /\ UNCHANGED <<stage, client, clash>>

(* The first answer of a factory request resolves its promise.             *)
HearAnswer(c) ==
  /\ Hears(c, "ack") \/ Hears(c, "error") \/ Hears(c, "empty")
  /\ answer' = [answer EXCEPT ![News(c)] = IF @ = "asked" THEN Head(down[c])[1] ELSE @]
  /\ Heard(c)
  /\ UNCHANGED <<stage, calls, phase, own, used, view, up, clash>>

----------------------------------------------------------------------------

Router(c) ==
  \/ HandleJoin(c) \/ HandleSync(c) \/ NoSender(c) \/ HandleLeave(c)
  \/ HandleCreate(c) \/ HandleUpdate(c) \/ HandleDestroy(c) \/ HandleMake(c) \/ HandleMade(c)

Loop == LoopArrive \/ LoopSend \/ LoopDrained \/ LoopReap

Application(c) ==
  \/ Join(c) \/ Depart(c, "left") \/ Depart(c, "dead")
  \/ \E e \in Entities : AddEntity(c, e) \/ Rename(c, e) \/ DestroyEntity(c, e)
  \/ \E e \in Creatables : AskMake(c, e)

Transport(c) ==
  \/ HearJoined(c) \/ HearSynced(c) \/ HearCreate(c) \/ HearChange(c) \/ HearLeft(c)
  \/ HearMake(c) \/ HearOK(c) \/ HearAnswer(c)

Next ==
  \/ \E c \in Clients : Router(c) \/ Application(c) \/ Transport(c)
  \/ \E w \in waits : MakeTimesOut(w)
  \/ \E c \in Clients : Evict(c)
  \/ Loop

Spec == Init /\ [][Next]_vars

----------------------------------------------------------------------------
(* Properties *)

(* Types of the records of the stage and of what the clients see.          *)
TypeOK ==
  /\ perf \in [Clients -> {"none", "in", "going", "freed"}]
  /\ ent \in [Entities -> {"none", "in", "going", "parted", "freed"}]
  /\ ver \in [Entities -> 0..MaxVersion] /\ own \in [Entities -> 0..MaxVersion]
  /\ \A i \in 1..Len(arrivals) : arrivals[i] \in Objects
  /\ phase \in [Clients -> {"out", "joining", "joined", "synced", "left", "dead"}]
  /\ \A c \in Clients : \A x \in view[c] : x.what \in Objects /\ x.ver \in 1..MaxVersion

(* No message about an entity is on its way to a client.                   *)
Settled(c, e) ==
  /\ \A i \in 1..Len(down[c]) : Len(down[c][i]) = 3 => down[c][i][2] # e
  /\ \A i \in 1..Len(arrivals) : arrivals[i] # e
  /\ \A s \in sending : s[1] # e

(* However a snapshot, arrivals, renames and destructions interleave: when *)
(* no message about an entity is on its way, a client that has the graph   *)
(* has the entity exactly when the stage has it, once, under its name.     *)
(* Excepted are entities of performers that have gone, and those changed   *)
(* by the router in the middle of the event loop's broadcast, against      *)
(* which the code has no guard.                                            *)
ViewsAgree ==
  fault = "none" =>
    \A c \in Clients, e \in Entities :
      (phase[c] = "synced" /\ perf[c] = "in" /\ Home[e] # c /\ perf[Home[e]] = "in"
         /\ e \notin clash /\ Settled(c, e))
        => {x.ver : x \in {y \in view[c] : y.what = e}} = IF Found(e) THEN {ver[e]} ELSE {}

(* The answer a requester acts on is the ACK only if the entity was        *)
(* created at the stage, although failures are followed by an ACK too.     *)
AckMeansCreated == \A e \in Creatables : answer[e] = "ack" => ent[e] # "none"

=============================================================================
