------------------------ MODULE CableSession_proofs ------------------------
(***************************************************************************)
(* Theorems about CableSession, for any performers, plugs and limits and   *)
(* any number of calls.                                                    *)
(***************************************************************************)
EXTENDS CableSession, FiniteSetTheorems, SequenceTheorems, TLAPS

-----------------------------------------------------------------------------
(* Sequences of messages.                                                  *)

(* SetToSeq lists the elements of a finite set, each of them and no other. *)
LEMMA SetToSeqLists ==
  ASSUME NEW S, IsFiniteSet(S)
  PROVE  /\ SetToSeq(S) \in Seq(S)
         /\ \A x \in S : \E i \in 1..Len(SetToSeq(S)) : SetToSeq(S)[i] = x
<1> DEFINE n == Cardinality(S)
           s == SetToSeq(S)
<1>1. n \in Nat /\ ExistsBijection(1..n, S)
  BY FS_CardinalityType
<1>2. PICK f \in [1..n -> S] : IsInjective(f)
  BY <1>1 DEF ExistsBijection, Bijection, Injection
<1>3. s \in [1..n -> S] /\ IsInjective(s)
  BY <1>2 DEF SetToSeq
<1>4. s \in Seq(S) /\ Len(s) = n
  BY <1>1, <1>3
<1>5. s \in Injection(1..n, S)
  BY <1>3 DEF Injection
<1>6. IsFiniteSet(1..n) /\ Cardinality(1..n) = n
  BY <1>1, FS_Interval
<1>7. s \in Surjection(1..n, S)
  BY <1>5, <1>6, FS_Injection
<1> QED
  BY <1>4, <1>7 DEF Surjection

(* There are finitely many cables.                                         *)
LEMMA CablesFinite == IsFiniteSet(Cables)
<1>1. IsFiniteSet(Inputs) /\ IsFiniteSet(Outputs)
  BY CableAssumption, FS_Subset DEF Plugs
<1> QED
  BY <1>1, FS_Product DEF Cables

(* The requests of the clients and the messages of the stage.              *)
Ups == ({"create", "destroy", "astray"} \X Cables) \cup ({"remove"} \X Plugs)
Downs == ({"create", "ok", "err", "destroy", "destroyed"} \X Cables)
           \cup ({"gone"} \X Plugs)

(* The messages about a set of cables or plugs: one for each of them.      *)
LEMMA MessagesAbout ==
  ASSUME NEW kind, NEW set, IsFiniteSet(set)
  PROVE  /\ Messages(kind, set) \in Seq({kind} \X set)
         /\ \A x \in set : \E i \in 1..Len(Messages(kind, set)) :
              Messages(kind, set)[i] = Msg(kind, x)
<1> DEFINE S == {Msg(kind, x) : x \in set}
<1>1. S = {kind} \X set
  BY DEF Msg
<1>2. IsFiniteSet({kind} \X set)
  BY FS_Singleton, FS_Product
<1>3. \A x \in set : Msg(kind, x) \in S
  OBVIOUS
<1> QED
  BY <1>1, <1>2, <1>3, SetToSeqLists DEF Messages

(* Messages about the destruction of cables and the departure of plugs.    *)
LEMMA DestroyMessages ==
  ASSUME NEW D \in SUBSET Cables
  PROVE  /\ Messages("destroy", D) \in Seq(Downs)
         /\ \A i \in 1..Len(Messages("destroy", D)) :
              \E x \in D : Messages("destroy", D)[i] = Msg("destroy", x)
         /\ \A x \in D : \E i \in 1..Len(Messages("destroy", D)) :
              Messages("destroy", D)[i] = Msg("destroy", x)
<1> DEFINE m == Messages("destroy", D)
<1>1. IsFiniteSet(D)
  BY CablesFinite, FS_Subset
<1>2. /\ m \in Seq({"destroy"} \X D)
      /\ \A x \in D : \E i \in 1..Len(m) : m[i] = Msg("destroy", x)
  BY <1>1, MessagesAbout
<1>3. {"destroy"} \X D \subseteq Downs
  BY DEF Downs
<1>4. m \in Seq(Downs)
  BY <1>2, <1>3, SeqMonotonic
<1>5. \A i \in 1..Len(m) : m[i] \in {"destroy"} \X D
  BY <1>2, ElementOfSeq
<1>6. \A y \in {"destroy"} \X D : \E x \in D : y = Msg("destroy", x)
  BY DEF Msg
<1> QED
  BY <1>2, <1>4, <1>5, <1>6

LEMMA GoneMessages ==
  ASSUME NEW R \in SUBSET Plugs
  PROVE  /\ Messages("gone", R) \in Seq(Downs)
         /\ \A i \in 1..Len(Messages("gone", R)) :
              \E x \in R : Messages("gone", R)[i] = Msg("gone", x)
<1> DEFINE m == Messages("gone", R)
<1>1. IsFiniteSet(R)
  BY CableAssumption, FS_Subset
<1>2. m \in Seq({"gone"} \X R)
  BY <1>1, MessagesAbout
<1>3. {"gone"} \X R \subseteq Downs
  BY DEF Downs
<1>4. m \in Seq(Downs)
  BY <1>2, <1>3, SeqMonotonic
<1>5. \A i \in 1..Len(m) : m[i] \in {"gone"} \X R
  BY <1>2, ElementOfSeq
<1>6. \A y \in {"gone"} \X R : \E x \in R : y = Msg("gone", x)
  BY DEF Msg
<1> QED
  BY <1>4, <1>5, <1>6

-----------------------------------------------------------------------------
(* Types.                                                                  *)

(* The types of the messages and of what TypeOK leaves out.                *)
TypeInv ==
  /\ TypeOK
  /\ events \in [Clients -> [Cables -> SUBSET {"act", "deact"}]]
  /\ claimed \in [Clients -> SUBSET Cables]
  /\ up \in [Clients -> Seq(Ups)]
  /\ down \in [Clients -> Seq(Downs)]

(* The request at the head of a queue is about a cable, or about a plug.   *)
LEMMA RequestType ==
  ASSUME TypeInv, NEW c \in Clients
  PROVE  /\ \A k \in {"create", "destroy", "astray"} : Request(c, k) =>
              /\ Head(up[c])[2] \in Cables
              /\ Head(up[c]) = Msg(k, Head(up[c])[2])
         /\ Request(c, "remove") => Head(up[c])[2] \in Plugs
         /\ up[c] # <<>> => Tail(up[c]) \in Seq(Ups)
<1>1. up[c] \in Seq(Ups)
  BY DEF TypeInv
<1>2. up[c] # <<>> => Head(up[c]) \in Ups /\ Tail(up[c]) \in Seq(Ups)
  BY <1>1, HeadTailProperties
<1> QED
  BY <1>2 DEF Request, Ups, Msg

(* So is the message at the head of a client's queue.                      *)
LEMMA ReplyType ==
  ASSUME TypeInv, NEW c \in Clients
  PROVE  /\ \A k \in {"create", "ok", "err", "destroy", "destroyed"} :
              Reply(c, k) => /\ Head(down[c])[2] \in Cables
                             /\ Head(down[c]) = Msg(k, Head(down[c])[2])
         /\ Reply(c, "gone") => Head(down[c])[2] \in Plugs
         /\ down[c] # <<>> => Tail(down[c]) \in Seq(Downs)
<1>1. down[c] \in Seq(Downs)
  BY DEF TypeInv
<1>2. down[c] # <<>> => Head(down[c]) \in Downs /\ Tail(down[c]) \in Seq(Downs)
  BY <1>1, HeadTailProperties
<1> QED
  BY <1>2 DEF Reply, Downs, Msg

(* What a plug lists and what is evicted are cables.                       *)
LEMMA EvictedType ==
  ASSUME TypeInv, NEW a \in Cables
  PROVE  /\ Evicted(a[1]) \in SUBSET Cables
         /\ Ends(a) \subseteq Plugs
         /\ a[1] \in Inputs /\ a[2] \in Outputs
<1>1. a[1] \in Inputs /\ a[2] \in Outputs
  BY DEF Cables
<1>2. lists[a[1]] \in SUBSET Cables
  BY <1>1 DEF TypeInv, TypeOK, Plugs
<1> QED
  BY <1>1, <1>2 DEF Evicted, Ends, Plugs

(* Destroying cables of the stage keeps its types.                         *)
LEMMA DestroyType ==
  ASSUME TypeInv, NEW D \in SUBSET Cables
  PROVE  /\ Destroyed(D) \in [Cables -> {"none", "on", "deactq"}]
         /\ Unlisted(D) \in [Plugs -> SUBSET Cables]
BY DEF TypeInv, TypeOK, Destroyed, Unlisted

(* At first there are no cables and no messages.                           *)
LEMMA InitType == Init => TypeInv
BY DEF Init, TypeInv, TypeOK

(* A step of the stage keeps the types.                                    *)
LEMMA StageType ==
  ASSUME TypeInv, StageNext
  PROVE  TypeInv'
<1>1. ASSUME NEW c \in Clients, RefuseCable(c)
      PROVE  TypeInv'
  <2> DEFINE a == Head(up[c])[2]
  <2>1. a \in Cables /\ Tail(up[c]) \in Seq(Ups)
    BY <1>1, RequestType DEF RefuseCable, Request
  <2>2. Msg("err", a) \in Downs
    BY <2>1 DEF Msg, Downs
  <2>3. Append(down[c], Msg("err", a)) \in Seq(Downs)
    BY <2>2, AppendProperties DEF TypeInv
  <2> QED
    BY <1>1, <2>1, <2>3
       DEF RefuseCable, Taken, stage, client, TypeInv, TypeOK
<1>2. ASSUME NEW c \in Clients, CreateCable(c)
      PROVE  TypeInv'
  <2> DEFINE a == Head(up[c])[2]
             E == Evicted(a[1])
             gone == Messages("destroy", E)
             one == IF Local(a) THEN <<Msg("create", a)>> ELSE <<>>
             two(d) == IF Local(a) /\ d = c THEN <<Msg("ok", a)>> ELSE <<>>
  <2>1. a \in Cables /\ Tail(up[c]) \in Seq(Ups)
    BY <1>2, RequestType DEF CreateCable, Request
  <2>2. E \in SUBSET Cables /\ gone \in Seq(Downs)
    BY <2>1, EvictedType, DestroyMessages
  <2>3. Msg("create", a) \in Downs /\ Msg("ok", a) \in Downs
    BY <2>1 DEF Msg, Downs
  <2>4. \A d \in Clients : down[d] \o gone \o one \o two(d) \in Seq(Downs)
    <3> SUFFICES ASSUME NEW d \in Clients
                 PROVE  down[d] \o gone \o one \o two(d) \in Seq(Downs)
      OBVIOUS
    <3>1. one \in Seq(Downs) /\ two(d) \in Seq(Downs)
      BY <2>3
    <3>2. down[d] \in Seq(Downs)
      BY DEF TypeInv
    <3> QED
      BY <2>2, <3>1, <3>2, ConcatProperties
  <2>5. cable' \in [Cables -> {"none", "on", "deactq"}]
    BY <1>2, <2>1, <2>2, DestroyType DEF CreateCable
  <2>6. lists' \in [Plugs -> SUBSET Cables]
    <3>1. lists' = [p \in Plugs |-> Unlisted(E)[p] \cup
                                     (IF p \in Ends(a) THEN {a} ELSE {})]
      BY <1>2 DEF CreateCable
    <3> QED
      BY <2>1, <2>2, <3>1, DestroyType
  <2>7. shakes' \subseteq [cable : Cables, to : Clients, erased : BOOLEAN]
    <3>1. [cable |-> a, to |-> c, erased |-> FALSE]
            \in [cable : Cables, to : Clients, erased : BOOLEAN]
      BY <2>1
    <3>2. shakes' \subseteq shakes \cup {[cable |-> a, to |-> c, erased |-> FALSE]}
      BY <1>2 DEF CreateCable
    <3> QED
      BY <3>1, <3>2 DEF TypeInv, TypeOK
  <2>8. down' = [d \in Clients |-> down[d] \o gone \o one \o two(d)]
    BY <1>2 DEF CreateCable
  <2>9. up' \in [Clients -> Seq(Ups)]
    BY <1>2, <2>1 DEF CreateCable, Taken, TypeInv
  <2>10. UNCHANGED <<live, leaveQ, deactQ, removing, client>>
    BY <1>2 DEF CreateCable
  <2> QED
    BY <2>4, <2>5, <2>6, <2>7, <2>8, <2>9, <2>10 DEF client, TypeInv, TypeOK
<1>3. ASSUME NEW h \in shakes, FinishHandshake(h) \/ HandshakeFails(h)
      PROVE  TypeInv'
  <2>1. h.cable \in Cables
    BY DEF TypeInv, TypeOK
  <2>2. Msg("create", h.cable) \in Downs /\ Msg("ok", h.cable) \in Downs
    BY <2>1 DEF Msg, Downs
  <2>3. \A d \in Clients :
          down[d] \o <<Msg("create", h.cable)>>
            \o (IF d = h.to THEN <<Msg("ok", h.cable)>> ELSE <<>>) \in Seq(Downs)
    BY <2>2 DEF TypeInv
  <2>4. down' \in [Clients -> Seq(Downs)]
    BY <1>3, <2>3 DEF FinishHandshake, HandshakeFails, TypeInv
  <2>5. /\ shakes' \subseteq shakes
        /\ UNCHANGED <<cable, lists, live, leaveQ, deactQ, removing, client, up>>
    BY <1>3 DEF FinishHandshake, HandshakeFails
  <2> QED
    BY <2>4, <2>5 DEF client, TypeInv, TypeOK
<1>4. ASSUME NEW c \in Clients, DestroyCable(c)
      PROVE  TypeInv'
  <2> DEFINE a == Head(up[c])[2]
             D == IF Request(c, "destroy") /\ FindCable(a) THEN {a} ELSE {}
             told(d) == IF d = c THEN <<Msg("destroyed", a)>> ELSE <<>>
  <2>1. a \in Cables /\ Tail(up[c]) \in Seq(Ups)
    BY <1>4, RequestType DEF DestroyCable, Request
  <2>2. D \in SUBSET Cables /\ Messages("destroy", D) \in Seq(Downs)
    BY <2>1, DestroyMessages
  <2>3. Msg("destroyed", a) \in Downs
    BY <2>1 DEF Msg, Downs
  <2>4. \A d \in Clients :
          down[d] \o Messages("destroy", D) \o told(d) \in Seq(Downs)
    <3> SUFFICES ASSUME NEW d \in Clients
                 PROVE  down[d] \o Messages("destroy", D) \o told(d) \in Seq(Downs)
      OBVIOUS
    <3>1. told(d) \in Seq(Downs) /\ down[d] \in Seq(Downs)
      BY <2>3 DEF TypeInv
    <3> QED
      BY <2>2, <3>1, ConcatProperties
  <2>5. /\ cable' = Destroyed(D) /\ lists' = Unlisted(D)
        /\ down' = [d \in Clients |-> down[d] \o Messages("destroy", D) \o told(d)]
        /\ Taken(c)
        /\ UNCHANGED <<live, leaveQ, deactQ, removing, shakes, client>>
    BY <1>4 DEF DestroyCable
  <2>6. up' \in [Clients -> Seq(Ups)]
    BY <2>1, <2>5 DEF Taken, TypeInv
  <2> QED
    BY <2>2, <2>4, <2>5, <2>6, DestroyType DEF client, TypeInv, TypeOK
<1>5. ASSUME NEW c \in Clients, RemovePlug(c)
      PROVE  TypeInv'
  <2>1. Head(up[c])[2] \in Plugs /\ Tail(up[c]) \in Seq(Ups)
    BY <1>5, RequestType DEF RemovePlug, Request
  <2> QED
    BY <1>5, <2>1 DEF RemovePlug, Taken, client, TypeInv, TypeOK
<1>6. ASSUME RemovePlugEnds
      PROVE  TypeInv'
  <2>1. removing \in SUBSET Plugs
    BY DEF TypeInv, TypeOK
  <2>2. \A d \in Clients : down[d] \o Messages("gone", removing) \in Seq(Downs)
    BY <2>1, GoneMessages, ConcatProperties DEF TypeInv
  <2> QED
    BY <1>6, <2>1, <2>2 DEF RemovePlugEnds, Broadcast, client, TypeInv, TypeOK
<1>7. ASSUME LoopLeaving
      PROVE  TypeInv'
  <2> DEFINE D == {a \in UNION {lists[p] : p \in leaveQ \cap Leaving} : FindCable(a)}
  <2>1. D \in SUBSET Cables
    BY DEF TypeInv, TypeOK
  <2>2. \A d \in Clients : down[d] \o Messages("destroy", D) \in Seq(Downs)
    BY <2>1, DestroyMessages, ConcatProperties DEF TypeInv
  <2>3. /\ cable' = Destroyed(D) /\ lists' = Unlisted(D)
        /\ down' = [d \in Clients |-> down[d] \o Messages("destroy", D)]
        /\ leaveQ' = {}
        /\ UNCHANGED <<live, deactQ, removing, shakes, client, up>>
    BY <1>7 DEF LoopLeaving, DestroyAll, Broadcast
  <2> QED
    BY <2>1, <2>2, <2>3, DestroyType DEF client, TypeInv, TypeOK
<1>8. ASSUME LoopEntities
      PROVE  TypeInv'
  BY <1>8 DEF LoopEntities, client, TypeInv, TypeOK
<1>9. ASSUME LoopCables
      PROVE  TypeInv'
  <2>1. ASSUME NEW h \in shakes
        PROVE  [h EXCEPT !.erased = @ \/ cable[h.cable] = "deactq"]
                 \in [cable : Cables, to : Clients, erased : BOOLEAN]
    <3>1. h \in [cable : Cables, to : Clients, erased : BOOLEAN]
      BY DEF TypeInv, TypeOK
    <3>2. (h.erased \/ cable[h.cable] = "deactq") \in BOOLEAN
      OBVIOUS
    <3> QED
      BY <3>1, <3>2
  <2>2. shakes' \subseteq [cable : Cables, to : Clients, erased : BOOLEAN]
    BY <1>9, <2>1 DEF LoopCables
  <2> QED
    BY <1>9, <2>2 DEF LoopCables, client, TypeInv, TypeOK
<1> QED
  BY <1>1, <1>2, <1>3, <1>4, <1>5, <1>6, <1>7, <1>8, <1>9 DEF StageNext

(* What a client does with one of its cables keeps the types.              *)
Mine == {"none", "activating", "actq", "on", "deactq"}

LEMMA CableType ==
  ASSUME TypeInv, NEW c \in Clients, NEW a \in Cables
  PROVE  /\ \A s \in Mine :
              [mine EXCEPT ![c][a] = s] \in [Clients -> [Cables -> Mine]]
         /\ \A E \in SUBSET {"act", "deact"} :
              [events EXCEPT ![c][a] = E]
                \in [Clients -> [Cables -> SUBSET {"act", "deact"}]]
<1>1. mine[c] \in [Cables -> Mine] /\ mine \in [Clients -> [Cables -> Mine]]
  BY DEF TypeInv, TypeOK, Mine
<1>2. \A s \in Mine : [mine[c] EXCEPT ![a] = s] \in [Cables -> Mine]
  BY <1>1
<1>3. events[c] \in [Cables -> SUBSET {"act", "deact"}]
  BY DEF TypeInv
<1>4. \A E \in SUBSET {"act", "deact"} :
        [events[c] EXCEPT ![a] = E] \in [Cables -> SUBSET {"act", "deact"}]
  BY <1>3
<1> QED
  BY <1>1, <1>2, <1>4 DEF TypeInv

(* What a step of a client does to the lists of its plugs: a new cable is  *)
(* listed at both ends, and forgotten where its address is found.          *)
Listings == [Clients -> [Plugs -> SUBSET Cables]]

LEMMA ListsOfClient ==
  ASSUME TypeInv, NEW c \in Clients, NEW F \in [Plugs -> SUBSET Cables],
         plugged' = [plugged EXCEPT ![c] = F]
  PROVE  /\ plugged' \in Listings
         /\ plugged'[c] = F
         /\ \A d \in Clients : d # c => plugged'[d] = plugged[d]
BY DEF TypeInv, TypeOK, Listings

LEMMA PlugEffects ==
  ASSUME TypeInv, NEW c \in Clients, NEW a \in Cables
  PROVE  /\ Plug(c, a) =>
              /\ plugged' \in Listings
              /\ \A d \in Clients, p \in Plugs :
                   plugged'[d][p] = IF d = c /\ p \in Ends(a)
                                      THEN plugged[d][p] \cup {a} ELSE plugged[d][p]
         /\ Unplug(c, a) =>
              /\ plugged' \in Listings
              /\ \A d \in Clients, p \in Plugs :
                   plugged'[d][p] = IF d = c /\ p \in known[c]
                                      THEN plugged[d][p] \ {a} ELSE plugged[d][p]
<1>0. plugged \in Listings
  BY DEF TypeInv, TypeOK, Listings
<1>1. ASSUME Plug(c, a)
      PROVE  /\ plugged' \in Listings
             /\ \A d \in Clients, p \in Plugs :
                  plugged'[d][p] = IF d = c /\ p \in Ends(a)
                                     THEN plugged[d][p] \cup {a} ELSE plugged[d][p]
  <2> DEFINE F == [p \in Plugs |-> plugged[c][p] \cup (IF p \in Ends(a) THEN {a} ELSE {})]
  <2>1. F \in [Plugs -> SUBSET Cables]
    BY <1>0 DEF Listings
  <2>2. plugged' = [plugged EXCEPT ![c] = F]
    BY <1>1 DEF Plug
  <2>3. /\ plugged' \in Listings /\ plugged'[c] = F
        /\ \A d \in Clients : d # c => plugged'[d] = plugged[d]
    <3> HIDE DEF F
    <3> QED
      BY <2>1, <2>2, ListsOfClient
  <2>4. \A p \in Plugs : F[p] = IF p \in Ends(a) THEN plugged[c][p] \cup {a}
                                                 ELSE plugged[c][p]
    OBVIOUS
  <2> HIDE DEF F
  <2> QED
    BY <2>3, <2>4
<1>2. ASSUME Unplug(c, a)
      PROVE  /\ plugged' \in Listings
             /\ \A d \in Clients, p \in Plugs :
                  plugged'[d][p] = IF d = c /\ p \in known[c]
                                     THEN plugged[d][p] \ {a} ELSE plugged[d][p]
  <2> DEFINE F == [p \in Plugs |-> IF p \in known[c] THEN plugged[c][p] \ {a}
                                                      ELSE plugged[c][p]]
  <2>1. F \in [Plugs -> SUBSET Cables]
    BY <1>0 DEF Listings
  <2>2. plugged' = [plugged EXCEPT ![c] = F]
    BY <1>2 DEF Unplug
  <2>3. /\ plugged' \in Listings /\ plugged'[c] = F
        /\ \A d \in Clients : d # c => plugged'[d] = plugged[d]
    <3> HIDE DEF F
    <3> QED
      BY <2>1, <2>2, ListsOfClient
  <2> QED
    BY <2>3
<1> QED
  BY <1>1, <1>2

(* process_events of a client clears the lists of its plugs that leave.    *)
LEMMA PollEffects ==
  ASSUME TypeInv, NEW c \in Clients, Poll(c)
  PROVE  /\ plugged' \in Listings
         /\ \A d \in Clients, p \in Plugs :
              plugged'[d][p] = IF d = c /\ p \in parting[c] THEN {} ELSE plugged[d][p]
<1> DEFINE F == [p \in Plugs |-> IF p \in parting[c] THEN {} ELSE plugged[c][p]]
<1>1. F \in [Plugs -> SUBSET Cables]
  BY DEF TypeInv, TypeOK
<1>2. plugged' = [plugged EXCEPT ![c] = F]
  BY DEF Poll
<1>3. /\ plugged' \in Listings /\ plugged'[c] = F
      /\ \A d \in Clients : d # c => plugged'[d] = plugged[d]
  <2> HIDE DEF F
  <2> QED
    BY <1>1, <1>2, ListsOfClient
<1> QED
  BY <1>3

(* The steps that change the status of a cable at a client keep the types. *)
LEMMA UnplugType ==
  ASSUME TypeInv, NEW c \in Clients, NEW a \in Cables,
         Activate(c, a) \/ Unplug(c, a) \/ ConnectEarly(c, a) \/ CreateHeard(c, a)
  PROVE  /\ mine' \in [Clients -> [Cables -> Mine]]
         /\ events' \in [Clients -> [Cables -> SUBSET {"act", "deact"}]]
         /\ plugged' \in Listings \/ plugged' = plugged \/ Activate(c, a)
<1>0. plugged' \in Listings \/ plugged' = plugged \/ Activate(c, a)
  BY PlugEffects DEF ConnectEarly, CreateHeard
<1>1. /\ mine[c][a] \in Mine /\ events[c][a] \in SUBSET {"act", "deact"}
      /\ mine \in [Clients -> [Cables -> Mine]]
      /\ events \in [Clients -> [Cables -> SUBSET {"act", "deact"}]]
      /\ {"activating", "actq", "on", "deactq"} \subseteq Mine
  BY DEF TypeInv, TypeOK, Mine
<1>2. \/ mine' = mine
      \/ \E s \in Mine : mine' = [mine EXCEPT ![c][a] = s]
  BY <1>1 DEF Activate, Unplug, ConnectEarly, CreateHeard
<1>3. \/ events' = events
      \/ \E E \in SUBSET {"act", "deact"} : events' = [events EXCEPT ![c][a] = E]
  BY <1>1 DEF Activate, Unplug, ConnectEarly, CreateHeard
<1>4. mine' \in [Clients -> [Cables -> Mine]]
  <2>1. CASE mine' = mine
    BY <1>1, <2>1
  <2>2. CASE \E s \in Mine : mine' = [mine EXCEPT ![c][a] = s]
    BY <2>2, CableType
  <2> QED
    BY <1>2, <2>1, <2>2
<1>5. events' \in [Clients -> [Cables -> SUBSET {"act", "deact"}]]
  <2>1. CASE events' = events
    BY <1>1, <2>1
  <2>2. CASE \E E \in SUBSET {"act", "deact"} :
               events' = [events EXCEPT ![c][a] = E]
    <3>1. PICK E \in SUBSET {"act", "deact"} :
                 events' = [events EXCEPT ![c][a] = E]
      BY <2>2
    <3>2. [events EXCEPT ![c][a] = E]
            \in [Clients -> [Cables -> SUBSET {"act", "deact"}]]
      BY CableType
    <3> QED
      BY <3>1, <3>2
  <2> QED
    BY <1>3, <2>1, <2>2
<1> QED
  BY <1>0, <1>4, <1>5

(* A step of a client keeps the types.                                     *)
LEMMA ClientType ==
  ASSUME TypeInv, ClientNext
  PROVE  TypeInv'
<1>1. ASSUME NEW c \in Clients, NEW m \in Ups,
             up' = [up EXCEPT ![c] = Append(@, m)]
      PROVE  up' \in [Clients -> Seq(Ups)]
  BY <1>1, AppendProperties DEF TypeInv
<1>2. ASSUME NEW c \in Clients, down[c] # <<>>, Heard(c)
      PROVE  down' \in [Clients -> Seq(Downs)]
  BY <1>2, ReplyType DEF Heard, TypeInv
<1>3. ASSUME NEW c \in Clients, NEW a \in Cables, ConnectCable(c, a)
      PROVE  TypeInv'
  <2>1. Msg("create", a) \in Ups
    BY DEF Msg, Ups
  <2>2. up' \in [Clients -> Seq(Ups)]
    BY <1>1, <1>3, <2>1 DEF ConnectCable, Ask
  <2>3. /\ mine' \in [Clients -> [Cables -> Mine]]
        /\ events' \in [Clients -> [Cables -> SUBSET {"act", "deact"}]]
    BY <1>3, UnplugType DEF ConnectCable
  <2>4. plugged' \in Listings
    BY <1>3, PlugEffects DEF ConnectCable, ConnectEarly, TypeInv, TypeOK, Listings
  <2>5. claimed' \in [Clients -> SUBSET Cables]
    BY <1>3 DEF ConnectCable, TypeInv
  <2>6. UNCHANGED <<stage, known, parting, down>>
    BY <1>3 DEF ConnectCable
  <2> QED
    BY <2>2, <2>3, <2>4, <2>5, <2>6 DEF stage, TypeInv, TypeOK, Mine, Listings
<1>4. ASSUME NEW c \in Clients, NEW a \in Cables, AskDestroy(c, a)
      PROVE  TypeInv'
  <2>1. Msg("destroy", a) \in Ups /\ Msg("astray", a) \in Ups
    BY DEF Msg, Ups
  <2>2. up' \in [Clients -> Seq(Ups)]
    BY <1>1, <1>4, <2>1 DEF AskDestroy, Ask
  <2> QED
    BY <1>4, <2>2 DEF AskDestroy, stage, TypeInv, TypeOK
<1>5. ASSUME NEW c \in Clients, NEW p \in Plugs, AskRemove(c, p)
      PROVE  TypeInv'
  <2>1. Msg("remove", p) \in Ups
    BY DEF Msg, Ups
  <2>2. up' \in [Clients -> Seq(Ups)]
    BY <1>1, <1>5, <2>1 DEF AskRemove, Ask
  <2> QED
    BY <1>5, <2>2 DEF AskRemove, stage, TypeInv, TypeOK
<1>6. ASSUME NEW c \in Clients, HearCreate(c)
      PROVE  TypeInv'
  <2> DEFINE a == Head(down[c])[2]
  <2>1. a \in Cables /\ down' \in [Clients -> Seq(Downs)]
    BY <1>2, <1>6, ReplyType DEF HearCreate, Reply
  <2>2. \/ UNCHANGED <<mine, events, plugged>>
        \/ CreateHeard(c, a)
    BY <1>6 DEF HearCreate
  <2>3. /\ mine' \in [Clients -> [Cables -> Mine]]
        /\ events' \in [Clients -> [Cables -> SUBSET {"act", "deact"}]]
    BY <2>1, <2>2, UnplugType DEF TypeInv, TypeOK, Mine
  <2>4. plugged' \in Listings
    BY <2>1, <2>2, PlugEffects DEF CreateHeard, TypeInv, TypeOK, Listings
  <2>5. UNCHANGED <<stage, known, parting, claimed, up>>
    BY <1>6 DEF HearCreate
  <2> QED
    BY <2>1, <2>3, <2>4, <2>5 DEF stage, TypeInv, TypeOK, Mine, Listings
<1>7. ASSUME NEW c \in Clients, HearDestroy(c) \/ HearDestroyed(c)
      PROVE  TypeInv'
  <2> DEFINE a == Head(down[c])[2]
  <2>1. a \in Cables /\ down' \in [Clients -> Seq(Downs)]
    BY <1>2, <1>7, ReplyType DEF HearDestroy, HearDestroyed, Reply
  <2>2. \/ UNCHANGED <<mine, events, plugged>>
        \/ Unplug(c, a)
    BY <1>7 DEF HearDestroy, HearDestroyed
  <2>3. /\ mine' \in [Clients -> [Cables -> Mine]]
        /\ events' \in [Clients -> [Cables -> SUBSET {"act", "deact"}]]
    BY <2>1, <2>2, UnplugType DEF TypeInv, TypeOK, Mine
  <2>4. plugged' \in Listings
    BY <2>1, <2>2, PlugEffects DEF TypeInv, TypeOK, Listings
  <2>5. UNCHANGED <<stage, known, parting, claimed, up>>
    BY <1>7 DEF HearDestroy, HearDestroyed
  <2> QED
    BY <2>1, <2>3, <2>4, <2>5 DEF stage, TypeInv, TypeOK, Mine, Listings
<1>8. ASSUME NEW c \in Clients, HearReply(c)
      PROVE  TypeInv'
  <2> DEFINE a == Head(down[c])[2]
  <2>1. a \in Cables /\ down' \in [Clients -> Seq(Downs)]
    BY <1>2, <1>8, ReplyType DEF HearReply, Reply
  <2>2. \/ UNCHANGED <<mine, events>>
        \/ Activate(c, a)
    BY <1>8 DEF HearReply
  <2>3. /\ mine' \in [Clients -> [Cables -> Mine]]
        /\ events' \in [Clients -> [Cables -> SUBSET {"act", "deact"}]]
    BY <2>1, <2>2, UnplugType DEF TypeInv, TypeOK, Mine
  <2>4. claimed' \in [Clients -> SUBSET Cables]
    BY <1>8 DEF HearReply, TypeInv
  <2>5. UNCHANGED <<stage, plugged, known, parting, up>>
    BY <1>8 DEF HearReply
  <2> QED
    BY <2>1, <2>3, <2>4, <2>5 DEF stage, TypeInv, TypeOK, Mine
<1>9. ASSUME NEW c \in Clients, HearGone(c)
      PROVE  TypeInv'
  <2>1. Head(down[c])[2] \in Plugs /\ down' \in [Clients -> Seq(Downs)]
    BY <1>2, <1>9, ReplyType DEF HearGone, Reply
  <2> QED
    BY <1>9, <2>1 DEF HearGone, stage, TypeInv, TypeOK
<1>10. ASSUME NEW c \in Clients, Poll(c)
       PROVE  TypeInv'
  <2> DEFINE M == [a \in Cables |-> IF "deact" \in events[c][a] THEN "none"
                     ELSE IF "act" \in events[c][a] THEN "on" ELSE mine[c][a]]
             N == [a \in Cables |-> {}]
  <2>1. M \in [Cables -> Mine] /\ N \in [Cables -> SUBSET {"act", "deact"}]
    BY DEF TypeInv, TypeOK, Mine
  <2>2. /\ mine' = [mine EXCEPT ![c] = M] /\ events' = [events EXCEPT ![c] = N]
        /\ mine' \in [Clients -> [Cables -> Mine]]
        /\ events' \in [Clients -> [Cables -> SUBSET {"act", "deact"}]]
    BY <1>10, <2>1 DEF Poll, TypeInv, TypeOK, Mine
  <2>3. plugged' \in Listings /\ parting' \in [Clients -> SUBSET Plugs]
    BY <1>10, PollEffects DEF Poll, TypeInv, TypeOK
  <2>4. UNCHANGED <<stage, known, claimed, up, down>>
    BY <1>10 DEF Poll
  <2> QED
    BY <2>2, <2>3, <2>4 DEF stage, TypeInv, TypeOK, Mine, Listings
<1> QED
  BY <1>3, <1>4, <1>5, <1>6, <1>7, <1>8, <1>9, <1>10 DEF ClientNext

(* Every step keeps the types.                                             *)
LEMMA TypeStep == TypeInv /\ [Next]_vars => TypeInv'
<1>1. TypeInv /\ UNCHANGED vars => TypeInv'
  BY DEF vars, stage, client, TypeInv, TypeOK
<1> QED
  BY <1>1, StageType, ClientType DEF Next

(* The records of the stage and of the clients keep their types.           *)
THEOREM TypeCorrect == Spec => []TypeOK
<1>1. TypeInv => TypeOK
  BY DEF TypeInv
<1> QED
  BY <1>1, InitType, TypeStep, PTL DEF Spec

-----------------------------------------------------------------------------
(* The plugs of the stage and its session.                                 *)

(* What a step does to the cables, the lists and the lookup of the stage:  *)
(* it creates one cable and destroys those it evicts, destroys cables,     *)
(* moves a plug that leaves one step on, reaps cables, or leaves all of    *)
(* this alone.                                                             *)
LEMMA StageEffects ==
  ASSUME TypeInv, [Next]_vars
  PROVE  \/ \E c \in Clients : CreateCable(c)
         \/ /\ \E D \in SUBSET Cables : cable' = Destroyed(D) /\ lists' = Unlisted(D)
            /\ UNCHANGED <<live, removing, deactQ>>
         \/ \E c \in Clients : RemovePlug(c)
         \/ RemovePlugEnds
         \/ LoopEntities
         \/ LoopCables
         \/ UNCHANGED <<cable, lists, live, removing, deactQ>>
<1>1. ASSUME NEW c \in Clients, DestroyCable(c)
      PROVE  /\ \E D \in SUBSET Cables : cable' = Destroyed(D) /\ lists' = Unlisted(D)
             /\ UNCHANGED <<live, removing, deactQ>>
  <2> DEFINE a == Head(up[c])[2]
             D == IF Request(c, "destroy") /\ FindCable(a) THEN {a} ELSE {}
  <2>1. D \in SUBSET Cables
    BY <1>1, RequestType DEF DestroyCable
  <2> QED
    BY <1>1, <2>1 DEF DestroyCable
<1>2. ASSUME LoopLeaving
      PROVE  /\ \E D \in SUBSET Cables : cable' = Destroyed(D) /\ lists' = Unlisted(D)
             /\ UNCHANGED <<live, removing, deactQ>>
  <2>1. {a \in UNION {lists[p] : p \in leaveQ \cap Leaving} : FindCable(a)}
          \in SUBSET Cables
    BY DEF TypeInv, TypeOK
  <2> QED
    BY <1>2, <2>1 DEF LoopLeaving, DestroyAll
<1>3. CASE UNCHANGED vars
  BY <1>3 DEF vars, stage
<1>4. ASSUME ClientNext
      PROVE  UNCHANGED <<cable, lists, live, removing, deactQ>>
  BY <1>4 DEF ClientNext, ConnectCable, AskDestroy, AskRemove, HearCreate,
       HearDestroy, HearReply, HearDestroyed, HearGone, Poll, stage
<1>5. ASSUME StageNext, ~(\E c \in Clients : CreateCable(c) \/ DestroyCable(c)),
             ~(\E c \in Clients : RemovePlug(c)), ~RemovePlugEnds,
             ~LoopLeaving, ~LoopEntities, ~LoopCables
      PROVE  UNCHANGED <<cable, lists, live, removing, deactQ>>
  BY <1>5 DEF StageNext, RefuseCable, FinishHandshake, HandshakeFails, stage
<1> QED
  BY <1>1, <1>2, <1>3, <1>4, <1>5 DEF Next

(* What CreateCable does to them.                                          *)
LEMMA CreateEffects ==
  ASSUME TypeInv, NEW c \in Clients, CreateCable(c)
  PROVE  \E a \in Cables :
           /\ a = Head(up[c])[2]
           /\ cable[a] = "none" /\ Ends(a) \subseteq live
           /\ UNCHANGED <<live, removing, deactQ>>
           /\ Evicted(a[1]) \in SUBSET Cables
           /\ \A b \in Cables : cable'[b] = IF b = a THEN "on"
                                            ELSE Destroyed(Evicted(a[1]))[b]
           /\ \A p \in Plugs :
                lists'[p] = IF p \in Ends(a)
                              THEN (lists[p] \ Evicted(a[1])) \cup {a}
                              ELSE Unlisted(Evicted(a[1]))[p]
<1> DEFINE a == Head(up[c])[2]
<1>1. a \in Cables
  BY RequestType DEF CreateCable
<1>2. Evicted(a[1]) \in SUBSET Cables
  BY <1>1, EvictedType
<1>3. cable' = [Destroyed(Evicted(a[1])) EXCEPT ![a] = "on"]
  BY DEF CreateCable
<1>4. \A b \in Cables : cable'[b] = IF b = a THEN "on"
                                    ELSE Destroyed(Evicted(a[1]))[b]
  BY <1>1, <1>2, <1>3, DestroyType
<1>5. cable[a] = "none" /\ Ends(a) \subseteq live /\ UNCHANGED <<live, removing, deactQ>>
  BY DEF CreateCable, FindCable
<1>6. \A p \in Plugs : lists'[p] = Unlisted(Evicted(a[1]))[p] \cup
                                     (IF p \in Ends(a) THEN {a} ELSE {})
  BY DEF CreateCable
<1>7. ASSUME NEW p \in Plugs
      PROVE  lists'[p] = IF p \in Ends(a)
                           THEN (lists[p] \ Evicted(a[1])) \cup {a}
                           ELSE Unlisted(Evicted(a[1]))[p]
  <2>1. CASE p \in Ends(a)
    <3>1. Unlisted(Evicted(a[1]))[p] = lists[p] \ Evicted(a[1])
      BY <1>5, <2>1 DEF Unlisted
    <3> QED
      BY <1>6, <2>1, <3>1
  <2>2. CASE p \notin Ends(a)
    <3>1. lists'[p] = Unlisted(Evicted(a[1]))[p] \cup {}
      BY <1>6, <2>2
    <3> QED
      BY <2>2, <3>1
  <2> QED
    BY <2>1, <2>2
<1> QED
  BY <1>1, <1>2, <1>4, <1>5, <1>7

(* A plug is found by the addresses of its cables, or its removal is under *)
(* way, or its deactivation is deferred, and no two of these.              *)
Apart ==
  /\ live \cap removing = {}
  /\ live \cap deactQ = {}
  /\ removing \cap deactQ = {}

LEMMA StaysApart ==
  ASSUME TypeInv, Apart, [Next]_vars
  PROVE  Apart'
<1>1. ASSUME NEW c \in Clients, CreateCable(c)
      PROVE  Apart'
  BY <1>1 DEF CreateCable, Apart
<1>2. ASSUME NEW c \in Clients, RemovePlug(c)
      PROVE  Apart'
  <2> DEFINE found == {Head(up[c])[2]} \cap live
  <2>1. /\ live' = live \ found /\ removing' = found /\ deactQ' = deactQ
    BY <1>2 DEF RemovePlug
  <2>2. found \subseteq live
    OBVIOUS
  <2> HIDE DEF found
  <2> QED
    BY <2>1, <2>2 DEF Apart
<1>3. ASSUME RemovePlugEnds
      PROVE  Apart'
  BY <1>3 DEF RemovePlugEnds, Apart
<1>4. ASSUME LoopEntities
      PROVE  Apart'
  BY <1>4 DEF LoopEntities, Apart
<1>5. ASSUME LoopCables
      PROVE  Apart'
  BY <1>5 DEF LoopCables, Apart
<1>6. ASSUME UNCHANGED <<live, removing, deactQ>>
      PROVE  Apart'
  BY <1>6 DEF Apart
<1> QED
  BY <1>1, <1>2, <1>3, <1>4, <1>5, <1>6, StageEffects

(* Eviction, destruction, creation and the departure of plugs keep the two *)
(* ends of a cable and the session of the stage together, for any number   *)
(* of cables, plugs and requests, and a plug that leaves forgets no cable  *)
(* before its leaving event can disconnect it.                             *)
THEOREM ListsAgree == Spec => []PlugsAgree
<1> DEFINE Inv == TypeInv /\ Apart /\ PlugsAgree
<1>1. Init => Inv
  <2>1. Init => Apart /\ PlugsAgree
    BY DEF Init, Apart, PlugsAgree, Of, Leaving
  <2> QED
    BY <2>1, InitType
<1>2. Inv /\ [Next]_vars => PlugsAgree'
  <2> SUFFICES ASSUME TypeInv, Apart, PlugsAgree, [Next]_vars
               PROVE  PlugsAgree'
    OBVIOUS
  <2> DEFINE On(p) == {a \in Of(p) : cable[a] = "on"}
  <2>1. /\ live \subseteq Plugs /\ removing \subseteq Plugs /\ deactQ \subseteq Plugs
        /\ lists \in [Plugs -> SUBSET Cables]
        /\ cable \in [Cables -> {"none", "on", "deactq"}]
    BY DEF TypeInv, TypeOK
  <2>2. /\ \A p \in live : lists[p] = On(p)
        /\ \A p \in Leaving : On(p) \subseteq lists[p]
    BY DEF PlugsAgree
  <2>3. \A p : Of(p) \subseteq Cables
    BY DEF Of
  <2>4. Leaving \subseteq Plugs /\ Leaving \cap live = {}
    BY <2>1 DEF Apart, Leaving
  <2>5. ASSUME NEW c \in Clients, CreateCable(c)
        PROVE  PlugsAgree'
    <3>1. PICK a \in Cables :
            /\ UNCHANGED <<live, removing, deactQ>>
            /\ Evicted(a[1]) \in SUBSET Cables
            /\ \A b \in Cables : cable'[b] = IF b = a THEN "on"
                                             ELSE Destroyed(Evicted(a[1]))[b]
            /\ \A p \in Plugs :
                 lists'[p] = IF p \in Ends(a)
                               THEN (lists[p] \ Evicted(a[1])) \cup {a}
                               ELSE Unlisted(Evicted(a[1]))[p]
            /\ cable[a] = "none" /\ Ends(a) \subseteq live
      BY <2>5, CreateEffects
    <3> DEFINE E == Evicted(a[1])
    <3>2. \A b \in Cables :
            cable'[b] = "on" <=> b = a \/ (cable[b] = "on" /\ b \notin E)
      BY <3>1 DEF Destroyed
    <3>3. ASSUME NEW p \in live, NEW b
          PROVE  b \in lists'[p] <=> b \in Of(p) /\ cable'[b] = "on"
      <4>1. a \in Of(p) <=> p \in Ends(a)
        BY DEF Of
      <4>2. b \in lists'[p] <=> \/ b = a /\ p \in Ends(a)
                                \/ b \in lists[p] /\ b \notin E
        BY <2>1, <3>1 DEF Unlisted
      <4>3. b \in lists[p] <=> b \in Of(p) /\ cable[b] = "on"
        BY <2>2
      <4> QED
        BY <2>3, <3>2, <4>1, <4>2, <4>3
    <3>4. ASSUME NEW p \in Leaving, NEW b \in Of(p), cable'[b] = "on"
          PROVE  b \in lists'[p]
      <4>1. p \in Plugs /\ p \notin live /\ p \notin Ends(a)
        BY <2>4, <3>1
      <4>2. lists'[p] = lists[p]
        BY <3>1, <4>1 DEF Unlisted
      <4>3. b \in Cables /\ p \in Ends(b)
        BY DEF Of
      <4>4. cable[b] = "on"
        BY <3>2, <3>4, <4>1, <4>3
      <4> QED
        BY <2>2, <4>2, <4>4
    <3>5. live' = live /\ Leaving' = Leaving
      BY <3>1 DEF Leaving
    <3>6. \A p \in live : lists'[p] = {b \in Of(p) : cable'[b] = "on"}
      BY <3>3
    <3>7. \A p \in Leaving : {b \in Of(p) : cable'[b] = "on"} \subseteq lists'[p]
      BY <3>4
    <3> QED
      BY <3>5, <3>6, <3>7 DEF PlugsAgree
  <2>6. ASSUME NEW D \in SUBSET Cables, cable' = Destroyed(D),
               lists' = Unlisted(D), UNCHANGED <<live, removing, deactQ>>
        PROVE  PlugsAgree'
    <3>1. \A b \in Cables : cable'[b] = "on" <=> cable[b] = "on" /\ b \notin D
      BY <2>6 DEF Destroyed
    <3>2. \A p \in live : lists'[p] = lists[p] \ D
      BY <2>1, <2>6 DEF Unlisted
    <3>3. \A p \in Leaving : lists'[p] = lists[p]
      BY <2>4, <2>6 DEF Unlisted
    <3>4. live' = live /\ Leaving' = Leaving
      BY <2>6 DEF Leaving
    <3> QED
      BY <2>2, <2>3, <3>1, <3>2, <3>3, <3>4 DEF PlugsAgree
  <2>7. ASSUME NEW c \in Clients, RemovePlug(c)
        PROVE  PlugsAgree'
    <3> DEFINE found == {Head(up[c])[2]} \cap live
    <3>1. /\ live' = live \ found /\ removing' = found
          /\ UNCHANGED <<cable, lists, deactQ>>
      BY <2>7 DEF RemovePlug
    <3>2. found \subseteq live
      OBVIOUS
    <3> HIDE DEF found
    <3>3. \A p \in live' : lists'[p] = On(p)'
      BY <2>2, <3>1
    <3>4. \A p \in Leaving' : p \in found \/ p \in Leaving
      BY <3>1 DEF Leaving
    <3>5. \A p \in Leaving' : On(p)' \subseteq lists'[p]
      BY <2>2, <3>1, <3>2, <3>4
    <3> QED
      BY <3>3, <3>5 DEF PlugsAgree
  <2>8. ASSUME RemovePlugEnds
        PROVE  PlugsAgree'
    <3>1. UNCHANGED <<cable, lists, live>> /\ Leaving' = Leaving
      BY <2>8 DEF RemovePlugEnds, Leaving
    <3> QED
      BY <2>2, <3>1 DEF PlugsAgree
  <2>9. ASSUME LoopEntities
        PROVE  PlugsAgree'
    <3>1. /\ UNCHANGED <<cable, live>> /\ Leaving' = removing
          /\ \A p \in Plugs : p \notin deactQ => lists'[p] = lists[p]
      BY <2>9 DEF LoopEntities, Leaving
    <3>2. \A p \in live : lists'[p] = lists[p]
      BY <2>1, <3>1 DEF Apart
    <3>3. \A p \in removing : lists'[p] = lists[p] /\ p \in Leaving
      BY <2>1, <3>1 DEF Apart, Leaving
    <3> QED
      BY <2>2, <3>1, <3>2, <3>3 DEF PlugsAgree
  <2>10. ASSUME LoopCables
         PROVE  PlugsAgree'
    <3>1. \A b \in Cables : cable'[b] = "on" <=> cable[b] = "on"
      BY <2>1, <2>10 DEF LoopCables
    <3>2. UNCHANGED <<lists, live>> /\ Leaving' = Leaving
      BY <2>10 DEF LoopCables, Leaving
    <3> QED
      BY <2>2, <2>3, <3>1, <3>2 DEF PlugsAgree
  <2>11. CASE UNCHANGED <<cable, lists, live, removing, deactQ>>
    BY <2>2, <2>11 DEF PlugsAgree, Leaving
  <2> QED
    BY <2>5, <2>6, <2>7, <2>8, <2>9, <2>10, <2>11, StageEffects
<1>3. Inv /\ [Next]_vars => Inv'
  BY <1>2, TypeStep, StaysApart
<1> QED
  BY <1>1, <1>3, PTL DEF Spec

(* No input of the stage ever lists more cables than it may, whatever its  *)
(* limit and however many cables are asked for at once.                    *)
THEOREM LimitKept == Spec => []InputLimit
<1>1. Init => InputLimit
  BY FS_EmptySet, CableAssumption DEF Init, InputLimit, Plugs
<1>2. TypeInv /\ InputLimit /\ [Next]_vars => InputLimit'
  <2> SUFFICES ASSUME TypeInv, InputLimit, [Next]_vars, NEW i \in Inputs
               PROVE  Cardinality(lists'[i]) <= Limit[i]
    BY DEF InputLimit
  <2>1. /\ i \in Plugs /\ Limit[i] \in Nat \ {0}
        /\ lists[i] \in SUBSET Cables
        /\ Cardinality(lists[i]) <= Limit[i]
    BY CableAssumption DEF TypeInv, TypeOK, InputLimit, Plugs
  <2>2. IsFiniteSet(lists[i]) /\ Cardinality(lists[i]) \in Nat
    BY <2>1, CablesFinite, FS_Subset, FS_CardinalityType
  <2>3. \A T \in SUBSET lists[i] : /\ IsFiniteSet(T)
                                   /\ Cardinality(T) \in Nat
                                   /\ Cardinality(T) <= Cardinality(lists[i])
    BY <2>2, FS_Subset, FS_CardinalityType
  <2>4. ASSUME lists'[i] \in SUBSET lists[i]
        PROVE  Cardinality(lists'[i]) <= Limit[i]
    BY <2>1, <2>2, <2>3, <2>4
  <2>5. ASSUME NEW c \in Clients, CreateCable(c)
        PROVE  Cardinality(lists'[i]) <= Limit[i]
    <3>1. PICK a \in Cables :
            lists'[i] = IF i \in Ends(a)
                          THEN (lists[i] \ Evicted(a[1])) \cup {a}
                          ELSE Unlisted(Evicted(a[1]))[i]
      BY <2>1, <2>5, CreateEffects
    <3>2. CASE i \notin Ends(a)
      BY <2>1, <2>4, <3>1, <3>2 DEF Unlisted
    <3>3. CASE i \in Ends(a)
      <4>1. i = a[1]
        BY <3>3, CableAssumption DEF Ends, Cables
      <4>2. CASE Full(i)
        <5>1. lists'[i] = {a}
          BY <3>1, <3>3, <4>1, <4>2 DEF Evicted
        <5> QED
          BY <2>1, <5>1, FS_Singleton
      <4>3. CASE ~Full(i)
        <5>1. lists'[i] = lists[i] \cup {a}
          BY <3>1, <3>3, <4>1, <4>3 DEF Evicted
        <5>2. Cardinality(lists[i]) < Limit[i]
          BY <2>1, <2>2, <4>3 DEF Full
        <5>3. \/ Cardinality(lists[i] \cup {a}) = Cardinality(lists[i])
              \/ Cardinality(lists[i] \cup {a}) = Cardinality(lists[i]) + 1
          BY <2>2, FS_AddElement
        <5> QED
          BY <2>1, <2>2, <5>1, <5>2, <5>3
      <4> QED
        BY <4>2, <4>3
    <3> QED
      BY <3>2, <3>3
  <2>6. ASSUME NEW D \in SUBSET Cables, lists' = Unlisted(D)
        PROVE  lists'[i] \in SUBSET lists[i]
    BY <2>1, <2>6 DEF Unlisted
  <2>7. ASSUME \/ \E c \in Clients : RemovePlug(c)
               \/ RemovePlugEnds \/ LoopEntities \/ LoopCables
        PROVE  lists'[i] \in SUBSET lists[i]
    BY <2>1, <2>7 DEF RemovePlug, RemovePlugEnds, LoopEntities, LoopCables
  <2> QED
    BY <2>4, <2>5, <2>6, <2>7, StageEffects
<1> QED
  BY <1>1, <1>2, InitType, TypeStep, PTL DEF Spec

-----------------------------------------------------------------------------
(* Cables inside one performer.                                            *)

Holds(s, m) == \E i \in 1..Len(s) : s[i] = m

(* What makes a client plug in the cable a, or trust that it may keep it.  *)
Grants(a) == {Msg("create", a), Msg("ok", a)}

(* Whatever grants the cable a in the queue s is called back later in it.  *)
CalledBack(s, a) ==
  \A i \in 1..Len(s) : s[i] \in Grants(a) =>
    \E j \in 1..Len(s) : j > i /\ s[j] = Msg("destroy", a)

(* At each client only a cable that is there is listed or has events; one  *)
(* whose deactivation is deferred is listed by plugs that leave, at most;  *)
(* and a plug that has left lists nothing.                                 *)
TidyAt(c, p, a) ==
  /\ mine[c][a] = "none" => events[c][a] = {} /\ a \notin plugged[c][p]
  /\ "deact" \in events[c][a] /\ p \in known[c] => a \notin plugged[c][p]
  /\ a \in plugged[c][p] => p \in known[c] \cup parting[c]

Tidy == \A c \in Clients, p \in Plugs, a \in Cables : TidyAt(c, p, a)

(* Cables that a client lists at plugs it finds, of those it was granted.  *)
Kept(c) == (UNION {plugged[c][p] : p \in known[c]}) \ claimed[c]

(* A cable that the stage does not have is called back from every client.  *)
Recalled ==
  \A c \in Clients, a \in Cables : Local(a) /\ cable[a] # "on" =>
    /\ CalledBack(down[c], a)
    /\ a \in Kept(c) => Holds(down[c], Msg("destroy", a))

(* Handshakes are only made between performers.                            *)
ShakesRemote == \A h \in shakes : ~Local(h.cable)

CallBackInv == Tidy /\ Recalled /\ ShakesRemote

(* More messages, none of which grants the cable a.                        *)
LEMMA CalledBackLonger ==
  ASSUME NEW s \in Seq(Downs), NEW t \in Seq(Downs), NEW a \in Cables,
         \A i \in 1..Len(t) : t[i] \notin Grants(a)
  PROVE  /\ CalledBack(s, a) => CalledBack(s \o t, a)
         /\ Holds(t, Msg("destroy", a)) => CalledBack(s \o t, a)
         /\ \A m : Holds(s, m) \/ Holds(t, m) => Holds(s \o t, m)
<1>1. /\ Len(s) \in Nat /\ Len(t) \in Nat /\ Len(s \o t) = Len(s) + Len(t)
      /\ \A i \in 1..Len(s) : (s \o t)[i] = s[i]
      /\ \A i \in 1..Len(t) : (s \o t)[i + Len(s)] = t[i]
  OBVIOUS
<1>2. ASSUME NEW i \in 1..Len(s \o t), (s \o t)[i] \in Grants(a)
      PROVE  i \in 1..Len(s) /\ s[i] \in Grants(a)
  <2>1. CASE i \in 1..Len(s)
    BY <1>1, <1>2, <2>1
  <2>2. CASE i \notin 1..Len(s)
    <3>1. i - Len(s) \in 1..Len(t) /\ (i - Len(s)) + Len(s) = i
      BY <1>1, <2>2
    <3> QED
      BY <1>1, <1>2, <3>1
  <2> QED
    BY <2>1, <2>2
<1>3. ASSUME CalledBack(s, a) PROVE CalledBack(s \o t, a)
  <2> SUFFICES ASSUME NEW i \in 1..Len(s), s[i] \in Grants(a)
               PROVE  \E j \in 1..Len(s \o t) : j > i /\ (s \o t)[j] = Msg("destroy", a)
    BY <1>2 DEF CalledBack
  <2>1. PICK j \in 1..Len(s) : j > i /\ s[j] = Msg("destroy", a)
    BY <1>3 DEF CalledBack
  <2>2. j \in 1..Len(s \o t) /\ (s \o t)[j] = s[j]
    BY <1>1
  <2> QED
    BY <2>1, <2>2
<1>4. ASSUME Holds(t, Msg("destroy", a)) PROVE CalledBack(s \o t, a)
  <2>1. PICK j \in 1..Len(t) : t[j] = Msg("destroy", a)
    BY <1>4 DEF Holds
  <2>2. /\ j + Len(s) \in 1..Len(s \o t) /\ (s \o t)[j + Len(s)] = t[j]
        /\ \A i \in 1..Len(s) : j + Len(s) > i
    BY <1>1
  <2> QED
    BY <1>2, <2>1, <2>2 DEF CalledBack
<1>5. ASSUME NEW m, Holds(s, m) \/ Holds(t, m) PROVE Holds(s \o t, m)
  <2>1. CASE Holds(s, m)
    <3>1. PICK i \in 1..Len(s) : s[i] = m
      BY <2>1 DEF Holds
    <3>2. i \in 1..Len(s \o t) /\ (s \o t)[i] = m
      BY <1>1, <3>1
    <3> QED
      BY <3>2 DEF Holds
  <2>2. CASE Holds(t, m)
    <3>1. PICK i \in 1..Len(t) : t[i] = m
      BY <2>2 DEF Holds
    <3>2. i + Len(s) \in 1..Len(s \o t) /\ (s \o t)[i + Len(s)] = m
      BY <1>1, <3>1
    <3> QED
      BY <3>2 DEF Holds
  <2> QED
    BY <1>5, <2>1, <2>2
<1> QED
  BY <1>3, <1>4, <1>5

(* The front message is taken.                                             *)
LEMMA CalledBackTail ==
  ASSUME NEW s \in Seq(Downs), s # <<>>, NEW a \in Cables
  PROVE  /\ CalledBack(s, a) => CalledBack(Tail(s), a)
         /\ CalledBack(s, a) /\ Head(s) \in Grants(a) =>
              Holds(Tail(s), Msg("destroy", a))
         /\ \A m : Holds(s, m) /\ Head(s) # m => Holds(Tail(s), m)
<1>1. /\ Len(s) \in Nat /\ Len(s) > 0 /\ Len(Tail(s)) = Len(s) - 1
      /\ Head(s) = s[1]
      /\ \A i \in 1..Len(Tail(s)) : Tail(s)[i] = s[i + 1]
  OBVIOUS
<1>2. ASSUME NEW j \in 1..Len(s), j > 1
      PROVE  j - 1 \in 1..Len(Tail(s)) /\ Tail(s)[j - 1] = s[j]
  <2>1. j - 1 \in 1..Len(Tail(s)) /\ (j - 1) + 1 = j
    BY <1>1, <1>2
  <2> QED
    BY <1>1, <2>1
<1>3. ASSUME CalledBack(s, a) PROVE CalledBack(Tail(s), a)
  <2> SUFFICES ASSUME NEW i \in 1..Len(Tail(s)), Tail(s)[i] \in Grants(a)
               PROVE  \E j \in 1..Len(Tail(s)) :
                        j > i /\ Tail(s)[j] = Msg("destroy", a)
    BY DEF CalledBack
  <2>1. i + 1 \in 1..Len(s) /\ s[i + 1] \in Grants(a)
    BY <1>1
  <2>2. PICK j \in 1..Len(s) : j > i + 1 /\ s[j] = Msg("destroy", a)
    BY <1>3, <2>1 DEF CalledBack
  <2>3. j > 1 /\ j - 1 > i
    BY <2>2
  <2> QED
    BY <1>2, <2>2, <2>3
<1>4. ASSUME CalledBack(s, a), Head(s) \in Grants(a)
      PROVE  Holds(Tail(s), Msg("destroy", a))
  <2>1. 1 \in 1..Len(s) /\ s[1] \in Grants(a)
    BY <1>1, <1>4
  <2>2. PICK j \in 1..Len(s) : j > 1 /\ s[j] = Msg("destroy", a)
    BY <1>4, <2>1 DEF CalledBack
  <2> QED
    BY <1>2, <2>2 DEF Holds
<1>5. ASSUME NEW m, Holds(s, m), Head(s) # m PROVE Holds(Tail(s), m)
  <2>1. PICK j \in 1..Len(s) : s[j] = m
    BY <1>5 DEF Holds
  <2>2. j > 1
    BY <1>1, <1>5, <2>1
  <2> QED
    BY <1>2, <2>1, <2>2 DEF Holds
<1> QED
  BY <1>3, <1>4, <1>5

(* Messages in a row.                                                      *)
LEMMA Joined ==
  ASSUME NEW r \in Seq(Downs), NEW s \in Seq(Downs), NEW t \in Seq(Downs)
  PROVE  (r \o s) \o t = r \o (s \o t)
BY ConcatAssociative

LEMMA NoGrant ==
  ASSUME NEW s \in Seq(Downs), NEW t \in Seq(Downs), NEW a \in Cables,
         \A i \in 1..Len(s) : s[i] \notin Grants(a),
         \A i \in 1..Len(t) : t[i] \notin Grants(a)
  PROVE  /\ s \o t \in Seq(Downs)
         /\ \A i \in 1..Len(s \o t) : (s \o t)[i] \notin Grants(a)
<1>1. /\ s \o t \in Seq(Downs)
      /\ Len(s) \in Nat /\ Len(t) \in Nat /\ Len(s \o t) = Len(s) + Len(t)
      /\ \A i \in 1..Len(s \o t) :
           (s \o t)[i] = IF i <= Len(s) THEN s[i] ELSE t[i - Len(s)]
  OBVIOUS
<1>2. \A i \in 1..Len(s \o t) : i <= Len(s) => i \in 1..Len(s)
  BY <1>1
<1>3. \A i \in 1..Len(s \o t) : ~(i <= Len(s)) => i - Len(s) \in 1..Len(t)
  BY <1>1
<1> QED
  BY <1>1, <1>2, <1>3

(* What a step of the stage sends a client, as far as a cable inside one   *)
(* performer is concerned that the stage does not have afterwards.         *)
Sends(c, a) ==
  \E t \in Seq(Downs) :
    /\ down'[c] = down[c] \o t
    /\ \A i \in 1..Len(t) : t[i] \notin Grants(a)
    /\ cable[a] = "on" => Holds(t, Msg("destroy", a))

(* Destroying the cables D sends each of them to every client.             *)
LEMMA DestroySends ==
  ASSUME TypeInv, NEW c \in Clients, NEW a \in Cables, NEW D \in SUBSET Cables,
         NEW u \in Seq(Downs), \A i \in 1..Len(u) : u[i] \notin Grants(a),
         down'[c] = (down[c] \o Messages("destroy", D)) \o u,
         cable[a] = "on" => a \in D
  PROVE  Sends(c, a)
<1> DEFINE m == Messages("destroy", D)
           t == m \o u
<1>1. /\ m \in Seq(Downs)
      /\ \A i \in 1..Len(m) : \E x \in D : m[i] = Msg("destroy", x)
      /\ \A x \in D : \E i \in 1..Len(m) : m[i] = Msg("destroy", x)
  BY DestroyMessages
<1>2. /\ t \in Seq(Downs) /\ Len(t) = Len(m) + Len(u)
      /\ Len(m) \in Nat /\ Len(u) \in Nat
      /\ \A i \in 1..Len(t) : t[i] = IF i <= Len(m) THEN m[i] ELSE u[i - Len(m)]
  BY <1>1, ConcatProperties
<1>3. down[c] \in Seq(Downs)
  BY DEF TypeInv
<1>4. down'[c] = down[c] \o t
  BY <1>1, <1>3, Joined, Zenon
<1>5. ASSUME NEW i \in 1..Len(t) PROVE t[i] \notin Grants(a)
  <2>1. CASE i <= Len(m)
    <3>1. i \in 1..Len(m) /\ t[i] = m[i]
      BY <1>2, <2>1
    <3>2. \E x \in D : t[i] = Msg("destroy", x)
      BY <1>1, <3>1
    <3> QED
      BY <3>2 DEF Grants, Msg
  <2>2. CASE ~(i <= Len(m))
    <3>1. i - Len(m) \in 1..Len(u) /\ t[i] = u[i - Len(m)]
      BY <1>2, <2>2
    <3> QED
      BY <3>1
  <2> QED
    BY <2>1, <2>2
<1>6. ASSUME cable[a] = "on" PROVE Holds(t, Msg("destroy", a))
  <2>1. PICK i \in 1..Len(m) : m[i] = Msg("destroy", a)
    BY <1>1, <1>6
  <2>2. i \in 1..Len(t) /\ t[i] = m[i]
    BY <1>2
  <2> QED
    BY <2>1, <2>2 DEF Holds
<1> QED
  BY <1>2, <1>4, <1>5, <1>6 DEF Sends

(* A step that sends something else and leaves the cable as it is.         *)
LEMMA OtherSends ==
  ASSUME NEW c, NEW a, NEW t \in Seq(Downs), down'[c] = down[c] \o t,
         \A i \in 1..Len(t) : t[i] \notin Grants(a), cable[a] # "on"
  PROVE  Sends(c, a)
BY DEF Sends

LEMMA StageSends ==
  ASSUME TypeInv, ShakesRemote, StageNext, NEW c \in Clients, NEW a \in Cables,
         Local(a), cable'[a] # "on"
  PROVE  Sends(c, a)
<1>0. down[c] \in Seq(Downs) /\ cable[a] \in {"none", "on", "deactq"}
  BY DEF TypeInv, TypeOK
<1>1. ASSUME down'[c] = down[c], cable'[a] = "on" <=> cable[a] = "on"
      PROVE  Sends(c, a)
  <2>1. <<>> \in Seq(Downs) /\ down'[c] = down[c] \o <<>> /\ Len(<<>>) = 0
    BY <1>0, <1>1
  <2>2. \A i \in 1..Len(<<>>) : <<>>[i] \notin Grants(a)
    BY <2>1
  <2> QED
    BY <1>1, <2>1, <2>2, OtherSends, Zenon
<1>2. ASSUME NEW b \in Clients, RefuseCable(b)
      PROVE  Sends(c, a)
  <2> DEFINE x == Head(up[b])[2]
  <2>1. x \in Cables
    BY <1>2, RequestType DEF RefuseCable
  <2>2. Msg("err", x) \in Downs /\ Msg("err", x) \notin Grants(a)
    BY <2>1 DEF Msg, Downs, Grants
  <2>3. cable' = cable
    BY <1>2 DEF RefuseCable, stage
  <2>4. CASE c = b
    <3>1. down'[c] = Append(down[c], Msg("err", x))
      BY <1>2, <2>4 DEF RefuseCable, TypeInv
    <3>2. /\ <<Msg("err", x)>> \in Seq(Downs)
          /\ down'[c] = down[c] \o <<Msg("err", x)>>
          /\ \A i \in 1..Len(<<Msg("err", x)>>) : <<Msg("err", x)>>[i] \notin Grants(a)
      BY <1>0, <2>2, <3>1
    <3> QED
      BY <2>3, <3>2, OtherSends
  <2>5. CASE c # b
    <3>1. down'[c] = down[c]
      BY <1>2, <2>5 DEF RefuseCable, TypeInv
    <3> QED
      BY <1>1, <2>3, <3>1
  <2> QED
    BY <2>4, <2>5
<1>3. ASSUME NEW b \in Clients, CreateCable(b)
      PROVE  Sends(c, a)
  <2> DEFINE x == Head(up[b])[2]
             E == Evicted(x[1])
             gone == Messages("destroy", E)
             one == IF Local(x) THEN <<Msg("create", x)>> ELSE <<>>
             two == IF Local(x) /\ c = b THEN <<Msg("ok", x)>> ELSE <<>>
             u == one \o two
  <2>1. x \in Cables /\ E \in SUBSET Cables /\ gone \in Seq(Downs)
    BY <1>3, RequestType, EvictedType, DestroyMessages DEF CreateCable
  <2>2. cable'[a] = IF a = x THEN "on" ELSE Destroyed(E)[a]
    BY <1>3, CreateEffects
  <2>3. a # x /\ (cable[a] = "on" => a \in E)
    BY <2>2 DEF Destroyed
  <2>4. /\ Msg("create", x) \in Downs /\ Msg("ok", x) \in Downs
        /\ Msg("create", x) \notin Grants(a) /\ Msg("ok", x) \notin Grants(a)
    BY <2>1, <2>3 DEF Msg, Downs, Grants
  <2>5. /\ one \in Seq(Downs) /\ \A i \in 1..Len(one) : one[i] \notin Grants(a)
        /\ two \in Seq(Downs) /\ \A i \in 1..Len(two) : two[i] \notin Grants(a)
    BY <2>4
  <2>6. u \in Seq(Downs) /\ \A i \in 1..Len(u) : u[i] \notin Grants(a)
    <3> HIDE DEF one, two
    <3> QED
      BY <2>5, NoGrant
  <2>7. down'[c] = down[c] \o gone \o one \o two
    BY <1>3 DEF CreateCable
  <2>8. down[c] \o gone \in Seq(Downs)
    BY <1>0, <2>1, ConcatProperties
  <2>9. down'[c] = (down[c] \o gone) \o u
    <3> HIDE DEF gone, one, two
    <3> QED
      BY <2>5, <2>7, <2>8, Joined, Zenon
  <2> QED
    BY <2>1, <2>3, <2>5, <2>6, <2>9, DestroySends
<1>4. ASSUME NEW h \in shakes, FinishHandshake(h)
      PROVE  Sends(c, a)
  <2> DEFINE x == h.cable
             one == <<Msg("create", x)>>
             two == IF c = h.to THEN <<Msg("ok", x)>> ELSE <<>>
             u == one \o two
  <2>1. x \in Cables /\ x # a
    BY DEF TypeInv, TypeOK, ShakesRemote
  <2>2. /\ Msg("create", x) \in Downs /\ Msg("ok", x) \in Downs
        /\ Msg("create", x) \notin Grants(a) /\ Msg("ok", x) \notin Grants(a)
    BY <2>1 DEF Msg, Downs, Grants
  <2>3. cable' = cable
    BY <1>4 DEF FinishHandshake
  <2>4. CASE down'[c] = down[c]
    BY <1>1, <2>3, <2>4
  <2>5. CASE down'[c] # down[c]
    <3>1. down'[c] = down[c] \o one \o two
      BY <1>4, <2>5 DEF FinishHandshake
    <3>2. /\ one \in Seq(Downs) /\ \A i \in 1..Len(one) : one[i] \notin Grants(a)
          /\ two \in Seq(Downs) /\ \A i \in 1..Len(two) : two[i] \notin Grants(a)
      BY <2>2
    <3> HIDE DEF one, two
    <3>3. u \in Seq(Downs) /\ \A i \in 1..Len(u) : u[i] \notin Grants(a)
      BY <3>2, NoGrant
    <3>4. down'[c] = down[c] \o u
      BY <1>0, <3>1, <3>2, Joined, Zenon
    <3> QED
      BY <2>3, <3>3, <3>4, OtherSends
  <2> QED
    BY <2>4, <2>5
<1>5. ASSUME NEW b \in Clients, DestroyCable(b)
      PROVE  Sends(c, a)
  <2> DEFINE x == Head(up[b])[2]
             D == IF Request(b, "destroy") /\ FindCable(x) THEN {x} ELSE {}
             u == IF c = b THEN <<Msg("destroyed", x)>> ELSE <<>>
  <2>1. x \in Cables /\ D \in SUBSET Cables
    BY <1>5, RequestType DEF DestroyCable
  <2>2. cable' = Destroyed(D)
    BY <1>5 DEF DestroyCable
  <2>3. cable[a] = "on" => a \in D
    BY <2>2 DEF Destroyed
  <2>4. Msg("destroyed", x) \in Downs /\ Msg("destroyed", x) \notin Grants(a)
    BY <2>1 DEF Msg, Downs, Grants
  <2>5. u \in Seq(Downs) /\ \A i \in 1..Len(u) : u[i] \notin Grants(a)
    BY <2>4
  <2>6. down'[c] = (down[c] \o Messages("destroy", D)) \o u
    BY <1>5 DEF DestroyCable
  <2> QED
    BY <2>1, <2>3, <2>5, <2>6, DestroySends
<1>6. ASSUME RemovePlugEnds
      PROVE  Sends(c, a)
  <2> DEFINE m == Messages("gone", removing)
  <2>1. removing \in SUBSET Plugs
    BY DEF TypeInv, TypeOK
  <2>2. m \in Seq(Downs) /\ \A i \in 1..Len(m) : \E x : m[i] = Msg("gone", x)
    BY <2>1, GoneMessages
  <2>3. \A i \in 1..Len(m) : m[i] \notin Grants(a)
    BY <2>2 DEF Grants, Msg
  <2>4. down'[c] = down[c] \o m /\ cable' = cable
    BY <1>6 DEF RemovePlugEnds, Broadcast
  <2> QED
    BY <2>2, <2>3, <2>4, OtherSends
<1>7. ASSUME LoopLeaving
      PROVE  Sends(c, a)
  <2> DEFINE D == {x \in UNION {lists[p] : p \in leaveQ \cap Leaving} : FindCable(x)}
  <2>1. D \in SUBSET Cables
    BY DEF TypeInv, TypeOK
  <2>2. cable' = Destroyed(D) /\ down'[c] = down[c] \o Messages("destroy", D)
    BY <1>7 DEF LoopLeaving, DestroyAll, Broadcast
  <2>3. cable[a] = "on" => a \in D
    BY <2>2 DEF Destroyed
  <2>4. down[c] \o Messages("destroy", D) \in Seq(Downs)
    BY <1>0, <2>1, DestroyMessages, ConcatProperties
  <2>5. /\ <<>> \in Seq(Downs) /\ Len(<<>>) = 0
        /\ down'[c] = (down[c] \o Messages("destroy", D)) \o <<>>
    BY <2>2, <2>4, ConcatEmptySeq
  <2>6. \A i \in 1..Len(<<>>) : <<>>[i] \notin Grants(a)
    BY <2>5
  <2> HIDE DEF D
  <2> QED
    BY <2>1, <2>3, <2>5, <2>6, DestroySends
<1>8. ASSUME \/ \E h \in shakes : HandshakeFails(h)
             \/ \E b \in Clients : RemovePlug(b)
             \/ LoopEntities
      PROVE  Sends(c, a)
  BY <1>1, <1>8 DEF HandshakeFails, RemovePlug, LoopEntities
<1>9. ASSUME LoopCables
      PROVE  Sends(c, a)
  BY <1>1, <1>9 DEF LoopCables
<1> QED
  BY <1>2, <1>3, <1>4, <1>5, <1>6, <1>7, <1>8, <1>9 DEF StageNext

(* A step of the stage calls back what it destroys.                        *)
LEMMA StageCallsBack ==
  ASSUME TypeInv, CallBackInv, StageNext
  PROVE  CallBackInv'
<1>1. UNCHANGED <<mine, events, plugged, known, parting, claimed>>
  BY DEF StageNext, RefuseCable, CreateCable, DestroyCable, RemovePlug,
         RemovePlugEnds, FinishHandshake, HandshakeFails, LoopLeaving,
         LoopEntities, LoopCables, client
<1>2. Tidy'
  BY <1>1 DEF CallBackInv, Tidy, TidyAt
<1> USE DEF Kept
<1>3. ASSUME NEW c \in Clients, NEW a \in Cables, Local(a), cable'[a] # "on"
      PROVE  /\ CalledBack(down'[c], a)
             /\ a \in Kept(c)' => Holds(down'[c], Msg("destroy", a))
  <2>1. Sends(c, a) /\ down[c] \in Seq(Downs)
    BY <1>3, StageSends DEF CallBackInv, TypeInv
  <2>2. PICK t \in Seq(Downs) :
          /\ down'[c] = down[c] \o t
          /\ \A i \in 1..Len(t) : t[i] \notin Grants(a)
          /\ cable[a] = "on" => Holds(t, Msg("destroy", a))
    BY <2>1 DEF Sends
  <2>3. /\ CalledBack(down[c], a) => CalledBack(down'[c], a)
        /\ Holds(t, Msg("destroy", a)) => CalledBack(down'[c], a)
        /\ \A m : Holds(down[c], m) \/ Holds(t, m) => Holds(down'[c], m)
    BY <2>1, <2>2, CalledBackLonger
  <2>4. CASE cable[a] = "on"
    BY <2>2, <2>3, <2>4
  <2>5. CASE cable[a] # "on"
    BY <1>1, <1>3, <2>3, <2>5 DEF CallBackInv, Recalled
  <2> QED
    BY <2>4, <2>5
<1>4. Recalled'
  BY <1>3 DEF Recalled, Local
<1>5. ShakesRemote'
  <2> SUFFICES ASSUME NEW g \in shakes' PROVE ~Local(g.cable)
    BY DEF ShakesRemote, Local
  <2>0. \A h \in shakes : ~Local(h.cable)
    BY DEF CallBackInv, ShakesRemote
  <2>1. ASSUME NEW c \in Clients, CreateCable(c)
        PROVE  ~Local(g.cable)
    <3> DEFINE a == Head(up[c])[2]
    <3>1. g \in shakes \/ (~Local(a) /\ g = [cable |-> a, to |-> c, erased |-> FALSE])
      BY <2>1 DEF CreateCable
    <3> QED
      BY <2>0, <3>1
  <2>2. CASE LoopCables
    <3>1. PICK h \in shakes :
            g = [h EXCEPT !.erased = @ \/ cable[h.cable] = "deactq"]
      BY <2>2 DEF LoopCables
    <3>2. h \in [cable : Cables, to : Clients, erased : BOOLEAN]
      BY DEF TypeInv, TypeOK
    <3>3. g.cable = h.cable
      BY <3>1, <3>2
    <3> QED
      BY <2>0, <3>3
  <2>3. CASE ~LoopCables /\ ~\E c \in Clients : CreateCable(c)
    <3>1. shakes' \subseteq shakes
      BY <2>3 DEF StageNext, RefuseCable, DestroyCable, RemovePlug,
           RemovePlugEnds, FinishHandshake, HandshakeFails, LoopLeaving,
           LoopEntities, stage
    <3> QED
      BY <2>0, <3>1
  <2> QED
    BY <2>1, <2>2, <2>3
<1> QED
  BY <1>2, <1>4, <1>5 DEF CallBackInv

(* What a client does with its cable x, as far as Tidy is concerned.       *)
LEMMA KeepsTidy ==
  ASSUME TypeInv, Tidy, NEW b \in Clients, NEW x \in Cables,
         UNCHANGED <<known, parting>>,
         \/ ConnectEarly(b, x)
         \/ Ends(x) \subseteq known[b] /\ CreateHeard(b, x)
         \/ mine[b][x] # "none" /\ Unplug(b, x)
         \/ Activate(b, x) /\ UNCHANGED plugged
         \/ UNCHANGED <<mine, events, plugged>>
  PROVE  Tidy'
<1> SUFFICES ASSUME NEW c \in Clients, NEW p \in Plugs, NEW a \in Cables
             PROVE  TidyAt(c, p, a)'
  BY DEF Tidy
<1>1. /\ mine[c][a] = "none" => events[c][a] = {} /\ a \notin plugged[c][p]
      /\ "deact" \in events[c][a] /\ p \in known[c] => a \notin plugged[c][p]
      /\ a \in plugged[c][p] => p \in known[c] \cup parting[c]
  BY DEF Tidy, TidyAt
<1>2. /\ mine \in [Clients -> [Cables -> Mine]]
      /\ events \in [Clients -> [Cables -> SUBSET {"act", "deact"}]]
  BY DEF TypeInv, TypeOK, Mine
<1>0. /\ Plug(b, x) =>
           \A d \in Clients, q \in Plugs :
             plugged'[d][q] = IF d = b /\ q \in Ends(x)
                                THEN plugged[d][q] \cup {x} ELSE plugged[d][q]
      /\ Unplug(b, x) =>
           \A d \in Clients, q \in Plugs :
             plugged'[d][q] = IF d = b /\ q \in known[b]
                                THEN plugged[d][q] \ {x} ELSE plugged[d][q]
  BY PlugEffects
<1>3. CASE UNCHANGED <<mine, events, plugged>>
  BY <1>1, <1>3 DEF TidyAt
<1>4. CASE c # b \/ a # x
  <2>1. mine'[c][a] = mine[c][a] /\ events'[c][a] = events[c][a]
    BY <1>2, <1>4 DEF ConnectEarly, CreateHeard, Unplug, Activate
  <2>2. a \in plugged'[c][p] => a \in plugged[c][p]
    <3>1. CASE Plug(b, x)
      BY <1>0, <1>4, <3>1
    <3>2. CASE Unplug(b, x)
      BY <1>0, <3>2
    <3>3. CASE UNCHANGED plugged
      BY <3>3
    <3> QED
      BY <3>1, <3>2, <3>3 DEF ConnectEarly, CreateHeard
  <2> QED
    BY <1>1, <2>1, <2>2 DEF TidyAt
<1>5. CASE c = b /\ a = x
  <2>1. CASE UNCHANGED plugged /\ ~Unplug(b, x)
    <3>1. /\ mine'[c][a] = "none" => mine[c][a] = "none" /\ events'[c][a] = events[c][a]
          /\ "deact" \in events'[c][a] => "deact" \in events[c][a]
                                          \/ mine[c][a] = "none"
      BY <1>2, <1>5, <2>1 DEF ConnectEarly, CreateHeard, Unplug, Activate
    <3> QED
      BY <1>1, <2>1, <3>1 DEF TidyAt
  <2>2. CASE Plug(b, x) /\ mine[b][x] = "none" /\ Ends(x) \subseteq known[b]
               /\ mine'[c][a] # "none" /\ events'[c][a] = events[c][a]
    <3>1. plugged'[c][p] = IF p \in Ends(a) THEN plugged[c][p] \cup {a}
                                            ELSE plugged[c][p]
      BY <1>0, <1>5, <2>2
    <3> QED
      BY <1>1, <1>5, <2>2, <3>1 DEF TidyAt
  <2>3. CASE mine[b][x] # "none" /\ Unplug(b, x)
    <3>1. mine'[c][a] # "none"
      BY <1>2, <1>5, <2>3 DEF Unplug
    <3>2. plugged'[c][p] = IF p \in known[c] THEN plugged[c][p] \ {a}
                                             ELSE plugged[c][p]
      BY <1>0, <1>5, <2>3
    <3> QED
      BY <1>1, <3>1, <3>2 DEF TidyAt
  <2>4. CASE mine[b][x] = "none" /\ Unplug(b, x) /\ UNCHANGED plugged
    <3>1. mine'[c][a] = mine[c][a] /\ events'[c][a] = events[c][a]
      BY <1>2, <1>5, <2>4 DEF Unplug
    <3> QED
      BY <1>1, <2>4, <3>1 DEF TidyAt
  <2>5. ASSUME \/ ConnectEarly(b, x)
               \/ Ends(x) \subseteq known[b] /\ CreateHeard(b, x)
        PROVE  \/ UNCHANGED plugged
               \/ Plug(b, x) /\ mine[b][x] = "none" /\ Ends(x) \subseteq known[b]
                    /\ mine'[c][a] # "none" /\ events'[c][a] = events[c][a]
    BY <1>2, <1>5, <2>5 DEF ConnectEarly, CreateHeard
  <2> QED
    BY <1>3, <2>1, <2>2, <2>3, <2>4, <2>5
<1> QED
  BY <1>4, <1>5

(* A step of a client after which it keeps no cable more and has no        *)
(* message less.                                                           *)
LEMMA QuietRecalled ==
  ASSUME TypeInv, Recalled, UNCHANGED <<cable, down>>,
         \A c \in Clients : Kept(c)' \subseteq Kept(c)
  PROVE  Recalled'
BY DEF Recalled, Local

(* A client takes the message about the cable x from its queue.            *)
LEMMA HeardRecalled ==
  ASSUME TypeInv, Recalled, NEW b \in Clients, NEW k, NEW x,
         down[b] # <<>>, Head(down[b]) = Msg(k, x), Heard(b), UNCHANGED cable,
         \A c \in Clients : c # b => Kept(c)' \subseteq Kept(c),
         \A a \in Cables : a \in Kept(b)' =>
           \/ a \in Kept(b) /\ Msg(k, x) # Msg("destroy", a)
           \/ Msg(k, x) \in Grants(a)
  PROVE  Recalled'
<1> SUFFICES ASSUME NEW c \in Clients, NEW a \in Cables, Local(a),
                    cable[a] # "on"
             PROVE  /\ CalledBack(down'[c], a)
                    /\ a \in Kept(c)' => Holds(down'[c], Msg("destroy", a))
  BY DEF Recalled, Local
<1>1. /\ CalledBack(down[c], a)
      /\ a \in Kept(c) => Holds(down[c], Msg("destroy", a))
  BY DEF Recalled
<1>2. down \in [Clients -> Seq(Downs)]
  BY DEF TypeInv
<1>3. CASE c # b
  BY <1>1, <1>2, <1>3 DEF Heard
<1>4. CASE c = b
  <2>1. down'[c] = Tail(down[c]) /\ down[c] \in Seq(Downs) /\ down[c] # <<>>
    BY <1>2, <1>4 DEF Heard
  <2>2. /\ CalledBack(down[c], a) => CalledBack(Tail(down[c]), a)
        /\ CalledBack(down[c], a) /\ Head(down[c]) \in Grants(a) =>
             Holds(Tail(down[c]), Msg("destroy", a))
        /\ \A m : Holds(down[c], m) /\ Head(down[c]) # m => Holds(Tail(down[c]), m)
    BY <2>1, CalledBackTail
  <2> QED
    BY <1>1, <1>4, <2>1, <2>2
<1> QED
  BY <1>3, <1>4

(* What the client b keeps after a step that lists the cable x at both     *)
(* ends, takes it off the lists, or only stops to find plugs.              *)
LEMMA KeptEffects ==
  ASSUME TypeInv, NEW b \in Clients, NEW x \in Cables, UNCHANGED known,
         \/ Plug(b, x)
         \/ Unplug(b, x)
         \/ UNCHANGED plugged
  PROVE  /\ \A c \in Clients : c # b /\ claimed'[c] = claimed[c] => Kept(c)' = Kept(c)
         /\ \A a \in Cables : a # x /\ a \in Kept(b)' =>
              a \in Kept(b) \/ (a \notin claimed'[b] /\ a \in claimed[b])
         /\ Unplug(b, x) => x \notin Kept(b)'
         /\ UNCHANGED plugged \/ Unplug(b, x) =>
              \A a \in Cables : a \in Kept(b)' =>
                a \in Kept(b) \/ (a \notin claimed'[b] /\ a \in claimed[b])
<1>1. known \in [Clients -> SUBSET Plugs]
  BY DEF TypeInv, TypeOK
<1>0. /\ Plug(b, x) =>
           \A d \in Clients, q \in Plugs :
             plugged'[d][q] = IF d = b /\ q \in Ends(x)
                                THEN plugged[d][q] \cup {x} ELSE plugged[d][q]
      /\ Unplug(b, x) =>
           \A d \in Clients, q \in Plugs :
             plugged'[d][q] = IF d = b /\ q \in known[b]
                                THEN plugged[d][q] \ {x} ELSE plugged[d][q]
  BY PlugEffects
<1>2. ASSUME NEW c \in Clients, c # b
      PROVE  \A p \in known[c] : plugged'[c][p] = plugged[c][p]
  BY <1>0, <1>1, <1>2
<1>3. ASSUME NEW a \in Cables, NEW p \in known[b],
             a # x \/ UNCHANGED plugged \/ Unplug(b, x)
      PROVE  a \in plugged'[b][p] => a \in plugged[b][p]
  BY <1>0, <1>1, <1>3
<1>4. ASSUME Unplug(b, x), NEW p \in known[b]
      PROVE  x \notin plugged'[b][p]
  BY <1>0, <1>1, <1>4
<1>5. ASSUME NEW c \in Clients, c # b, claimed'[c] = claimed[c]
      PROVE  Kept(c)' = Kept(c)
  BY <1>2, <1>5 DEF Kept
<1>6. ASSUME NEW a \in Cables, a \in Kept(b)',
             a # x \/ UNCHANGED plugged \/ Unplug(b, x)
      PROVE  a \in Kept(b) \/ (a \notin claimed'[b] /\ a \in claimed[b])
  <2>1. PICK p \in known[b] : a \in plugged'[b][p]
    BY <1>6 DEF Kept
  <2>2. a \notin claimed'[b]
    BY <1>6 DEF Kept
  <2>3. a \in plugged[b][p]
    <3>1. a \in plugged'[b][p] => a \in plugged[b][p]
      BY <1>3, <1>6
    <3> QED
      BY <2>1, <3>1
  <2>4. a \notin claimed[b] => a \in Kept(b)
    BY <2>3 DEF Kept
  <2> QED
    BY <2>2, <2>4
<1>7. Unplug(b, x) => x \notin Kept(b)'
  BY <1>4 DEF Kept
<1> QED
  BY <1>5, <1>6, <1>7

(* A step of a client keeps what is called back.                           *)
LEMMA ClientCallsBack ==
  ASSUME TypeInv, CallBackInv, ClientNext
  PROVE  CallBackInv'
<1>0. UNCHANGED <<cable, shakes>>
  BY DEF ClientNext, ConnectCable, AskDestroy, AskRemove, HearCreate,
         HearDestroy, HearReply, HearDestroyed, HearGone, Poll, stage
<1>1. ShakesRemote'
  BY <1>0 DEF CallBackInv, ShakesRemote, Local
<1>2. Tidy /\ Recalled
  BY DEF CallBackInv
<1>3. /\ claimed \in [Clients -> SUBSET Cables]
      /\ known \in [Clients -> SUBSET Plugs] /\ parting \in [Clients -> SUBSET Plugs]
  BY DEF TypeInv, TypeOK
<1>4. ASSUME NEW b \in Clients, NEW x \in Cables, ConnectCable(b, x)
      PROVE  Tidy' /\ Recalled'
  <2>1. /\ ConnectEarly(b, x) /\ UNCHANGED <<cable, down, known, parting>>
        /\ Plug(b, x) \/ UNCHANGED plugged
    BY <1>0, <1>4 DEF ConnectCable, ConnectEarly
  <2>2. /\ x \in claimed'[b] /\ claimed[b] \subseteq claimed'[b]
        /\ \A c \in Clients : c # b => claimed'[c] = claimed[c]
    BY <1>3, <1>4 DEF ConnectCable
  <2>3. /\ \A c \in Clients : c # b /\ claimed'[c] = claimed[c] => Kept(c)' = Kept(c)
        /\ \A a \in Cables : a # x /\ a \in Kept(b)' =>
             a \in Kept(b) \/ (a \notin claimed'[b] /\ a \in claimed[b])
    BY <2>1, KeptEffects
  <2>4. \A a \in Kept(b)' : a \in Cables /\ a # x
    <3>1. plugged' \in Listings
      BY <2>1, PlugEffects DEF TypeInv, TypeOK, Listings
    <3> QED
      BY <1>3, <2>1, <2>2, <3>1 DEF Kept, Listings
  <2>5. \A c \in Clients : Kept(c)' \subseteq Kept(c)
    BY <2>2, <2>3, <2>4
  <2> QED
    BY <1>2, <2>1, <2>5, KeepsTidy, QuietRecalled
<1>5. ASSUME UNCHANGED <<mine, events, plugged, known, parting, claimed, down>>
      PROVE  Tidy' /\ Recalled'
  <2>1. Tidy'
    BY <1>2, <1>5 DEF Tidy, TidyAt
  <2>2. \A c \in Clients : Kept(c)' = Kept(c)
    BY <1>5 DEF Kept
  <2> QED
    BY <1>0, <1>2, <1>5, <2>1, <2>2, QuietRecalled
<1>6. ASSUME NEW b \in Clients,
             \/ \E x \in Cables : AskDestroy(b, x)
             \/ \E p \in Plugs : AskRemove(b, p)
      PROVE  Tidy' /\ Recalled'
  BY <1>5, <1>6 DEF AskDestroy, AskRemove
<1>7. ASSUME NEW b \in Clients, HearCreate(b)
      PROVE  Tidy' /\ Recalled'
  <2> DEFINE x == Head(down[b])[2]
  <2>1. /\ x \in Cables /\ down[b] # <<>> /\ Head(down[b]) = Msg("create", x)
        /\ Heard(b) /\ UNCHANGED <<known, parting, claimed>>
        /\ \/ Ends(x) \subseteq known[b] /\ CreateHeard(b, x)
           \/ UNCHANGED <<mine, events, plugged>>
    BY <1>7, ReplyType DEF HearCreate, Reply
  <2>2. Plug(b, x) \/ UNCHANGED plugged
    BY <2>1 DEF CreateHeard
  <2>3. /\ \A c \in Clients : c # b => Kept(c)' = Kept(c)
        /\ \A a \in Cables : a # x /\ a \in Kept(b)' => a \in Kept(b)
    BY <2>1, <2>2, KeptEffects
  <2>4. \A a \in Cables : /\ Msg("create", x) # Msg("destroy", a)
                          /\ a = x => Msg("create", x) \in Grants(a)
    BY DEF Msg, Grants
  <2>5. Tidy'
    BY <1>2, <2>1, KeepsTidy
  <2>6. \A a \in Cables : a \in Kept(b)' =>
          \/ a \in Kept(b) /\ Msg("create", x) # Msg("destroy", a)
          \/ Msg("create", x) \in Grants(a)
    BY <2>3, <2>4
  <2> QED
    BY <1>0, <1>2, <2>1, <2>3, <2>5, <2>6, HeardRecalled
<1>8. ASSUME NEW b \in Clients, HearDestroy(b)
      PROVE  Tidy' /\ Recalled'
  <2> DEFINE x == Head(down[b])[2]
  <2>1. /\ x \in Cables /\ down[b] # <<>> /\ Head(down[b]) = Msg("destroy", x)
        /\ Heard(b) /\ UNCHANGED <<known, parting, claimed>>
        /\ IF mine[b][x] = "none" THEN UNCHANGED <<mine, events, plugged>>
                                  ELSE Unplug(b, x)
    BY <1>8, ReplyType DEF HearDestroy, Reply
  <2>2. /\ \A c \in Clients : c # b => Kept(c)' = Kept(c)
        /\ \A a \in Cables : a \in Kept(b)' => a \in Kept(b)
    BY <2>1, KeptEffects
  <2>3. x \notin Kept(b)'
    <3>1. CASE mine[b][x] = "none"
      <4>1. \A p \in Plugs : x \notin plugged[b][p]
        BY <1>2, <2>1, <3>1 DEF Tidy, TidyAt
      <4> QED
        BY <1>3, <2>1, <3>1, <4>1 DEF Kept
    <3>2. CASE mine[b][x] # "none"
      BY <2>1, <3>2, KeptEffects
    <3> QED
      BY <3>1, <3>2
  <2>4. \A a \in Cables : a # x => Msg("destroy", x) # Msg("destroy", a)
    BY DEF Msg
  <2>5. Tidy'
    BY <1>2, <2>1, KeepsTidy
  <2>6. \A a \in Cables : a \in Kept(b)' =>
          a \in Kept(b) /\ Msg("destroy", x) # Msg("destroy", a)
    BY <2>2, <2>3, <2>4
  <2> QED
    BY <1>0, <1>2, <2>1, <2>2, <2>5, <2>6, HeardRecalled
<1>9. ASSUME NEW b \in Clients, HearReply(b)
      PROVE  Tidy' /\ Recalled'
  <2> DEFINE x == Head(down[b])[2]
             k == Head(down[b])[1]
  <2>1. /\ x \in Cables /\ down[b] # <<>> /\ k \in {"ok", "err"}
        /\ Head(down[b]) = Msg(k, x)
        /\ Heard(b) /\ UNCHANGED <<plugged, known, parting>>
    BY <1>9, ReplyType DEF HearReply, Reply
  <2>2. /\ k = "ok" => claimed' = [claimed EXCEPT ![b] = @ \ {x}]
        /\ k # "ok" => claimed' = claimed
        /\ Activate(b, x) \/ UNCHANGED <<mine, events>>
    BY <1>9 DEF HearReply, Reply
  <2>3. \A c \in Clients : c # b => claimed'[c] = claimed[c]
    BY <1>3, <2>2
  <2>4. /\ \A c \in Clients : c # b => Kept(c)' = Kept(c)
        /\ \A a \in Cables : a \in Kept(b)' =>
             a \in Kept(b) \/ (a \notin claimed'[b] /\ a \in claimed[b])
    BY <2>1, <2>3, KeptEffects
  <2>5. \A a \in Cables : a \notin claimed'[b] /\ a \in claimed[b] => a = x /\ k = "ok"
    BY <1>3, <2>2
  <2>6. \A a \in Cables : /\ Msg(k, x) # Msg("destroy", a)
                          /\ a = x /\ k = "ok" => Msg(k, x) \in Grants(a)
    BY <2>1 DEF Msg, Grants
  <2>7. \A a \in Cables : a \in Kept(b)' =>
          \/ a \in Kept(b) /\ Msg(k, x) # Msg("destroy", a)
          \/ Msg(k, x) \in Grants(a)
    BY <2>4, <2>5, <2>6
  <2>8. Tidy'
    BY <1>2, <2>1, <2>2, KeepsTidy
  <2> QED
    BY <1>0, <1>2, <2>1, <2>4, <2>7, <2>8, HeardRecalled
<1>10. ASSUME NEW b \in Clients, HearDestroyed(b)
       PROVE  Tidy' /\ Recalled'
  <2> DEFINE x == Head(down[b])[2]
  <2>1. /\ x \in Cables /\ down[b] # <<>> /\ Head(down[b]) = Msg("destroyed", x)
        /\ Heard(b) /\ UNCHANGED <<known, parting, claimed>>
        /\ \/ mine[b][x] # "none" /\ Unplug(b, x)
           \/ UNCHANGED <<mine, events, plugged>>
    BY <1>10, ReplyType DEF HearDestroyed, Reply
  <2>2. /\ \A c \in Clients : c # b => Kept(c)' = Kept(c)
        /\ \A a \in Cables : a \in Kept(b)' => a \in Kept(b)
    BY <2>1, KeptEffects
  <2>3. \A a \in Cables : Msg("destroyed", x) # Msg("destroy", a)
    BY DEF Msg
  <2>4. Tidy'
    BY <1>2, <2>1, KeepsTidy
  <2>5. \A a \in Cables : a \in Kept(b)' =>
          a \in Kept(b) /\ Msg("destroyed", x) # Msg("destroy", a)
    BY <2>2, <2>3
  <2> QED
    BY <1>0, <1>2, <2>1, <2>2, <2>4, <2>5, HeardRecalled
<1>11. ASSUME NEW b \in Clients, HearGone(b)
       PROVE  Tidy' /\ Recalled'
  <2> DEFINE x == Head(down[b])[2]
             found == {x} \cap known[b]
  <2>1. down[b] # <<>> /\ Head(down[b])[1] = "gone" /\ Head(down[b]) \in Downs
    BY <1>11, HeadTailProperties DEF HearGone, Reply, TypeInv
  <2>2. Head(down[b]) = Msg("gone", x)
    BY <2>1 DEF Downs, Msg
  <2>3. /\ Heard(b) /\ UNCHANGED <<mine, events, plugged, claimed>>
        /\ known' = [known EXCEPT ![b] = @ \ found]
        /\ parting' = [parting EXCEPT ![b] = @ \cup found]
    BY <1>11 DEF HearGone
  <2>4. \A a \in Cables : Msg("gone", x) # Msg("destroy", a)
    BY DEF Msg
  <2>5. \A c \in Clients : /\ known'[c] \subseteq known[c]
                            /\ known[c] \cup parting[c] = known'[c] \cup parting'[c]
    <3>1. known'[b] = known[b] \ found /\ parting'[b] = parting[b] \cup found
      BY <1>3, <2>3
    <3>2. \A c \in Clients : c # b => known'[c] = known[c] /\ parting'[c] = parting[c]
      BY <1>3, <2>3
    <3>3. found \subseteq known[b]
      OBVIOUS
    <3> HIDE DEF found
    <3> QED
      BY <3>1, <3>2, <3>3
  <2>6. Tidy'
    BY <1>2, <2>3, <2>5 DEF Tidy, TidyAt
  <2>7. \A c \in Clients : Kept(c)' \subseteq Kept(c)
    BY <2>3, <2>5 DEF Kept
  <2>8. \A a \in Cables : a \in Kept(b)' =>
          a \in Kept(b) /\ Msg("gone", x) # Msg("destroy", a)
    BY <2>4, <2>7
  <2> QED
    BY <1>0, <1>2, <2>1, <2>2, <2>3, <2>6, <2>7, <2>8, HeardRecalled
<1>12. ASSUME NEW b \in Clients, Poll(b)
       PROVE  Tidy' /\ Recalled'
  <2>1. /\ \A c \in Clients, p \in Plugs :
             plugged'[c][p] = IF c = b /\ p \in parting[b] THEN {} ELSE plugged[c][p]
        /\ UNCHANGED <<known, claimed, cable, down>>
        /\ \A c \in Clients : c # b => parting'[c] = parting[c]
    BY <1>0, <1>3, <1>12, PollEffects DEF Poll
  <2>2. \A c \in Clients : Kept(c)' \subseteq Kept(c)
    BY <1>3, <2>1 DEF Kept
  <2>3. Recalled'
    BY <1>2, <2>1, <2>2, QuietRecalled
  <2>4. Tidy'
    <3> SUFFICES ASSUME NEW c \in Clients, NEW p \in Plugs, NEW a \in Cables
                 PROVE  TidyAt(c, p, a)'
      BY DEF Tidy
    <3>1. /\ mine[c][a] = "none" => events[c][a] = {} /\ a \notin plugged[c][p]
          /\ "deact" \in events[c][a] /\ p \in known[c] => a \notin plugged[c][p]
          /\ a \in plugged[c][p] => p \in known[c] \cup parting[c]
      BY <1>2 DEF Tidy, TidyAt
    <3>2. CASE c # b
      <4>1. mine'[c] = mine[c] /\ events'[c] = events[c]
        BY <1>12, <3>2 DEF Poll, TypeInv, TypeOK
      <4> QED
        BY <2>1, <3>1, <3>2, <4>1 DEF TidyAt
    <3>3. CASE c = b
      <4>1. /\ events'[c][a] = {}
            /\ mine'[c][a] = IF "deact" \in events[c][a] THEN "none"
                             ELSE IF "act" \in events[c][a] THEN "on"
                             ELSE mine[c][a]
        BY <1>12, <3>3 DEF Poll, TypeInv, TypeOK
      <4>2. a \in plugged'[c][p] => a \in plugged[c][p] /\ p \in known[c]
        BY <2>1, <3>1, <3>3
      <4> QED
        BY <2>1, <3>1, <4>1, <4>2 DEF TidyAt
    <3> QED
      BY <3>2, <3>3
  <2> QED
    BY <2>3, <2>4
<1> QED
  BY <1>1, <1>4, <1>6, <1>7, <1>8, <1>9, <1>10, <1>11, <1>12
     DEF ClientNext, CallBackInv

(* A client never goes on listing a cable inside one performer that the    *)
(* stage destroyed: each grant of it in a client's queue is followed by    *)
(* its destruction, since the router and the event loop of the stage send  *)
(* both in the order in which they change the session; and a plug that no  *)
(* longer hears of it is about to clear its list.                          *)
THEOREM DestroyedIsCalledBack == Spec => []DestroyedIsUnplugged
<1> DEFINE Inv == TypeInv /\ CallBackInv
<1>1. Init => Inv
  <2>1. Init => Tidy /\ ShakesRemote
    BY DEF Init, Tidy, TidyAt, ShakesRemote
  <2>2. Init => Recalled
    BY DEF Init, Recalled, CalledBack, Kept
  <2> QED
    BY <2>1, <2>2, InitType DEF CallBackInv
<1>2. Inv /\ [Next]_vars => Inv'
  <2>1. CallBackInv /\ UNCHANGED vars => CallBackInv'
    <3> SUFFICES ASSUME CallBackInv, UNCHANGED vars PROVE CallBackInv'
      OBVIOUS
    <3>1. UNCHANGED <<cable, shakes, mine, events, plugged, known, parting,
                      claimed, down>>
      BY DEF vars, stage, client
    <3> QED
      BY <3>1 DEF CallBackInv, Tidy, TidyAt, Recalled, Kept, ShakesRemote, Local
  <2> QED
    BY <2>1, TypeStep, StageCallsBack, ClientCallsBack DEF Next
<1>3. Inv => DestroyedIsUnplugged
  <2> SUFFICES ASSUME TypeInv, CallBackInv, NEW c \in Clients, NEW p \in Plugs,
                      NEW a \in Cables, Local(a), cable[a] # "on",
                      a \in plugged[c][p] \ claimed[c], p \notin parting[c]
               PROVE  Holds(down[c], Msg("destroy", a))
    BY DEF DestroyedIsUnplugged, Holds
  <2>1. p \in known[c]
    BY DEF CallBackInv, Tidy, TidyAt
  <2>2. a \in Kept(c)
    BY <2>1 DEF Kept
  <2> QED
    BY <2>2 DEF CallBackInv, Recalled
<1> QED
  BY <1>1, <1>2, <1>3, PTL DEF Spec

=============================================================================
