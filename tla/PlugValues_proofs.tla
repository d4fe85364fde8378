-------------------------- MODULE PlugValues_proofs -------------------------
(***************************************************************************)
(* For any performers, receivers, items and any number of ownership        *)
(* requests and fires: the instances of a plug agree on who controls it    *)
(* once the broadcasts have arrived, values do not disturb that, no value  *)
(* is left uncomputed, and an input reads as what was fired.               *)
(***************************************************************************)
EXTENDS PlugValues, SequenceTheorems, TLAPS

-----------------------------------------------------------------------------
(* The control of a plug.                                                  *)

(* What is known of a performer p: a broadcast still on its way to p ends  *)
(* with the stage's owner; with none on its way, p has applied the last    *)
(* one and its flag follows, except at a creator that is not active yet.   *)
Follows(p) ==
  /\ orders[p] # <<>> => moved /\ orders[p][Len(orders[p])] = stageOwner
  /\ orders[p] = <<>> /\ moved => p \in ruled /\ owner[p] = stageOwner
  /\ orders[p] = <<>> /\ (p # Creator \/ born = "active") =>
       (canFire[p] <=> (p \in Controller \/ (p = Creator /\ late)))

ControlInv == ControlTypeOK /\ \A p \in present : Follows(p)

(* Where the last element of a sequence is after Append and Tail.          *)
LEMMA LastAppended ==
  ASSUME NEW S, NEW s \in Seq(S), NEW e \in S
  PROVE  /\ Append(s, e) \in Seq(S)
         /\ Append(s, e) # <<>>
         /\ Append(s, e)[Len(Append(s, e))] = e
<1>1. /\ Append(s, e) \in Seq(S) /\ Append(s, e) # << >>
      /\ Len(Append(s, e)) = Len(s) + 1 /\ Append(s, e)[Len(s) + 1] = e
  BY AppendProperties
<1> QED BY <1>1

LEMMA LastOfTail ==
  ASSUME NEW S, NEW s \in Seq(S), s # <<>>
  PROVE  /\ Head(s) \in S /\ Tail(s) \in Seq(S)
         /\ Tail(s) = <<>> => Head(s) = s[Len(s)]
         /\ Tail(s) # <<>> => Tail(s)[Len(Tail(s))] = s[Len(s)]
<1>1. /\ Head(s) \in S /\ Tail(s) \in Seq(S) /\ Len(Tail(s)) = Len(s) - 1
      /\ \A i \in 1 .. Len(Tail(s)) : Tail(s)[i] = s[i + 1]
  BY HeadTailProperties
<1>2. Len(s) \in Nat /\ Len(s) > 0 /\ Head(s) = s[1]
  BY EmptySeq, LenProperties
<1>3. CASE Tail(s) = <<>>
  <2>1. Len(Tail(s)) = 0
    <3>1. Len(<<>>) = 0
      OBVIOUS
    <3> QED BY <1>3, <3>1, Zenon
  <2>2. Len(s) = 1
    <3>1. 0 = Len(s) - 1
      BY <1>1, <2>1
    <3> QED BY <1>2, <3>1
  <2> QED BY <1>1, <1>2, <1>3, <2>2
<1>4. CASE Tail(s) # <<>>
  <2>1. Len(Tail(s)) \in Nat /\ Len(Tail(s)) > 0
    BY <1>1, <1>4, EmptySeq, LenProperties
  <2> QED BY <1>1, <1>2, <1>4, <2>1
<1> QED BY <1>3, <1>4

LEMMA ControlInitial == ControlInit => ControlInv
<1> SUFFICES ASSUME ControlInit PROVE ControlInv
  OBVIOUS
<1>1. hears \subseteq Performers \X Performers
  BY ControlAssumption DEF ControlInit
<1>2. ASSUME NEW S PROVE [p \in Performers |-> <<>>] \in [Performers -> Seq(S)]
  BY EmptySeq
<1>3. requests \in [Performers -> Seq(Owners)] /\ orders \in [Performers -> Seq(Owners)]
  BY <1>2 DEF ControlInit
<1>4. /\ owner \in [Performers -> Owners] /\ canFire \in [Performers -> BOOLEAN]
      /\ asks \in 0 .. MaxAsks /\ stageOwner \in Owners
  BY ControlAssumption DEF ControlInit, Owners
<1>6. ControlTypeOK
  BY <1>1, <1>3, <1>4 DEF ControlInit, ControlTypeOK
<1>5. ASSUME NEW p \in present PROVE Follows(p)
  BY <1>5 DEF ControlInit, Follows, Controller
<1> QED BY <1>6, <1>5 DEF ControlInv

(* The two activation steps of the creator.                                *)
LEMMA RaiseKeeps ==
  ASSUME ControlInv, Accepted \/ Activated
  PROVE  ControlInv'
<1>1. /\ UNCHANGED <<present, requests, stageOwner, moved, orders, owner, ruled,
                     hears, links, asks>>
      /\ canFire' = [canFire EXCEPT ![Creator] = TRUE]
      /\ late' = (late \/ (Creator \in ruled /\ owner[Creator] # Creator))
      /\ born' \in {"queued", "active"} /\ born # "active"
  BY DEF Accepted, Activated, RaiseFlag
<1>2. ControlTypeOK'
  BY <1>1, ControlAssumption DEF ControlInv, ControlTypeOK
<1>3. ASSUME NEW p \in present PROVE Follows(p)'
  <2>1. p \in Performers /\ canFire \in [Performers -> BOOLEAN]
    BY DEF ControlInv, ControlTypeOK
  <2>2. Follows(p)
    BY DEF ControlInv
  <2>3. CASE p # Creator
    BY <1>1, <2>1, <2>2, <2>3 DEF Follows, Controller
  <2>4. CASE p = Creator
    <3>1. canFire'[p] = TRUE
      BY <1>1, <2>1, <2>4
    <3>2. orders[p] = <<>> => Creator \in Controller \/ late'
      BY <1>1, <2>1, <2>2, <2>4 DEF Follows, Controller
    <3> QED BY <1>1, <2>2, <2>4, <3>1, <3>2 DEF Follows, Controller
  <2> QED BY <2>3, <2>4
<1> QED BY <1>1, <1>2, <1>3 DEF ControlInv

(* The stage's decision is the last broadcast to every performer it knows. *)
LEMMA TakeKeeps ==
  ASSUME ControlInv, NEW p \in Performers, TakeOwnership(p)
  PROVE  ControlInv'
<1> DEFINE o == Head(requests[p])
<1>1. /\ requests \in [Performers -> Seq(Owners)]
      /\ orders \in [Performers -> Seq(Owners)]
      /\ requests[p] # <<>> /\ p \in present /\ present \subseteq Performers
      /\ links \subseteq Performers \X Performers
  BY DEF ControlInv, ControlTypeOK, TakeOwnership
<1>2. /\ stageOwner' = o /\ moved' = TRUE
      /\ links' = links \cup NewLinks(o)
      /\ orders' = [q \in Performers |->
                      IF q \in present THEN Append(orders[q], o) ELSE orders[q]]
      /\ requests' = [requests EXCEPT ![p] = Tail(@)]
      /\ UNCHANGED <<present, owner, canFire, ruled, born, late, hears, asks>>
  BY DEF TakeOwnership
<1>3. o \in Owners /\ Tail(requests[p]) \in Seq(Owners)
  BY <1>1
<1>4. NewLinks(o) \subseteq Performers \X Performers
  BY <1>1, <1>3 DEF NewLinks, Owners
<1>5. orders' \in [Performers -> Seq(Owners)]
  BY <1>1, <1>2, <1>3
<1>6. ControlTypeOK'
  BY <1>1, <1>2, <1>3, <1>4, <1>5 DEF ControlInv, ControlTypeOK
<1>7. ASSUME NEW q \in present PROVE Follows(q)'
  <2>1. q \in Performers /\ orders[q] \in Seq(Owners)
    BY <1>1
  <2>2. orders'[q] = Append(orders[q], o)
    BY <1>2, <2>1
  <2>3. /\ Append(orders[q], o) # <<>>
        /\ Append(orders[q], o)[Len(Append(orders[q], o))] = o
    BY <1>3, <2>1, LastAppended
  <2> QED BY <1>2, <2>2, <2>3 DEF Follows
<1> QED BY <1>2, <1>6, <1>7 DEF ControlInv

(* A broadcast is applied: the last one leaves the flag of p to the        *)
(* stage's owner, an earlier one leaves the last one on its way.           *)
LEMMA HearKeeps ==
  ASSUME ControlInv, NEW p \in Performers, HearOwner(p)
  PROVE  ControlInv'
<1> DEFINE o == Head(orders[p])
<1>1. /\ orders \in [Performers -> Seq(Owners)]
      /\ owner \in [Performers -> Owners]
      /\ canFire \in [Performers -> BOOLEAN]
      /\ orders[p] # <<>> /\ present \subseteq Performers
  BY DEF ControlInv, ControlTypeOK, HearOwner
<1>2. /\ owner' = [owner EXCEPT ![p] = o]
      /\ canFire' = [canFire EXCEPT ![p] = (o = p)]
      /\ orders' = [orders EXCEPT ![p] = Tail(@)]
      /\ ruled' = ruled \cup {p}
      /\ late' = (late /\ p # Creator)
      /\ UNCHANGED <<present, requests, stageOwner, moved, born, hears, links, asks>>
  BY DEF HearOwner, Controls
<1>3. o \in Owners /\ Tail(orders[p]) \in Seq(Owners)
  BY <1>1
<1>4. owner' \in [Performers -> Owners] /\ canFire' \in [Performers -> BOOLEAN]
  BY <1>1, <1>2, <1>3
<1>5. orders' \in [Performers -> Seq(Owners)]
  BY <1>1, <1>2, <1>3
<1>6. ControlTypeOK'
  BY <1>2, <1>4, <1>5 DEF ControlInv, ControlTypeOK
<1>7. ASSUME NEW q \in present PROVE Follows(q)'
  <2>1. Follows(q) /\ q \in Performers
    BY <1>1 DEF ControlInv
  <2>2. CASE q # p
    <3>1. orders'[q] = orders[q] /\ owner'[q] = owner[q] /\ canFire'[q] = canFire[q]
      BY <1>1, <1>2, <2>1, <2>2
    <3>2. q = Creator => late' = late
      BY <1>2, <2>2 DEF ControlInv, ControlTypeOK
    <3> QED BY <1>2, <2>1, <3>1, <3>2 DEF Follows, Controller
  <2>3. CASE q = p
    <3>1. moved /\ orders[p][Len(orders[p])] = stageOwner
      BY <1>1, <2>1, <2>3 DEF Follows
    <3>2. /\ orders'[q] = Tail(orders[p]) /\ owner'[q] = o
          /\ canFire'[q] = (o = p)
      BY <1>1, <1>2, <2>3
    <3>3. CASE Tail(orders[p]) = <<>>
      <4>1. o = stageOwner /\ Tail(orders[p]) = <<>>
        BY <1>1, <3>1, <3>3, LastOfTail
      <4>2. q \in Controller' <=> o = q
        BY <1>2, <2>1, <3>1, <4>1 DEF Controller
      <4>3. q = Creator => ~late'
        BY <1>2, <2>3
      <4>4. canFire'[q] <=> (q \in Controller' \/ (q = Creator /\ late'))
        BY <2>3, <3>2, <4>2, <4>3
      <4>5. orders'[q] = <<>> /\ q \in ruled' /\ owner'[q] = stageOwner'
        BY <1>2, <2>3, <3>2, <4>1
      <4> QED BY <4>4, <4>5 DEF Follows
    <3>4. CASE Tail(orders[p]) # <<>>
      <4>1. Tail(orders[p])[Len(Tail(orders[p]))] = orders[p][Len(orders[p])]
        BY <1>1, <3>4, LastOfTail
      <4> QED BY <1>2, <3>1, <3>2, <3>4, <4>1 DEF Follows
    <3> QED BY <3>3, <3>4
  <2> QED BY <2>2, <2>3
<1> QED BY <1>2, <1>6, <1>7 DEF ControlInv

(* Requests, links and evictions leave the instances alone.                *)
LEMMA RestKeeps ==
  ASSUME ControlInv,
         \/ UNCHANGED controlVars
         \/ \E p \in Performers : \/ AskOwnership(p, p)
                                  \/ AskOwnership(p, NoOwner)
                                  \/ DropRequest(p)
                                  \/ Evict(p)
         \/ \E l \in Performers \X Performers : Linked(l)
  PROVE  ControlInv'
<1>1. /\ UNCHANGED <<stageOwner, moved, orders, owner, canFire, ruled, born, late>>
      /\ present' \subseteq present
  BY DEF AskOwnership, DropRequest, Evict, Linked, controlVars
<1>2. requests' \in [Performers -> Seq(Owners)]
  <2>1. requests \in [Performers -> Seq(Owners)]
    BY DEF ControlInv, ControlTypeOK
  <2>2. ASSUME NEW p \in Performers, NEW o \in Owners, AskOwnership(p, o)
        PROVE  requests' \in [Performers -> Seq(Owners)]
    <3>1. Append(requests[p], o) \in Seq(Owners)
      BY <2>1, LastAppended
    <3> QED BY <2>1, <2>2, <3>1 DEF AskOwnership, SendOwnership
  <2>3. ASSUME NEW p \in Performers, DropRequest(p)
        PROVE  requests' \in [Performers -> Seq(Owners)]
    <3>1. Tail(requests[p]) \in Seq(Owners)
      BY <2>1, <2>3, LastOfTail DEF DropRequest
    <3> QED BY <2>1, <2>3, <3>1 DEF DropRequest
  <2> QED BY <2>1, <2>2, <2>3 DEF Evict, Linked, controlVars, Owners
<1>3. hears' \subseteq Performers \X Performers /\ links' \subseteq Performers \X Performers
  BY DEF ControlInv, ControlTypeOK, AskOwnership, DropRequest, Evict, Linked,
     controlVars
<1>4. asks' \in 0 .. MaxAsks
  BY ControlAssumption DEF ControlInv, ControlTypeOK, AskOwnership, DropRequest,
     Evict, Linked, controlVars
<1>5. ControlTypeOK'
  BY <1>1, <1>2, <1>3, <1>4 DEF ControlInv, ControlTypeOK
<1>6. ASSUME NEW q \in present' PROVE Follows(q)'
  BY <1>1 DEF ControlInv, Follows, Controller
<1> QED BY <1>5, <1>6 DEF ControlInv

LEMMA ControlStep == ControlInv /\ [ControlNext]_controlVars => ControlInv'
<1> SUFFICES ASSUME ControlInv, [ControlNext]_controlVars PROVE ControlInv'
  OBVIOUS
<1>1. CASE Accepted \/ Activated
  BY <1>1, RaiseKeeps
<1>2. CASE \E p \in Performers : TakeOwnership(p)
  BY <1>2, TakeKeeps
<1>3. CASE \E p \in Performers : HearOwner(p)
  BY <1>3, HearKeeps
<1>4. CASE ~(Accepted \/ Activated)
           /\ ~(\E p \in Performers : TakeOwnership(p) \/ HearOwner(p))
  BY <1>4, RestKeeps DEF ControlNext
<1> QED BY <1>1, <1>2, <1>3, <1>4

(* ControlAgrees follows from what is known of each performer.             *)
LEMMA ControlConcludes == ControlInv => ControlAgrees
  BY DEF ControlInv, Follows, ControlAgrees

(* Fire control converges in every behaviour of the ownership protocol:    *)
(* ZstOutputPlug::set_owner and on_activation, ZstClient's                 *)
(* init_arriving_plug and the stage's ownership handler.                   *)
THEOREM ControlConverges == ControlSpec => []ControlAgrees
<1>1. ControlSpec => []ControlInv
  BY ControlInitial, ControlStep, PTL DEF ControlSpec
<1> QED BY <1>1, ControlConcludes, PTL

-----------------------------------------------------------------------------
(* Conversions.                                                            *)

(* An item read as a type is an item, and reading it again changes nothing. *)
LEMMA AsAgain ==
  ASSUME NEW x \in AnyItem, NEW T \in Types
  PROVE  As(x, T) \in AnyItem /\ As(As(x, T), T) = As(x, T)
<1>1. CASE x.h = NotNumber
  BY <1>1 DEF As, AnyItem
<1>2. CASE x.h # NotNumber
  <2>1. x.h \in Int
    BY <1>2 DEF AnyItem
  <2>2. Truncated(x.h) \in Int /\ Truncated(Truncated(x.h)) = Truncated(x.h)
    BY <2>1 DEF Truncated
  <2>3. Truncated(x.h) # NotNumber
    BY <2>2, ValuesAssumption
  <2> QED BY <1>2, <2>1, <2>2, <2>3 DEF As, AnyItem
<1> QED BY <1>1, <1>2

LEMMA ReadingSeq ==
  ASSUME NEW s \in Seq(AnyItem), NEW T \in Types
  PROVE  /\ Reading(s, T) \in Seq(AnyItem)
         /\ Len(Reading(s, T)) = Len(s)
         /\ \A i \in 1 .. Len(s) : Reading(s, T)[i] = As(s[i], T)
<1>1. \A i \in 1 .. Len(s) : As(s[i], T) \in AnyItem
  BY AsAgain
<1> QED BY <1>1 DEF Reading

LEMMA ReadingAgain ==
  ASSUME NEW s \in Seq(AnyItem), NEW T \in Types
  PROVE  Reading(Reading(s, T), T) = Reading(s, T)
<1> DEFINE r == Reading(s, T)
<1>1. /\ r \in Seq(AnyItem) /\ Len(r) = Len(s)
      /\ \A i \in 1 .. Len(s) : r[i] = As(s[i], T)
  BY ReadingSeq
<1>2. \A i \in 1 .. Len(s) : s[i] \in AnyItem
  OBVIOUS
<1>3. \A i \in 1 .. Len(s) : As(r[i], T) = As(s[i], T)
  BY <1>1, <1>2, AsAgain
<1>4. Reading(r, T) = [i \in 1 .. Len(s) |-> As(r[i], T)]
  BY <1>1 DEF Reading
<1>5. r = [i \in 1 .. Len(s) |-> As(s[i], T)]
  BY DEF Reading
<1> HIDE DEF r
<1>6. Reading(r, T) = r
  BY <1>3, <1>4, <1>5
<1> QED BY <1>6 DEF r

(* The steps of deserialize_partial yield lists of items.                  *)
LEMMA ResizedSeq ==
  ASSUME NEW s \in Seq(AnyItem), NEW n \in Nat
  PROVE  Resized(s, n) \in Seq(AnyItem) /\ Len(Resized(s, n)) = n
<1>1. [t |-> "Int", h |-> 0] \in AnyItem
  BY DEF AnyItem, Types
<1>2. \A i \in 1 .. n :
        (IF i <= Len(s) THEN s[i] ELSE [t |-> "Int", h |-> 0]) \in AnyItem
  BY <1>1
<1> QED BY <1>2 DEF Resized

LEMMA WrittenSeq ==
  ASSUME NEW s \in Seq(AnyItem), NEW k \in Nat \ {0}, NEW x \in AnyItem
  PROVE  /\ Written(s, k, x) \in Seq(AnyItem)
         /\ Len(Written(s, k, x)) = Len(s)
         /\ \A i \in 1 .. Len(s) : i # k => Written(s, k, x)[i] = s[i]
         /\ k <= Len(s) => Written(s, k, x)[k] = x
<1>1. CASE k <= Len(s)
  <2>1. /\ [s EXCEPT ![k] = x] \in Seq(AnyItem)
        /\ Len([s EXCEPT ![k] = x]) = Len(s)
    BY <1>1, ExceptSeq
  <2> QED BY <1>1, <2>1 DEF Written
<1>2. CASE ~(k <= Len(s))
  BY <1>2 DEF Written
<1> QED BY <1>1, <1>2

LEMMA StepSeq ==
  ASSUME NEW s \in Seq(AnyItem), NEW g \in GraphStates, g.k <= Len(g.msg)
  PROVE  Step(s, g) \in Seq(AnyItem)
<1>1. g.k \in Nat /\ g.msg \in Seq(AnyItem)
  BY DEF GraphStates
<1>2. CASE g.k = 0
  <2>1. Len(g.msg) \in Nat
    BY <1>1
  <2>2. Step(s, g) = Resized(s, Len(g.msg))
    BY <1>2 DEF Step
  <2> QED BY <2>1, <2>2, ResizedSeq
<1>3. CASE g.k # 0
  <2>1. g.msg[g.k] \in AnyItem
    BY <1>1, <1>3
  <2> QED BY <1>1, <1>3, <2>1, WrittenSeq DEF Step
<1> QED BY <1>2, <1>3

-----------------------------------------------------------------------------
(* The composition: a step of the values is a stutter of the control.      *)

LEMMA ValueStepIsStutter == ValueNext => UNCHANGED controlVars
  BY DEF ValueNext, AppendItem, Fire, FireThrows, Compute, Receive, WriteProxy,
     ProxyDone, WriteInput, InputDone

(* Every behaviour of the composition is one of the ownership protocol.    *)
THEOREM ValuesKeepControl == Spec => ControlSpec
<1>1. Init => ControlInit
  BY DEF Init
<1>2. [Next]_vars => [ControlNext]_controlVars
  BY ValueStepIsStutter DEF Next, vars
<1> QED BY <1>1, <1>2, PTL DEF Spec, ControlSpec

(* Fire control converges while values flow.                               *)
THEOREM FireControlConverges == Spec => []ControlAgrees
  BY ValuesKeepControl, ControlConverges, PTL

-----------------------------------------------------------------------------
(* Types.                                                                  *)

LEMMA ValuesInitType == Init => TypeOK
<1> SUFFICES ASSUME Init PROVE TypeOK
  OBVIOUS
<1>1. ControlTypeOK
  BY ControlInitial DEF Init, ControlInv
<1>2. \A S : [p \in Performers |-> <<>>] \in [Performers -> Seq(S)]
  BY EmptySeq
<1>3. /\ value \in [Performers -> Seq(AnyItem)] /\ input \in [Performers -> Seq(AnyItem)]
      /\ read \in [Performers -> Seq(AnyItem)] /\ source \in [Performers -> Seq(AnyItem)]
  BY <1>2 DEF Init
<1>4. wire \in [Performers -> [Performers -> Seq(Messages)]]
  BY <1>2 DEF Init
<1>5. Idle \in GraphStates
  BY EmptySeq DEF Idle, GraphStates
<1>6. graph \in [Performers -> GraphStates]
  BY <1>5 DEF Init
<1>7. /\ plugType \in Types /\ computes \in [Performers -> Nat] /\ mixed \subseteq Performers
      /\ fires \in 0 .. MaxFires /\ appends \in 0 .. MaxAppends
  BY ValuesAssumption DEF Init
<1> QED BY <1>1, <1>3, <1>4, <1>6, <1>7 DEF TypeOK

(* What the application's thread does to the types.                        *)
LEMMA AppType ==
  ASSUME TypeOK, UNCHANGED controlVars, NEW p \in Performers,
         \/ \E x \in Items : AppendItem(p, x)
         \/ Fire(p)
         \/ FireThrows(p)
         \/ Compute(p)
  PROVE  TypeOK'
<1>1. /\ value \in [Performers -> Seq(AnyItem)] /\ input \in [Performers -> Seq(AnyItem)]
      /\ read \in [Performers -> Seq(AnyItem)] /\ source \in [Performers -> Seq(AnyItem)]
      /\ wire \in [Performers -> [Performers -> Seq(Messages)]]
      /\ computes \in [Performers -> Nat] /\ mixed \subseteq Performers
      /\ plugType \in Types /\ graph \in [Performers -> GraphStates]
      /\ fires \in 0 .. MaxFires /\ appends \in 0 .. MaxAppends
  BY DEF TypeOK
<1>2. ControlTypeOK'
  BY DEF TypeOK, ControlTypeOK, controlVars
<1>3. CASE \E x \in Items : AppendItem(p, x)
  <2>1. PICK x \in Items : AppendItem(p, x)
    BY <1>3
  <2>2. Append(value[p], x) \in Seq(AnyItem)
    BY <1>1, ValuesAssumption, LastAppended
  <2>3. value' \in [Performers -> Seq(AnyItem)]
    BY <1>1, <2>1, <2>2 DEF AppendItem, Appended
  <2>4. appends' \in 0 .. MaxAppends
    BY <1>1, <2>1, ValuesAssumption DEF AppendItem
  <2> QED BY <1>1, <1>2, <2>1, <2>3, <2>4 DEF AppendItem, TypeOK
<1>4. ASSUME CopyLocal(p)
      PROVE  /\ input' \in [Performers -> Seq(AnyItem)]
             /\ source' \in [Performers -> Seq(AnyItem)]
             /\ computes' \in [Performers -> Nat] /\ mixed' \subseteq Performers
  <2>1. CASE p = Creator /\ Creator \in Receivers
    <3>1. /\ input' = [input EXCEPT ![p] = value[p]]
          /\ source' = [source EXCEPT ![p] = value[p]]
          /\ computes' = [computes EXCEPT ![p] = @ + 1]
          /\ mixed' \subseteq mixed \cup {p}
      BY <1>4, <2>1 DEF CopyLocal
    <3> QED BY <1>1, <3>1
  <2>2. CASE ~(p = Creator /\ Creator \in Receivers)
    BY <1>1, <1>4, <2>2 DEF CopyLocal
  <2> QED BY <2>1, <2>2
<1>5. CASE Fire(p)
  <2>1. [items |-> Serialized(value[p]), sent |-> value[p]] \in Messages
    BY <1>1, ReadingSeq DEF Serialized, Messages
  <2>2. ASSUME NEW q \in Performers
        PROVE  Append(wire[p][q], [items |-> Serialized(value[p]), sent |-> value[p]])
                 \in Seq(Messages)
    BY <1>1, <2>1, LastAppended
  <2>3. Published(p) \in [Performers -> [Performers -> Seq(Messages)]]
    BY <1>1, <2>2 DEF Published
  <2>4. value' \in [Performers -> Seq(AnyItem)]
    BY <1>1, <1>5, EmptySeq DEF Fire
  <2>5. fires' \in 0 .. MaxFires
    BY <1>1, <1>5, ValuesAssumption DEF Fire
  <2>6. CopyLocal(p) /\ wire' = Published(p)
        /\ UNCHANGED <<plugType, graph, read, appends>>
    BY <1>5 DEF Fire
  <2> QED BY <1>1, <1>2, <1>4, <2>3, <2>4, <2>5, <2>6 DEF TypeOK
<1>6. CASE FireThrows(p)
  <2>1. fires' \in 0 .. MaxFires
    BY <1>1, <1>6, ValuesAssumption DEF FireThrows
  <2>2. CopyLocal(p) /\ UNCHANGED <<plugType, value, wire, graph, read, appends>>
    BY <1>6 DEF FireThrows
  <2> QED BY <1>1, <1>2, <1>4, <2>1, <2>2 DEF TypeOK
<1>7. CASE Compute(p)
  <2>1. computes' \in [Performers -> Nat] /\ read' \in [Performers -> Seq(AnyItem)]
    BY <1>1, <1>7 DEF Compute
  <2> QED BY <1>1, <1>2, <1>7, <2>1 DEF Compute, TypeOK
<1> QED BY <1>3, <1>5, <1>6, <1>7

(* What a graph thread does to the types.                                  *)
LEMMA GraphType ==
  ASSUME TypeOK, UNCHANGED controlVars, NEW p \in Performers,
         \/ \E q \in Performers : Receive(p, q)
         \/ WriteProxy(p)
         \/ ProxyDone(p)
         \/ WriteInput(p)
         \/ InputDone(p)
  PROVE  TypeOK'
<1>1. /\ value \in [Performers -> Seq(AnyItem)] /\ input \in [Performers -> Seq(AnyItem)]
      /\ read \in [Performers -> Seq(AnyItem)] /\ source \in [Performers -> Seq(AnyItem)]
      /\ wire \in [Performers -> [Performers -> Seq(Messages)]]
      /\ computes \in [Performers -> Nat] /\ mixed \subseteq Performers
      /\ plugType \in Types /\ graph \in [Performers -> GraphStates]
      /\ fires \in 0 .. MaxFires /\ appends \in 0 .. MaxAppends
  BY DEF TypeOK
<1>2. ControlTypeOK'
  BY DEF TypeOK, ControlTypeOK, controlVars
<1>3. Idle \in GraphStates
  BY EmptySeq DEF Idle, GraphStates
<1>4. graph[p] \in GraphStates
  BY <1>1
<1>5. [graph[p] EXCEPT !.k = @ + 1] \in GraphStates
  BY <1>4 DEF GraphStates
<1>6. CASE \E q \in Performers : Receive(p, q)
  <2>1. PICK q \in Performers : Receive(p, q)
    BY <1>6
  <2>2. wire[q][p] \in Seq(Messages) /\ wire[q][p] # <<>>
    BY <1>1, <2>1 DEF Receive
  <2>3. Head(wire[q][p]) \in Messages /\ Tail(wire[q][p]) \in Seq(Messages)
    BY <2>2, LastOfTail
  <2>4. wire' \in [Performers -> [Performers -> Seq(Messages)]]
    BY <1>1, <2>1, <2>3 DEF Receive
  <2>5. graph' \in [Performers -> GraphStates]
    BY <1>1, <2>1, <2>3 DEF Receive, GraphStates, Messages
  <2> QED BY <1>1, <1>2, <2>1, <2>4, <2>5 DEF Receive, TypeOK
<1>7. CASE WriteProxy(p)
  <2>1. Step(value[p], graph[p]) \in Seq(AnyItem)
    BY <1>1, <1>4, <1>7, StepSeq DEF WriteProxy
  <2>2. value' \in [Performers -> Seq(AnyItem)] /\ graph' \in [Performers -> GraphStates]
    BY <1>1, <1>5, <1>7, <2>1 DEF WriteProxy
  <2> QED BY <1>1, <1>2, <1>7, <2>2 DEF WriteProxy, TypeOK
<1>8. CASE ProxyDone(p)
  <2>1. [graph[p] EXCEPT !.at = "input", !.k = 0] \in GraphStates
    BY <1>4 DEF GraphStates
  <2>2. graph' \in [Performers -> GraphStates]
    BY <1>1, <1>3, <1>8, <2>1 DEF ProxyDone
  <2> QED BY <1>1, <1>2, <1>8, <2>2 DEF ProxyDone, TypeOK
<1>9. CASE WriteInput(p)
  <2>1. Step(input[p], graph[p]) \in Seq(AnyItem)
    BY <1>1, <1>4, <1>9, StepSeq DEF WriteInput
  <2>2. input' \in [Performers -> Seq(AnyItem)] /\ graph' \in [Performers -> GraphStates]
    BY <1>1, <1>5, <1>9, <2>1 DEF WriteInput
  <2>3. mixed' \subseteq Performers
    BY <1>1, <1>9 DEF WriteInput
  <2> QED BY <1>1, <1>2, <1>9, <2>2, <2>3 DEF WriteInput, TypeOK
<1>10. CASE InputDone(p)
  <2>1. graph[p].sent \in Seq(AnyItem)
    BY <1>4 DEF GraphStates
  <2>2. /\ graph' \in [Performers -> GraphStates]
        /\ computes' \in [Performers -> Nat]
        /\ source' \in [Performers -> Seq(AnyItem)]
    <3>1. CASE p \in Receivers
      <4>1. /\ graph' = [graph EXCEPT ![p] = Idle]
            /\ computes' = [computes EXCEPT ![p] = @ + 1]
            /\ source' = [source EXCEPT ![p] = graph[p].sent]
        BY <1>10, <3>1 DEF InputDone
      <4>2. graph' \in [Performers -> GraphStates]
        BY <1>1, <1>3, <4>1
      <4>3. source' \in [Performers -> Seq(AnyItem)]
        BY <1>1, <2>1, <4>1
      <4>4. computes' \in [Performers -> Nat]
        <5>1. computes \in [Performers -> Nat]
          BY <1>1
        <5>2. computes' = [computes EXCEPT ![p] = @ + 1]
          BY <4>1
        <5> QED BY <5>1, <5>2
      <4> QED BY <4>2, <4>3, <4>4
    <3>2. CASE p \notin Receivers
      <4>1. /\ graph' = [graph EXCEPT ![p] = Idle]
            /\ UNCHANGED <<computes, source>>
        BY <1>10, <3>2 DEF InputDone
      <4> QED BY <1>1, <1>3, <4>1
    <3> QED BY <3>1, <3>2
  <2> QED BY <1>1, <1>2, <1>10, <2>2 DEF InputDone, TypeOK
<1> QED BY <1>6, <1>7, <1>8, <1>9, <1>10

(* The types and the control invariant carry over a step.                  *)
LEMMA ValuesStepType ==
  ASSUME ControlInv, TypeOK, [Next]_vars
  PROVE  ControlInv' /\ TypeOK'
<1>1. [ControlNext]_controlVars
  BY ValueStepIsStutter DEF Next, vars
<1>2. ControlInv'
  BY <1>1, ControlStep
<1>3. CASE UNCHANGED valueVars
  BY <1>2, <1>3 DEF TypeOK, valueVars, ControlInv
<1>4. CASE ValueNext
  <2>1. UNCHANGED controlVars
    BY <1>4, ValueStepIsStutter
  <2>2. PICK p \in Performers :
          \/ \E x \in Items : AppendItem(p, x)
          \/ Fire(p)
          \/ FireThrows(p)
          \/ Compute(p)
          \/ \E q \in Performers : Receive(p, q)
          \/ WriteProxy(p)
          \/ ProxyDone(p)
          \/ WriteInput(p)
          \/ InputDone(p)
    BY <1>4 DEF ValueNext
  <2>3. CASE \/ \E x \in Items : AppendItem(p, x)
             \/ Fire(p)
             \/ FireThrows(p)
             \/ Compute(p)
    BY <2>1, <2>3, AppType, <1>2
  <2>4. CASE \/ \E q \in Performers : Receive(p, q)
             \/ WriteProxy(p)
             \/ ProxyDone(p)
             \/ WriteInput(p)
             \/ InputDone(p)
    BY <2>1, <2>4, GraphType, <1>2
  <2> QED BY <2>2, <2>3, <2>4
<1> QED BY <1>2, <1>3, <1>4 DEF Next, vars

-----------------------------------------------------------------------------
(* Values.                                                                 *)

(* Every input that differs from the last reading has a compute to come;   *)
(* a performer without a cable's end is given nothing.                     *)
Fresh(p) ==
  /\ graph[p].at = "input" \/ computes[p] > 0 \/ read[p] = input[p]
  /\ p \notin Receivers => read[p] = <<>> /\ input[p] = <<>> /\ source[p] = <<>>

(* Messages are the fired items in the plug's type, on the wire ...        *)
WireFaithful ==
  \A p, q \in Performers : \A i \in 1 .. Len(wire[p][q]) :
    wire[p][q][i].items = Reading(wire[p][q][i].sent, plugType)

(* ... and in the hands of the graph thread, which has written the         *)
(* elements before k into an input of the message's length.                *)
Writing(p) ==
  /\ graph[p].at # "idle" => graph[p].msg = Reading(graph[p].sent, plugType)
  /\ graph[p].at = "input" /\ graph[p].k > 0 /\ p \notin mixed =>
       /\ Len(input[p]) = Len(graph[p].msg)
       /\ \A i \in 1 .. Len(graph[p].msg) :
            i < graph[p].k => input[p][i] = graph[p].msg[i]

(* ReadAsFired at one performer.                                           *)
ReadsAs(p) ==
  graph[p].at # "input" /\ p \notin mixed =>
    Reading(input[p], plugType) = Reading(source[p], plugType)

ValueInv ==
  /\ ControlInv
  /\ TypeOK
  /\ WireFaithful
  /\ \A p \in Performers : Fresh(p) /\ Writing(p) /\ ReadsAs(p)

LEMMA ValuesInitial == Init => ValueInv
<1> SUFFICES ASSUME Init PROVE ValueInv
  OBVIOUS
<1>1. ControlInv /\ TypeOK
  BY ControlInitial, ValuesInitType DEF Init
<1>2. WireFaithful
  BY DEF Init, WireFaithful
<1>3. ASSUME NEW p \in Performers PROVE Fresh(p) /\ Writing(p) /\ ReadsAs(p)
  BY DEF Init, Idle, Fresh, Writing, ReadsAs
<1> QED BY <1>1, <1>2, <1>3 DEF ValueInv

(* The part of the invariant that speaks of one performer does not change  *)
(* when nothing of that performer's input changes.                         *)
LEMMA OthersKeep ==
  ASSUME ValueInv, NEW p \in Performers, plugType' = plugType,
         graph'[p] = graph[p], input'[p] = input[p], source'[p] = source[p],
         read'[p] = read[p], computes'[p] = computes[p],
         (p \in mixed') = (p \in mixed)
  PROVE  Fresh(p)' /\ Writing(p)' /\ ReadsAs(p)'
  BY DEF ValueInv, Fresh, Writing, ReadsAs, Reading

(* The local copies of a fire.                                             *)
LEMMA CopyKeeps ==
  ASSUME ValueInv, NEW p \in Performers, CopyLocal(p),
         UNCHANGED <<plugType, graph, read>>
  PROVE  \A q \in Performers : Fresh(q)' /\ Writing(q)' /\ ReadsAs(q)'
<1> SUFFICES ASSUME NEW q \in Performers
             PROVE  Fresh(q)' /\ Writing(q)' /\ ReadsAs(q)'
  OBVIOUS
<1>1. /\ input \in [Performers -> Seq(AnyItem)] /\ source \in [Performers -> Seq(AnyItem)]
      /\ computes \in [Performers -> Nat]
  BY DEF ValueInv, TypeOK
<1>2. CASE ~(p = Creator /\ Creator \in Receivers) \/ q # p
  <2>1. /\ input'[q] = input[q] /\ source'[q] = source[q]
        /\ computes'[q] = computes[q] /\ (q \in mixed') = (q \in mixed)
    <3>1. CASE p = Creator /\ Creator \in Receivers
      <4>1. /\ input' = [input EXCEPT ![p] = value[p]]
            /\ source' = [source EXCEPT ![p] = value[p]]
            /\ computes' = [computes EXCEPT ![p] = @ + 1]
            /\ mixed' = mixed \cup {p} \/ mixed' = mixed \ {p}
        BY <3>1 DEF CopyLocal
      <4> QED BY <1>1, <1>2, <3>1, <4>1
    <3>2. CASE ~(p = Creator /\ Creator \in Receivers)
      BY <3>2 DEF CopyLocal
    <3> QED BY <3>1, <3>2
  <2> QED BY <2>1, OthersKeep
<1>3. CASE p = Creator /\ Creator \in Receivers /\ q = p
  <2>1. /\ input'[q] = value[p] /\ source'[q] = value[p]
        /\ computes'[q] = computes[q] + 1 /\ computes[q] \in Nat
        /\ graph[q].at = "input" <=> q \in mixed'
    BY <1>1, <1>3 DEF CopyLocal
  <2>2. Fresh(q)'
    BY <1>3, <2>1 DEF Fresh
  <2>3. Writing(q)'
    BY <1>3, <2>1 DEF ValueInv, Writing, Reading
  <2>4. ReadsAs(q)'
    BY <2>1 DEF ReadsAs, Reading
  <2> QED BY <2>2, <2>3, <2>4
<1> QED BY <1>2, <1>3

(* What the application's thread does.                                     *)
LEMMA AppKeeps ==
  ASSUME ValueInv, NEW p \in Performers,
         \/ \E x \in Items : AppendItem(p, x)
         \/ Fire(p)
         \/ FireThrows(p)
         \/ Compute(p)
  PROVE  WireFaithful' /\ \A q \in Performers : Fresh(q)' /\ Writing(q)' /\ ReadsAs(q)'
<1>1. CASE \E x \in Items : AppendItem(p, x)
  <2>1. UNCHANGED <<plugType, wire, input, graph, computes, read, source, mixed>>
    BY <1>1 DEF AppendItem
  <2>2. WireFaithful'
    BY <2>1 DEF ValueInv, WireFaithful
  <2> QED BY <2>1, <2>2, OthersKeep
<1>2. CASE FireThrows(p)
  <2>1. CopyLocal(p) /\ UNCHANGED <<plugType, wire, graph, read>>
    BY <1>2 DEF FireThrows
  <2>2. WireFaithful'
    BY <2>1 DEF ValueInv, WireFaithful
  <2> QED BY <2>1, <2>2, CopyKeeps
<1>3. CASE Fire(p)
  <2> DEFINE m == [items |-> Serialized(value[p]), sent |-> value[p]]
  <2>1. /\ wire \in [Performers -> [Performers -> Seq(Messages)]]
        /\ value \in [Performers -> Seq(AnyItem)] /\ plugType \in Types
    BY DEF ValueInv, TypeOK
  <2>2. m \in Messages /\ m.items = Reading(m.sent, plugType)
    BY <2>1, ReadingSeq DEF Serialized, Messages
  <2>3. wire' = Published(p) /\ plugType' = plugType
    BY <1>3 DEF Fire
  <2>4. ASSUME NEW a \in Performers, NEW b \in Performers, NEW i \in 1 .. Len(wire'[a][b])
        PROVE  wire'[a][b][i].items = Reading(wire'[a][b][i].sent, plugType)
    <3>1. CASE wire'[a][b] = wire[a][b]
      BY <3>1 DEF ValueInv, WireFaithful
    <3>2. CASE wire'[a][b] # wire[a][b]
      <4>1. wire'[a][b] = Append(wire[a][b], m)
        BY <2>1, <2>3, <3>2 DEF Published
      <4>2. /\ wire[a][b] \in Seq(Messages)
            /\ \A j \in 1 .. Len(wire[a][b]) :
                 wire[a][b][j].items = Reading(wire[a][b][j].sent, plugType)
        BY <2>1 DEF ValueInv, WireFaithful
      <4>3. /\ Len(wire'[a][b]) = Len(wire[a][b]) + 1
            /\ wire'[a][b][Len(wire[a][b]) + 1] = m
            /\ \A j \in 1 .. Len(wire[a][b]) : wire'[a][b][j] = wire[a][b][j]
        BY <2>2, <4>1, <4>2, AppendProperties
      <4>4. Len(wire[a][b]) \in Nat
        BY <4>2
      <4>5. CASE i = Len(wire[a][b]) + 1
        BY <2>2, <4>3, <4>5, Zenon
      <4>6. CASE i # Len(wire[a][b]) + 1
        <5>1. i \in 1 .. Len(wire[a][b])
          BY <4>3, <4>4, <4>6
        <5> QED BY <4>2, <4>3, <5>1, Zenon
      <4> QED BY <4>5, <4>6
    <3> QED BY <3>1, <3>2
  <2>5. WireFaithful'
    BY <2>3, <2>4 DEF WireFaithful
  <2> QED BY <1>3, <2>5, CopyKeeps DEF Fire
<1>4. CASE Compute(p)
  <2>1. /\ read \in [Performers -> Seq(AnyItem)] /\ computes \in [Performers -> Nat]
    BY DEF ValueInv, TypeOK
  <2>2. ASSUME NEW q \in Performers PROVE Fresh(q)' /\ Writing(q)' /\ ReadsAs(q)'
    <3>1. CASE q # p
      BY <1>4, <2>1, <3>1, OthersKeep DEF Compute
    <3>2. CASE q = p
      BY <1>4, <2>1, <3>2 DEF Compute, ValueInv, Fresh, Writing, ReadsAs, Reading
    <3> QED BY <3>1, <3>2
  <2> QED BY <1>4, <2>2 DEF Compute, ValueInv, WireFaithful
<1> QED BY <1>1, <1>2, <1>3, <1>4

(* A message is taken from the wire.                                       *)
LEMMA ReceiveKeeps ==
  ASSUME ValueInv, NEW p \in Performers, NEW q \in Performers, Receive(p, q)
  PROVE  WireFaithful' /\ \A r \in Performers : Fresh(r)' /\ Writing(r)' /\ ReadsAs(r)'
<1> DEFINE m == Head(wire[q][p])
<1>1. /\ wire \in [Performers -> [Performers -> Seq(Messages)]]
      /\ graph \in [Performers -> GraphStates]
  BY DEF ValueInv, TypeOK
<1>2. /\ wire[q][p] # <<>> /\ wire[q][p] \in Seq(Messages)
      /\ graph[p].at = "idle"
      /\ wire' = [wire EXCEPT ![q][p] = Tail(@)]
      /\ graph' = [graph EXCEPT ![p] =
           [at |-> IF p = Creator THEN "input" ELSE "proxy",
            msg |-> m.items, sent |-> m.sent, k |-> 0]]
      /\ UNCHANGED <<plugType, input, computes, read, source, mixed>>
  BY <1>1 DEF Receive
<1>3. \A i \in 1 .. Len(wire[q][p]) :
        wire[q][p][i].items = Reading(wire[q][p][i].sent, plugType)
  BY DEF ValueInv, WireFaithful
<1>4. /\ Len(wire[q][p]) \in Nat \ {0} /\ m = wire[q][p][1]
      /\ Len(Tail(wire[q][p])) = Len(wire[q][p]) - 1
      /\ \A i \in 1 .. Len(Tail(wire[q][p])) : Tail(wire[q][p])[i] = wire[q][p][i + 1]
  BY <1>2, EmptySeq, HeadTailProperties
<1>5. m.items = Reading(m.sent, plugType)
  BY <1>3, <1>4
<1>6. ASSUME NEW a \in Performers, NEW b \in Performers, NEW i \in 1 .. Len(wire'[a][b])
      PROVE  wire'[a][b][i].items = Reading(wire'[a][b][i].sent, plugType)
  <2>1. CASE a = q /\ b = p
    <3>1. wire'[a][b] = Tail(wire[q][p])
      BY <1>1, <1>2, <2>1
    <3>2. i \in 1 .. Len(Tail(wire[q][p]))
      BY <3>1
    <3>3. i + 1 \in 1 .. Len(wire[q][p]) /\ wire'[a][b][i] = wire[q][p][i + 1]
      BY <1>4, <3>1, <3>2
    <3> QED BY <1>3, <3>3, Zenon
  <2>2. CASE ~(a = q /\ b = p)
    <3>1. wire'[a][b] = wire[a][b]
      BY <1>1, <1>2, <2>2
    <3> QED BY <3>1 DEF ValueInv, WireFaithful
  <2> QED BY <2>1, <2>2
<1>7. WireFaithful'
  BY <1>2, <1>6 DEF WireFaithful
<1>8. ASSUME NEW r \in Performers PROVE Fresh(r)' /\ Writing(r)' /\ ReadsAs(r)'
  <2>1. CASE r # p
    BY <1>1, <1>2, <2>1, OthersKeep
  <2>2. CASE r = p
    <3>1. /\ graph'[r].msg = m.items /\ graph'[r].sent = m.sent /\ graph'[r].k = 0
          /\ graph'[r].at \in {"input", "proxy"}
      BY <1>1, <1>2, <2>2
    <3>2. Fresh(r) /\ ReadsAs(r)
      BY DEF ValueInv
    <3>3. Fresh(r)'
      BY <1>2, <2>2, <3>2 DEF Fresh
    <3>4. Writing(r)'
      BY <1>2, <1>5, <3>1 DEF Writing
    <3>5. ReadsAs(r)'
      BY <1>2, <2>2, <3>2 DEF ReadsAs
    <3> QED BY <3>3, <3>4, <3>5
  <2> QED BY <2>1, <2>2
<1> QED BY <1>7, <1>8

(* The proxy is written, and done with: the input is not touched.          *)
LEMMA ProxyKeeps ==
  ASSUME ValueInv, NEW p \in Performers, WriteProxy(p) \/ ProxyDone(p)
  PROVE  WireFaithful' /\ \A r \in Performers : Fresh(r)' /\ Writing(r)' /\ ReadsAs(r)'
<1>1. graph \in [Performers -> GraphStates]
  BY DEF ValueInv, TypeOK
<1>2. /\ UNCHANGED <<plugType, wire, input, computes, read, source, mixed>>
      /\ graph[p].at = "proxy"
      /\ \/ graph' = [graph EXCEPT ![p].k = @ + 1]
         \/ graph' = [graph EXCEPT ![p] =
              IF p \in Receivers THEN [@ EXCEPT !.at = "input", !.k = 0] ELSE Idle]
  BY DEF WriteProxy, ProxyDone
<1>3. WireFaithful'
  BY <1>2 DEF ValueInv, WireFaithful
<1>4. ASSUME NEW r \in Performers PROVE Fresh(r)' /\ Writing(r)' /\ ReadsAs(r)'
  <2>1. CASE r # p
    <3>1. graph'[r] = graph[r]
      BY <1>1, <1>2, <2>1
    <3> QED BY <1>2, <3>1, OthersKeep
  <2>2. CASE r = p
    <3>1. Fresh(r) /\ Writing(r) /\ ReadsAs(r) /\ graph[r] \in GraphStates
      BY <1>1 DEF ValueInv
    <3>2. \/ graph'[r].at = "idle"
          \/ /\ graph'[r].msg = graph[r].msg /\ graph'[r].sent = graph[r].sent
             /\ graph'[r].at = "proxy" \/ (graph'[r].at = "input" /\ graph'[r].k = 0)
      <4>1. CASE graph' = [graph EXCEPT ![p].k = @ + 1]
        BY <1>1, <1>2, <2>2, <3>1, <4>1 DEF GraphStates
      <4>2. CASE graph' = [graph EXCEPT ![p] =
                   IF p \in Receivers THEN [@ EXCEPT !.at = "input", !.k = 0] ELSE Idle]
        <5>1. graph'[r] = IF p \in Receivers
                           THEN [graph[r] EXCEPT !.at = "input", !.k = 0] ELSE Idle
          BY <1>1, <2>2, <4>2
        <5>2. CASE p \in Receivers
          BY <3>1, <5>1, <5>2 DEF GraphStates
        <5>3. CASE p \notin Receivers
          BY <5>1, <5>3 DEF Idle
        <5> QED BY <5>2, <5>3
      <4> QED BY <1>2, <4>1, <4>2
    <3>3. Fresh(r)'
      BY <1>2, <2>2, <3>1 DEF Fresh
    <3>4. Writing(r)'
      BY <1>2, <2>2, <3>1, <3>2 DEF Writing
    <3>5. ReadsAs(r)'
      BY <1>2, <2>2, <3>1 DEF ReadsAs
    <3> QED BY <3>3, <3>4, <3>5
  <2> QED BY <2>1, <2>2
<1> QED BY <1>3, <1>4

(* One element more of the input is written.                               *)
LEMMA WriteKeeps ==
  ASSUME ValueInv, NEW p \in Performers, WriteInput(p)
  PROVE  WireFaithful' /\ \A r \in Performers : Fresh(r)' /\ Writing(r)' /\ ReadsAs(r)'
<1> DEFINE g == graph[p]
           n == Len(graph[p].msg)
<1>1. /\ graph \in [Performers -> GraphStates]
      /\ input \in [Performers -> Seq(AnyItem)] /\ mixed \subseteq Performers
  BY DEF ValueInv, TypeOK
<1>2. /\ UNCHANGED <<plugType, wire, computes, read, source>>
      /\ g.at = "input" /\ p \in Receivers /\ g.k <= n
      /\ input' = [input EXCEPT ![p] = Step(@, g)]
      /\ mixed' = (IF g.k = 0 THEN mixed \ {p} ELSE mixed)
      /\ graph' = [graph EXCEPT ![p].k = @ + 1]
  BY DEF WriteInput
<1>3. WireFaithful'
  BY <1>2 DEF ValueInv, WireFaithful
<1>4. ASSUME NEW r \in Performers PROVE Fresh(r)' /\ Writing(r)' /\ ReadsAs(r)'
  <2>1. CASE r # p
    <3>1. /\ graph'[r] = graph[r] /\ input'[r] = input[r]
          /\ (r \in mixed') = (r \in mixed)
      BY <1>1, <1>2, <2>1
    <3> QED BY <1>2, <3>1, OthersKeep
  <2>2. CASE r = p
    <3>1. /\ Fresh(r) /\ Writing(r) /\ g \in GraphStates
          /\ g.msg \in Seq(AnyItem) /\ n \in Nat /\ g.k \in Nat
      BY <1>1, <2>2 DEF ValueInv, GraphStates
    <3>2. /\ graph'[r].at = "input" /\ graph'[r].msg = g.msg
          /\ graph'[r].sent = g.sent /\ graph'[r].k = g.k + 1
      BY <1>1, <1>2, <2>2 DEF GraphStates
    <3>3. input'[r] = Step(input[p], g) /\ input[p] \in Seq(AnyItem)
      BY <1>1, <1>2, <2>2
    <3>4. CASE g.k = 0
      <4>1. input'[r] = Resized(input[p], n)
        BY <3>3, <3>4 DEF Step
      <4>2. Len(input'[r]) = n
        BY <3>1, <3>3, <4>1, ResizedSeq
      <4>3. Writing(r)'
        BY <1>2, <2>2, <3>1, <3>2, <3>4, <4>2 DEF Writing
      <4> QED BY <1>2, <2>2, <3>1, <3>2, <4>3 DEF Fresh, ReadsAs
    <3>5. CASE g.k # 0
      <4>1. input'[r] = Written(input[p], g.k, g.msg[g.k])
        BY <3>3, <3>5 DEF Step
      <4>2. g.k \in 1 .. n /\ g.msg[g.k] \in AnyItem
        BY <1>2, <3>1, <3>5
      <4>3. /\ Len(input'[r]) = Len(input[p])
            /\ \A i \in 1 .. Len(input[p]) : i # g.k => input'[r][i] = input[p][i]
            /\ g.k <= Len(input[p]) => input'[r][g.k] = g.msg[g.k]
        <5>1. input[p] \in Seq(AnyItem) /\ g.k \in Nat \ {0} /\ g.msg[g.k] \in AnyItem
          BY <3>1, <3>3, <3>5, <4>2
        <5>2. ASSUME NEW s, NEW k \in Nat \ {0}, NEW x \in AnyItem,
                     s \in Seq(AnyItem)
              PROVE  /\ Len(Written(s, k, x)) = Len(s)
                     /\ \A i \in 1 .. Len(s) : i # k => Written(s, k, x)[i] = s[i]
                     /\ k <= Len(s) => Written(s, k, x)[k] = x
          BY <5>2, WrittenSeq
        <5>3. /\ Len(Written(input[p], g.k, g.msg[g.k])) = Len(input[p])
              /\ \A i \in 1 .. Len(input[p]) : i # g.k =>
                   Written(input[p], g.k, g.msg[g.k])[i] = input[p][i]
              /\ g.k <= Len(input[p]) =>
                   Written(input[p], g.k, g.msg[g.k])[g.k] = g.msg[g.k]
          BY <5>1, <5>2, Zenon
        <5> QED BY <4>1, <5>3, Zenon
      <4>4. ASSUME r \notin mixed'
            PROVE  /\ Len(input'[r]) = n
                   /\ \A i \in 1 .. n : i < g.k + 1 => input'[r][i] = g.msg[i]
        <5>1. /\ Len(input[p]) = n
              /\ \A i \in 1 .. n : i < g.k => input[p][i] = g.msg[i]
          BY <1>2, <2>2, <3>1, <3>5, <4>4 DEF Writing
        <5>2. ASSUME NEW i \in 1 .. n, i < g.k + 1 PROVE input'[r][i] = g.msg[i]
          <6>1. CASE i = g.k
            BY <3>1, <4>2, <4>3, <5>1, <6>1
          <6>2. CASE i # g.k
            <7>1. i < g.k
              BY <3>1, <5>2, <6>2
            <7> QED BY <4>3, <5>1, <6>2, <7>1
          <6> QED BY <6>1, <6>2
        <5> QED BY <4>3, <5>1, <5>2
      <4>5. Writing(r)'
        BY <1>2, <2>2, <3>1, <3>2, <4>4 DEF Writing
      <4> QED BY <1>2, <2>2, <3>1, <3>2, <4>5 DEF Fresh, ReadsAs
    <3> QED BY <3>4, <3>5
  <2> QED BY <2>1, <2>2
<1> QED BY <1>3, <1>4

(* The input is written: it equals the message, which reads as what was    *)
(* fired, and a compute is queued.                                         *)
LEMMA DoneKeeps ==
  ASSUME ValueInv, NEW p \in Performers, InputDone(p)
  PROVE  WireFaithful' /\ \A r \in Performers : Fresh(r)' /\ Writing(r)' /\ ReadsAs(r)'
<1> DEFINE g == graph[p]
<1>1. /\ graph \in [Performers -> GraphStates] /\ computes \in [Performers -> Nat]
      /\ input \in [Performers -> Seq(AnyItem)] /\ plugType \in Types
      /\ source \in [Performers -> Seq(AnyItem)]
  BY DEF ValueInv, TypeOK
<1>2. /\ UNCHANGED <<plugType, wire, input, read, mixed>>
      /\ g.at = "input" /\ graph' = [graph EXCEPT ![p] = Idle]
  BY DEF InputDone
<1>3. WireFaithful'
  BY <1>2 DEF ValueInv, WireFaithful
<1>4. ASSUME NEW r \in Performers PROVE Fresh(r)' /\ Writing(r)' /\ ReadsAs(r)'
  <2>0. Fresh(r) /\ Writing(r) /\ ReadsAs(r)
    BY DEF ValueInv
  <2>1. CASE r # p
    <3>1. /\ graph'[r] = graph[r] /\ computes'[r] = computes[r]
          /\ source'[r] = source[r]
      BY <1>1, <1>2, <2>1 DEF InputDone
    <3> QED BY <1>2, <3>1, OthersKeep
  <2>2. CASE r = p /\ p \notin Receivers
    <3>1. UNCHANGED <<computes, source>> /\ graph'[r].at = "idle"
      BY <1>1, <1>2, <2>2 DEF InputDone, Idle
    <3> QED BY <1>2, <2>0, <2>2, <3>1 DEF Fresh, Writing, ReadsAs
  <2>3. CASE r = p /\ p \in Receivers
    <3>1. /\ computes'[r] = computes[r] + 1 /\ computes[r] \in Nat
          /\ source'[r] = g.sent /\ graph'[r].at = "idle"
          /\ g.k > Len(g.msg)
      BY <1>1, <1>2, <2>3 DEF InputDone, Idle
    <3>2. Fresh(r)' /\ Writing(r)'
      BY <2>3, <3>1 DEF Fresh, Writing
    <3>3. ASSUME r \notin mixed
          PROVE  Reading(input[r], plugType) = Reading(g.sent, plugType)
      <4>1. /\ g.msg \in Seq(AnyItem) /\ g.sent \in Seq(AnyItem) /\ g.k \in Nat
            /\ Len(g.msg) \in Nat /\ input[r] \in Seq(AnyItem)
        BY <1>1 DEF GraphStates
      <4>2. /\ Len(input[r]) = Len(g.msg)
            /\ \A i \in 1 .. Len(g.msg) : i < g.k => input[r][i] = g.msg[i]
        BY <1>2, <2>0, <2>3, <3>1, <3>3, <4>1 DEF Writing
      <4>3. \A i \in 1 .. Len(g.msg) : input[r][i] = g.msg[i]
        BY <3>1, <4>1, <4>2
      <4>4. input[r] = g.msg
        BY <4>1, <4>2, <4>3, SeqEqual
      <4>5. g.msg = Reading(g.sent, plugType)
        BY <1>2, <2>0, <2>3 DEF Writing
      <4> QED BY <1>1, <4>1, <4>4, <4>5, ReadingAgain
    <3>4. ReadsAs(r)'
      BY <1>2, <3>1, <3>3 DEF ReadsAs
    <3> QED BY <3>2, <3>4
  <2> QED BY <2>1, <2>2, <2>3
<1> QED BY <1>3, <1>4

LEMMA ValuesStep == ValueInv /\ [Next]_vars => ValueInv'
<1> SUFFICES ASSUME ValueInv, [Next]_vars PROVE ValueInv'
  OBVIOUS
<1>1. ControlInv' /\ TypeOK'
  BY ValuesStepType DEF ValueInv
<1>2. CASE UNCHANGED valueVars
  <2>1. UNCHANGED <<plugType, wire, input, graph, computes, read, source, mixed>>
    BY <1>2 DEF valueVars
  <2>2. WireFaithful'
    BY <2>1 DEF ValueInv, WireFaithful
  <2>3. \A p \in Performers : Fresh(p)' /\ Writing(p)' /\ ReadsAs(p)'
    BY <2>1, OthersKeep
  <2> QED BY <1>1, <2>2, <2>3 DEF ValueInv
<1>3. CASE ValueNext
  <2>1. PICK p \in Performers :
          \/ \E x \in Items : AppendItem(p, x)
          \/ Fire(p)
          \/ FireThrows(p)
          \/ Compute(p)
          \/ \E q \in Performers : Receive(p, q)
          \/ WriteProxy(p)
          \/ ProxyDone(p)
          \/ WriteInput(p)
          \/ InputDone(p)
    BY <1>3 DEF ValueNext
  <2>2. WireFaithful' /\ \A r \in Performers : Fresh(r)' /\ Writing(r)' /\ ReadsAs(r)'
    <3>1. CASE \/ \E x \in Items : AppendItem(p, x)
               \/ Fire(p)
               \/ FireThrows(p)
               \/ Compute(p)
      BY <3>1, AppKeeps
    <3>2. CASE \E q \in Performers : Receive(p, q)
      BY <3>2, ReceiveKeeps
    <3>3. CASE WriteProxy(p) \/ ProxyDone(p)
      BY <3>3, ProxyKeeps
    <3>4. CASE WriteInput(p)
      BY <3>4, WriteKeeps
    <3>5. CASE InputDone(p)
      BY <3>5, DoneKeeps
    <3> QED BY <2>1, <3>1, <3>2, <3>3, <3>4, <3>5
  <2> QED BY <1>1, <2>2 DEF ValueInv
<1> QED BY <1>2, <1>3 DEF Next, vars

LEMMA ValuesInvariant == Spec => []ValueInv
  BY ValuesInitial, ValuesStep, PTL DEF Spec

(* The variables of the composition stay in their domains.                 *)
THEOREM ValuesTypeCorrect == Spec => []TypeOK
<1>1. ValueInv => TypeOK
  BY DEF ValueInv
<1> QED BY <1>1, ValuesInvariant, PTL

(* No value is left uncomputed: ZstClientSession::on_receive_msg queues    *)
(* the compute after the write, ZstOutputPlug::fire after the copy.        *)
THEOREM NoValueForgotten == Spec => []FreshComputed
<1>1. ValueInv => FreshComputed
  BY DEF ValueInv, TypeOK, Fresh, FreshComputed
<1> QED BY <1>1, ValuesInvariant, PTL

(* An input reads as what was fired, through ZstValue's copy or its        *)
(* serialize_partial and deserialize_partial.                              *)
THEOREM InputsReadAsFired == Spec => []ReadAsFired
<1>1. ValueInv => ReadAsFired
  BY DEF ValueInv, ReadsAs, ReadAsFired
<1> QED BY <1>1, ValuesInvariant, PTL
=============================================================================
