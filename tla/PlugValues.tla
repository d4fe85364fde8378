---------------------------- MODULE PlugValues -----------------------------
(***************************************************************************)
(* Values on their way from an output plug to the components that compute  *)
(* with them.  The application of a performer appends items to its         *)
(* instance of the plug and fires it: the value is copied to the inputs of *)
(* the plug's own performer, published to every performer that listens,    *)
(* and cleared.  A listener's graph thread writes the value, element by    *)
(* element and without a lock, into its proxy of the plug and into its own *)
(* input, then queues a compute that the application's process_events runs *)
(* later.  Who may fire is PlugControl's; this module composes the two.    *)
(***************************************************************************)
EXTENDS PlugControl, Integers

CONSTANTS
  Items,         \* items an application appends: [t : type, h : halves]
  NotNumber,     \* the "number" in a string that is none
  MaxFires,      \* bound: fires in a behaviour
  MaxAppends     \* bound: items appended in a behaviour

\* Default types of a value: lists of int, float or string.
Types == {"Int", "Float", "Str"}

\* An item is one element of the variant list m_values.  Numbers are counted in
\* halves, so that a float may lie between two ints; a string holds the decimal
\* form of a number or, with NotNumber, something else.
AnyItem == [t : Types, h : Int \cup {NotNumber}]

ASSUME ValuesAssumption ==
  /\ NotNumber \notin Int
  /\ Items \subseteq AnyItem
  /\ MaxFires \in Nat
  /\ MaxAppends \in Nat

VARIABLES
  plugType,   \* m_default_type of the output plug
  value,      \* m_values of each performer's instance of the output plug
  wire,       \* wire[p][q]: messages p published that q has not taken
  input,      \* m_values of each receiver's own input plug
  graph,      \* what each performer's graph thread is doing
  computes,   \* computes queued at each performer, for its own input
  read,       \* history: the items the last compute of each performer read
  source,     \* history: the items as fired that the input was last given
  mixed,      \* history: performers whose input was copied to while written
  fires,      \* fires so far
  appends     \* items appended so far

valueVars == <<plugType, value, wire, input, graph, computes, read, source,
               mixed, fires, appends>>

vars == <<controlVars, valueVars>>

\* A published message, with the items as they were fired for the history.
Messages == [items : Seq(AnyItem), sent : Seq(AnyItem)]

\* The graph thread writes message msg; it has reached element k of the target.
GraphStates == [at : {"idle", "proxy", "input"}, msg : Seq(AnyItem),
                sent : Seq(AnyItem), k : Nat]

Idle == [at |-> "idle", msg |-> <<>>, sent |-> <<>>, k |-> 0]

-----------------------------------------------------------------------------
(* Conversions.                                                            *)

\* int(f) truncates towards zero.
Truncated(h) == IF h < 0 THEN -(2 * ((-h) \div 2)) ELSE 2 * (h \div 2)

\* The visitors throw when a string that is no number is read as a number.
Throws(x, T) == x.h = NotNumber /\ T # "Str"

\* An item read with the visitor of type T, as as_int_vector, as_float_vector
\* and as_string_vector read it.  (char_at is not one of them: it looks at the
\* last item only, and is not modelled.)
As(x, T) ==
  IF x.h = NotNumber THEN [t |-> T, h |-> NotNumber]
  ELSE [t |-> T, h |-> IF T = "Int" THEN Truncated(x.h) ELSE x.h]

\* as_int_vector, as_float_vector, as_string_vector.
Reading(s, T) == [i \in 1 .. Len(s) |-> As(s[i], T)]

\* serialize: every item is converted to the plug's default type.
Serialized(s) == Reading(s, plugType)

\* Mutant: the list only ever grows.
Resized_GrowOnly(s, n) ==
  [i \in 1 .. (IF n > Len(s) THEN n ELSE Len(s)) |->
     IF i <= Len(s) THEN s[i] ELSE [t |-> "Int", h |-> 0]]

\* m_values.resize: keeps a prefix, and fills up with the variant's first
\* alternative, the int 0.
Resized(s, n) ==
  [i \in 1 .. n |-> IF i <= Len(s) THEN s[i] ELSE [t |-> "Int", h |-> 0]]

\* m_values[index] = item.  The index was computed for the size this thread gave
\* the list; when another thread has shortened it since, the write lands outside
\* of the list.
Written(s, k, x) == IF k <= Len(s) THEN [s EXCEPT ![k] = x] ELSE s

-----------------------------------------------------------------------------

Init ==
  /\ ControlInit
  /\ plugType \in Types
  /\ value = [p \in Performers |-> <<>>]
  /\ wire = [p \in Performers |-> [q \in Performers |-> <<>>]]
  /\ input = [p \in Performers |-> <<>>]
  /\ graph = [p \in Performers |-> Idle]
  /\ computes = [p \in Performers |-> 0]
  /\ read = [p \in Performers |-> <<>>]
  /\ source = [p \in Performers |-> <<>>]
  /\ mixed = {}
  /\ fires = 0
  /\ appends = 0

-----------------------------------------------------------------------------
(* The application's thread.                                               *)

\* append_int, append_float, append_char: under the value's lock.
Appended(s, x) == Append(s, x)

\* The application appends to its instance of the plug, able to fire it or not.
AppendItem(p, x) ==
  /\ appends < MaxAppends
  /\ appends' = appends + 1
  /\ value' = [value EXCEPT ![p] = Appended(@, x)]
  /\ UNCHANGED <<controlVars, plugType, wire, input, graph, computes, read,
                 source, mixed, fires>>

\* fire's first loop: the inputs that belong to the plug's own performer get a
\* copy of the items, not converted, and a compute is queued.  At another
\* performer those inputs are proxies, whose components compute nothing.
CopyLocal(p) ==
  IF p = Creator /\ Creator \in Receivers
  THEN /\ input' = [input EXCEPT ![p] = value[p]]
       /\ source' = [source EXCEPT ![p] = value[p]]
       /\ computes' = [computes EXCEPT ![p] = @ + 1]
       /\ mixed' = IF graph[p].at = "input" THEN mixed \cup {p} ELSE mixed \ {p}
  ELSE UNCHANGED <<input, source, computes, mixed>>

\* The message reaches whoever listens to p; a socket does not hear itself.
Published(p) ==
  [wire EXCEPT ![p] = [q \in Performers |->
     IF <<q, p>> \in hears
     THEN Append(@[q], [items |-> Serialized(value[p]), sent |-> value[p]])
     ELSE @[q]]]

\* ZstOutputPlug::fire.
Fire(p) ==
  /\ canFire[p]
  /\ fires < MaxFires
  /\ fires' = fires + 1
  /\ CopyLocal(p)
  /\ wire' = Published(p)
  /\ value' = [value EXCEPT ![p] = <<>>]
  /\ \A i \in 1 .. Len(value[p]) : ~Throws(value[p][i], plugType)
  /\ UNCHANGED <<controlVars, plugType, graph, read, appends>>

\* An item that cannot be converted: serialize throws out of fire, after the
\* local copies and before the message is sent and the value cleared.
FireThrows(p) ==
  /\ canFire[p]
  /\ fires < MaxFires
  /\ fires' = fires + 1
  /\ CopyLocal(p)
  /\ \E i \in 1 .. Len(value[p]) : Throws(value[p][i], plugType)
  /\ UNCHANGED <<controlVars, plugType, value, wire, graph, read, appends>>

\* process_events runs a queued compute, which reads the input's items as they
\* are then.
Compute(p) ==
  /\ computes[p] > 0
  /\ computes' = [computes EXCEPT ![p] = @ - 1]
  /\ read' = [read EXCEPT ![p] = input[p]]
  /\ UNCHANGED <<controlVars, plugType, value, wire, input, graph, source, mixed,
                 fires, appends>>

-----------------------------------------------------------------------------
(* The graph thread of a listener.                                         *)

\* A message is taken from the socket; the plug it names is the plug itself at
\* its creator and a proxy, which is written first, anywhere else.
Receive(p, q) ==
  /\ graph[p].at = "idle"
  /\ wire[q][p] # <<>>
  /\ LET m == Head(wire[q][p])
     IN graph' = [graph EXCEPT ![p] =
          [at |-> IF p = Creator THEN "input" ELSE "proxy",
           msg |-> m.items, sent |-> m.sent, k |-> 0]]
  /\ wire' = [wire EXCEPT ![q][p] = Tail(@)]
  /\ UNCHANGED <<controlVars, plugType, value, input, computes, read, source,
                 mixed, fires, appends>>

\* deserialize_partial's steps on a list: resize, then one write per element.
Step(s, g) == IF g.k = 0 THEN Resized(s, Len(g.msg))
              ELSE Written(s, g.k, g.msg[g.k])

\* The proxy's value, which the application may be appending to or firing.
WriteProxy(p) ==
  /\ graph[p].at = "proxy"
  /\ graph[p].k <= Len(graph[p].msg)
  /\ value' = [value EXCEPT ![p] = Step(@, graph[p])]
  /\ graph' = [graph EXCEPT ![p].k = @ + 1]
  /\ UNCHANGED <<controlVars, plugType, wire, input, computes, read, source,
                 mixed, fires, appends>>

\* The proxy is announced as updated; a receiver goes on with its own input.
ProxyDone(p) ==
  /\ graph[p].at = "proxy"
  /\ graph[p].k > Len(graph[p].msg)
  /\ graph' = [graph EXCEPT ![p] =
       IF p \in Receivers THEN [@ EXCEPT !.at = "input", !.k = 0] ELSE Idle]
  /\ UNCHANGED <<controlVars, plugType, value, wire, input, computes, read,
                 source, mixed, fires, appends>>

\* The input's value, which a compute may be reading.
WriteInput(p) ==
  /\ graph[p].at = "input"
  /\ p \in Receivers
  /\ graph[p].k <= Len(graph[p].msg)
  /\ input' = [input EXCEPT ![p] = Step(@, graph[p])]
  /\ mixed' = IF graph[p].k = 0 THEN mixed \ {p} ELSE mixed
  /\ graph' = [graph EXCEPT ![p].k = @ + 1]
  /\ UNCHANGED <<controlVars, plugType, value, wire, computes, read, source,
                 fires, appends>>

\* Mutant: an empty list is written but not computed with.
InputDone_SkipsEmpty(p) ==
  /\ graph[p].at = "input"
  /\ p \in Receivers => graph[p].k > Len(graph[p].msg)
  /\ graph' = [graph EXCEPT ![p] = Idle]
  /\ IF p \in Receivers
     THEN /\ computes' = [computes EXCEPT ![p] =
                            IF graph[p].msg = <<>> THEN @ ELSE @ + 1]
          /\ source' = [source EXCEPT ![p] = graph[p].sent]
     ELSE UNCHANGED <<computes, source>>
  /\ UNCHANGED <<controlVars, plugType, value, wire, input, read, mixed, fires,
                 appends>>

\* plug_received_value: the compute is queued once the value is written.
InputDone(p) ==
  /\ graph[p].at = "input"
  /\ p \in Receivers => graph[p].k > Len(graph[p].msg)
  /\ graph' = [graph EXCEPT ![p] = Idle]
  /\ IF p \in Receivers
     THEN /\ computes' = [computes EXCEPT ![p] = @ + 1]
          /\ source' = [source EXCEPT ![p] = graph[p].sent]
     ELSE UNCHANGED <<computes, source>>
  /\ UNCHANGED <<controlVars, plugType, value, wire, input, read, mixed, fires,
                 appends>>

-----------------------------------------------------------------------------

ValueNext ==
  \E p \in Performers :
    \/ \E x \in Items : AppendItem(p, x)
    \/ Fire(p)
    \/ FireThrows(p)
    \/ Compute(p)
    \/ \E q \in Performers : Receive(p, q)
    \/ WriteProxy(p)
    \/ ProxyDone(p)
    \/ WriteInput(p)
    \/ InputDone(p)

Next == (ControlNext /\ UNCHANGED valueVars) \/ ValueNext

Spec == Init /\ [][Next]_vars

-----------------------------------------------------------------------------

\* Every variable stays in its domain.
TypeOK ==
  /\ ControlTypeOK
  /\ plugType \in Types
  /\ value \in [Performers -> Seq(AnyItem)]
  /\ wire \in [Performers -> [Performers -> Seq(Messages)]]
  /\ graph \in [Performers -> GraphStates]
  /\ input \in [Performers -> Seq(AnyItem)]
  /\ computes \in [Performers -> Nat]
  /\ read \in [Performers -> Seq(AnyItem)]
  /\ source \in [Performers -> Seq(AnyItem)]
  /\ mixed \subseteq Performers
  /\ fires \in 0 .. MaxFires
  /\ appends \in 0 .. MaxAppends

\* No value is left uncomputed (ZstClientSession::on_receive_msg and
\* plug_received_value against ZstOutputPlug::fire): when the graph thread is
\* not writing the input and no compute is queued, the last compute read what
\* the input holds.  A compute that ran in the middle of the writes and read a
\* torn list is therefore always followed by another one.
FreshComputed ==
  \A p \in Performers :
    graph[p].at # "input" /\ computes[p] = 0 => read[p] = input[p]

\* What an input holds, read with the plug's type, is what was fired, item for
\* item and no item more, whether the value came as a local copy that is not
\* converted or as a message that is (ZstValue::copy, serialize_partial,
\* deserialize_partial).  The exception is an input that was given a local copy
\* while the graph thread was writing another performer's value into it.
ReadAsFired ==
  \A p \in Performers :
    graph[p].at # "input" /\ p \notin mixed =>
      Reading(input[p], plugType) = Reading(source[p], plugType)

=============================================================================
