------------------------------ MODULE WorkQueue ------------------------------
(***************************************************************************)
(* What the event dispatchers promise to the threads that defer events: on *)
(* each channel (a thread deferring on a dispatcher) events are run in the *)
(* order in which they were deferred, each of them once, and each of them  *)
(* eventually, until the stage is destroyed.                               *)
(***************************************************************************)
EXTENDS Naturals

CONSTANT Channels

VARIABLES
  sent,    \* events deferred so far on each channel; the last one's number
  ran,     \* the number of the last event that was run on each channel
  closed   \* the stage has been destroyed

wqVars == <<sent, ran, closed>>

WQInit ==
  /\ sent = [c \in Channels |-> 0]
  /\ ran = [c \in Channels |-> 0]
  /\ closed = FALSE

WQSend(c) ==
  /\ sent' = [sent EXCEPT ![c] = @ + 1]
  /\ UNCHANGED <<ran, closed>>

WQRun(c) ==
  /\ ran[c] < sent[c]
  /\ ran' = [ran EXCEPT ![c] = @ + 1]
  /\ UNCHANGED <<sent, closed>>

WQClose ==
  /\ closed' = TRUE
  /\ UNCHANGED <<sent, ran>>

WQNext ==
  \/ \E c \in Channels : WQSend(c) \/ WQRun(c)
  \/ WQClose

WQSafe == WQInit /\ [][WQNext]_wqVars

WQSpec == WQSafe /\ \A c \in Channels : WF_wqVars(WQRun(c) /\ ~closed)

=============================================================================
