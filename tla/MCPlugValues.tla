---------------------------- MODULE MCPlugValues ----------------------------
(* Model-checking instance of PlugValues: two performers, both with an input *)
(* at the end of a cable from the plug, and items of which one fits between  *)
(* two ints and one is a string that is no number.                           *)
EXTENDS PlugValues

CONSTANTS a, b

MCItems == {[t |-> "Float", h |-> -3], [t |-> "Str", h |-> NotNumber]}

\* Values start once the plug is active, on a stage that evicts nobody, and all
\* owner requests are made before the first message is taken from a wire: the
\* changes of ownership then overtake, or are overtaken by, every step of the
\* values.  A float list differs from these two in nothing they do not show:
\* it throws as the int list does and keeps halves as the string list does.
ValuesFollow ==
  /\ plugType # "Float"
  /\ fires + appends > 0 => born = "active" /\ present = Performers /\ links = {}
  /\ (\E p \in Performers : graph[p].at # "idle") => asks \in {0, MaxAsks}
=============================================================================
