----------------------------- MODULE PublishOnce ------------------------------
(***************************************************************************)
(* What a first publication promises, seen from outside: each node of the  *)
(* Draft is created remotely at most once, with the value of the intent    *)
(* that was adopted when its creation was allowed; an intent that would    *)
(* contradict a node already created is never adopted; and the Draft is    *)
(* declared published only when what was made is what is wanted.           *)
(***************************************************************************)
CONSTANTS Nodes, Values, NoValue

VARIABLES wanted,    \* the current intent of the Draft
          adopted,   \* the intent execution works from, NoValue before a claim
          made,      \* the remote object of each node, or NoValue
          done       \* the Draft is published

vars == <<wanted, adopted, made, done>>

Init ==
  /\ wanted \in [Nodes -> Values]
  /\ adopted = [n \in Nodes |-> NoValue]
  /\ made = [n \in Nodes |-> NoValue]
  /\ done = FALSE

Edit ==
  /\ ~done
  /\ wanted' \in [Nodes -> Values]
  /\ UNCHANGED <<adopted, made, done>>

\* Claiming the first run, or adopting a repaired intent.
Adopt ==
  /\ ~done
  /\ \A n \in Nodes : made[n] \in {NoValue, wanted[n]}
  /\ adopted' = wanted
  /\ UNCHANGED <<wanted, made, done>>

Make(n) ==
  /\ ~done
  /\ made[n] = NoValue /\ adopted[n] # NoValue
  /\ made' = [made EXCEPT ![n] = adopted[n]]
  /\ UNCHANGED <<wanted, adopted, done>>

Finish ==
  /\ ~done
  /\ made = wanted
  /\ done' = TRUE
  /\ UNCHANGED <<wanted, adopted, made>>

Next == Edit \/ Adopt \/ Finish \/ \E n \in Nodes : Make(n)

Spec == Init /\ [][Next]_vars
===============================================================================
