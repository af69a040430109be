------------------------------ MODULE FencedLock ------------------------------
(***************************************************************************)
(* What a Draft lease promises to the engine that works under it: at any   *)
(* moment at most one owner, every grant a new epoch, and a write only by  *)
(* the current owner, stamped with the current epoch.  How tokens, fences  *)
(* and expiry times achieve it is the business of DraftLease.              *)
(***************************************************************************)
EXTENDS Naturals

CONSTANTS Workers, NoWorker

VARIABLES owner,     \* the worker the lease belongs to, or NoWorker
          epoch,     \* number of grants so far
          written    \* epoch of the last guarded write, 0 before the first

vars == <<owner, epoch, written>>

Init == owner = NoWorker /\ epoch = 0 /\ written = 0

Grant(w) ==
  /\ owner = NoWorker
  /\ owner' = w
  /\ epoch' = epoch + 1
  /\ UNCHANGED written

\* Release, or expiry of a lease whose owner stopped renewing it.
End ==
  /\ owner # NoWorker
  /\ owner' = NoWorker
  /\ UNCHANGED <<epoch, written>>

Write(w) ==
  /\ owner = w
  /\ written' = epoch
  /\ UNCHANGED <<owner, epoch>>

Next == End \/ \E w \in Workers : Grant(w) \/ Write(w)

Spec == Init /\ [][Next]_vars
===============================================================================
