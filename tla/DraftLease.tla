------------------------------ MODULE DraftLease ------------------------------
(***************************************************************************)
(* The lease of one Draft: the SQLite lock provider (storage.ts), the      *)
(* fenced check at the head of transact, and withLease of the engine with  *)
(* its renewal timer.  Expiry is kept as the time left, not as a date: the *)
(* code only ever compares expires_at with now.  Workers may be paused at  *)
(* any point (they simply take no step while time passes), crash and       *)
(* restart; the lease row survives them.                                   *)
(*                                                                         *)
(* A token is a fresh UUID, so "the row carries this call's token" is      *)
(* "the row was written by this call": the model keeps the worker as the   *)
(* token and compares the fence beside it, as the SQL does.                *)
(***************************************************************************)
EXTENDS Naturals

CONSTANTS Workers, NoWorker,
          Ttl,         \* length of a lease, in ticks
          MaxFence     \* the largest safe integer

ASSUME LeaseAssumption ==
  /\ NoWorker \notin Workers
  /\ Ttl \in Nat \ {0}
  /\ MaxFence \in Nat \ {0}

VARIABLES row,       \* the lease row: [token, fence, left]
          phase,     \* phase of each worker's withLease call
          fence,     \* the fence of the lease object that call holds
          renewal,   \* the renewal in progress: "none", "ok" or "failed"
          aborted,   \* the call's AbortController has fired
          written    \* fence under which the Draft was last written

vars == <<row, phase, fence, renewal, aborted, written>>

Phases == {"idle", "working", "ending"}

TypeOK ==
  /\ row \in [token : Workers \cup {NoWorker}, fence : 0..MaxFence, left : 0..Ttl]
  /\ phase \in [Workers -> Phases]
  /\ fence \in [Workers -> 0..MaxFence]
  /\ renewal \in [Workers -> {"none", "ok", "failed"}]
  /\ aborted \in [Workers -> BOOLEAN]
  /\ written \in 0..MaxFence

Init ==
  /\ row = [token |-> NoWorker, fence |-> 0, left |-> 0]
  /\ phase = [w \in Workers |-> "idle"]
  /\ fence = [w \in Workers |-> 0]
  /\ renewal = [w \in Workers |-> "none"]
  /\ aborted = [w \in Workers |-> FALSE]
  /\ written = 0

-------------------------------------------------------------------------------
(* The row *)

\* Mutant: a lease counts as live until it is released.
LiveUntilReleased == row.token # NoWorker

Live == row.token # NoWorker /\ row.left > 0

\* WHERE token=? AND fence=?
Mine(w) == row.token = w /\ row.fence = fence[w]

\* ... AND expires_at > now: the test of renew and of transact
Holds(w) == Mine(w) /\ row.left > 0

-------------------------------------------------------------------------------
(* One call of withLease *)

\* A live lease answers null (DRAFT_BUSY); an exhausted fence throws and
\* surfaces as LOCK_UNAVAILABLE.  Neither changes anything.
Acquire(w) ==
  /\ phase[w] = "idle"
  /\ ~Live
  /\ row.fence + 1 <= MaxFence
  /\ row' = [token |-> w, fence |-> row.fence + 1, left |-> Ttl]
  /\ fence' = [fence EXCEPT ![w] = row.fence + 1]
  /\ phase' = [phase EXCEPT ![w] = "working"]
  /\ aborted' = [aborted EXCEPT ![w] = FALSE]
  /\ UNCHANGED <<renewal, written>>

\* Mutant: renew does not look at the expiry.
RenewCallLate(w) ==
  /\ phase[w] = "working"
  /\ renewal[w] = "none" /\ ~aborted[w]
  /\ row' = IF Mine(w) THEN [row EXCEPT !.left = Ttl] ELSE row
  /\ renewal' = [renewal EXCEPT ![w] = IF Mine(w) THEN "ok" ELSE "failed"]
  /\ UNCHANGED <<phase, fence, aborted, written>>

\* The timer fires: no renewal in progress, not yet aborted.
RenewCall(w) ==
  /\ phase[w] = "working"
  /\ renewal[w] = "none" /\ ~aborted[w]
  /\ row' = IF Holds(w) THEN [row EXCEPT !.left = Ttl] ELSE row
  /\ renewal' = [renewal EXCEPT ![w] = IF Holds(w) THEN "ok" ELSE "failed"]
  /\ UNCHANGED <<phase, fence, aborted, written>>

\* The store cannot be reached: renew rejects.
RenewError(w) ==
  /\ phase[w] = "working"
  /\ renewal[w] = "none" /\ ~aborted[w]
  /\ renewal' = [renewal EXCEPT ![w] = "failed"]
  /\ UNCHANGED <<row, phase, fence, aborted, written>>

\* The renewal settles; a failed one aborts the signal the work was given.
RenewReturn(w) ==
  /\ renewal[w] # "none"
  /\ aborted' = [aborted EXCEPT ![w] = @ \/ renewal[w] = "failed"]
  /\ renewal' = [renewal EXCEPT ![w] = "none"]
  /\ UNCHANGED <<row, phase, fence, written>>

\* Mutant: transact compares token and fence, not the expiry.
TransactExpired(w) ==
  /\ phase[w] = "working"
  /\ Mine(w)
  /\ written' = fence[w]
  /\ UNCHANGED <<row, phase, fence, renewal, aborted>>

\* A write inside transact; the work itself need not have noticed an abort.
Transact(w) ==
  /\ phase[w] = "working"
  /\ Holds(w)
  /\ written' = fence[w]
  /\ UNCHANGED <<row, phase, fence, renewal, aborted>>

\* The work returns or throws (LEASE_LOST from transact, or the abort it
\* noticed): the timer is cleared.
EndWork(w) ==
  /\ phase[w] = "working"
  /\ phase' = [phase EXCEPT ![w] = "ending"]
  /\ UNCHANGED <<row, fence, renewal, aborted, written>>

\* Mutant: release frees the row whoever holds it by now.
ReleaseAnyones(w) ==
  /\ phase[w] = "ending" /\ renewal[w] = "none"
  /\ row' = [row EXCEPT !.token = NoWorker, !.left = 0]
  /\ phase' = [phase EXCEPT ![w] = "idle"]
  /\ UNCHANGED <<fence, renewal, aborted, written>>

\* "if (pending) await pending", then release, which frees the row only if it
\* is still this call's, expired or not.
Release(w) ==
  /\ phase[w] = "ending" /\ renewal[w] = "none"
  /\ row' = IF Mine(w) THEN [row EXCEPT !.token = NoWorker, !.left = 0] ELSE row
  /\ phase' = [phase EXCEPT ![w] = "idle"]
  /\ UNCHANGED <<fence, renewal, aborted, written>>

\* The release itself fails: the row stays until it expires.
ReleaseError(w) ==
  /\ phase[w] = "ending" /\ renewal[w] = "none"
  /\ phase' = [phase EXCEPT ![w] = "idle"]
  /\ UNCHANGED <<row, fence, renewal, aborted, written>>

-------------------------------------------------------------------------------
(* The environment *)

Crash(w) ==
  /\ phase[w] # "idle"
  /\ phase' = [phase EXCEPT ![w] = "idle"]
  /\ renewal' = [renewal EXCEPT ![w] = "none"]
  /\ UNCHANGED <<row, fence, aborted, written>>

Tick ==
  /\ row.left > 0
  /\ row' = [row EXCEPT !.left = @ - 1]
  /\ UNCHANGED <<phase, fence, renewal, aborted, written>>

Call(w) ==
  \/ Acquire(w) \/ RenewCall(w) \/ RenewError(w) \/ RenewReturn(w)
  \/ Transact(w) \/ EndWork(w) \/ Release(w) \/ ReleaseError(w)

Next == Tick \/ \E w \in Workers : Call(w) \/ Crash(w)

Spec == Init /\ [][Next]_vars

\* Time passes, renewals settle, a call that has ended releases, and nobody
\* works forever: work ends by returning, throwing or crashing.
Fairness ==
  /\ WF_vars(Tick)
  /\ \A w \in Workers : /\ WF_vars(RenewReturn(w))
                        /\ WF_vars(EndWork(w) \/ Crash(w))
                        /\ WF_vars(Release(w) \/ ReleaseError(w))

FairSpec == Spec /\ Fairness

-------------------------------------------------------------------------------
(* Properties *)

\* Why the comparison of tokens and fences is enough: the row never runs ahead
\* of the grants, the last write was made under a granted fence, and a worker
\* whose row is live holds exactly the lease object that row describes.
LeaseInv ==
  /\ written <= row.fence
  /\ \A w \in Workers : fence[w] <= row.fence
  /\ row.token # NoWorker => fence[row.token] = row.fence
  /\ row.token = NoWorker => row.left = 0

\* A worker that was paused past its lease, even for a moment and with nobody
\* else interested, never gets that lease back: renew (storage.ts) must not
\* revive an expired row.  Only a new acquisition makes it valid again.
LostIsForever ==
  [][\A w \in Workers :
       phase[w] # "idle" /\ ~Holds(w) => phase'[w] = "idle" \/ ~Holds(w)']_vars

\* A live lease is ended by its own call or by the clock, never by the release
\* of an older call that comes late (release in storage.ts).
OnlyItsCallEndsALiveLease ==
  [][\A w \in Workers :
       Holds(w) /\ phase[w] = "working" /\ row.left > 1 => Holds(w)']_vars

\* Writes reach the Draft in the order of the grants: once a newer lease has
\* written, an older holder's transact is refused (LEASE_LOST).
WritesFollowFences ==
  [][written' # written => written < written' /\ written' = row.fence]_vars

\* A crashed or hung-up caller never locks a Draft for good.
LeaseIsFreedAgain == []<>~Live

\* The lease implements the abstract fenced lock.
Lock == INSTANCE FencedLock WITH
          owner <- IF Live THEN row.token ELSE NoWorker,
          epoch <- row.fence
LockSpec == Lock!Spec
===============================================================================
