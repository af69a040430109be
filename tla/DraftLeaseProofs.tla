--------------------------- MODULE DraftLeaseProofs ---------------------------
(***************************************************************************)
(* DraftLease, for any set of workers, any ttl and any largest fence: the  *)
(* lease is well-typed, its fences grow, a lost lease stays lost, and the  *)
(* whole implements FencedLock.                                            *)
(***************************************************************************)
EXTENDS DraftLease, TLAPS

LEMMA TypeInit == Init => TypeOK
  BY LeaseAssumption DEF Init, TypeOK, Phases

\* Every step keeps the types of the row and of the calls.
LEMMA TypeStep == TypeOK /\ [Next]_vars => TypeOK'
<1> SUFFICES ASSUME TypeOK, [Next]_vars PROVE TypeOK'
  OBVIOUS
<1> USE LeaseAssumption DEF TypeOK, Phases
<1>1. ASSUME NEW w \in Workers, Acquire(w) PROVE TypeOK'
  BY <1>1 DEF Acquire
<1>2. ASSUME NEW w \in Workers, RenewCall(w) PROVE TypeOK'
  BY <1>2 DEF RenewCall
<1>3. ASSUME NEW w \in Workers, RenewError(w) PROVE TypeOK'
  BY <1>3 DEF RenewError
<1>4. ASSUME NEW w \in Workers, RenewReturn(w) PROVE TypeOK'
  BY <1>4 DEF RenewReturn
<1>5. ASSUME NEW w \in Workers, Transact(w) PROVE TypeOK'
  BY <1>5 DEF Transact
<1>6. ASSUME NEW w \in Workers, EndWork(w) PROVE TypeOK'
  BY <1>6 DEF EndWork
<1>7. ASSUME NEW w \in Workers, Release(w) PROVE TypeOK'
  <2>1. CASE Mine(w)
    <3>1. row' = [row EXCEPT !.token = NoWorker, !.left = 0]
      BY <1>7, <2>1 DEF Release
    <3>2. row' = [token |-> NoWorker, fence |-> row.fence, left |-> 0]
      BY <3>1
    <3> QED
      BY <1>7, <3>2 DEF Release
  <2>2. CASE ~Mine(w)
    BY <1>7, <2>2 DEF Release
  <2> QED
    BY <2>1, <2>2
<1>8. ASSUME NEW w \in Workers, ReleaseError(w) PROVE TypeOK'
  BY <1>8 DEF ReleaseError
<1>9. ASSUME NEW w \in Workers, Crash(w) PROVE TypeOK'
  BY <1>9 DEF Crash
<1>10. CASE Tick
  BY <1>10 DEF Tick
<1>11. CASE UNCHANGED vars
  BY <1>11 DEF vars
<1> QED
  BY <1>1, <1>2, <1>3, <1>4, <1>5, <1>6, <1>7, <1>8, <1>9, <1>10, <1>11 DEF Next, Call

\* The lease row and the calls always have their types; in particular the fence
\* stays a safe integer, whatever the number of acquisitions.
THEOREM Typing == Spec => []TypeOK
<1>1. QED BY TypeInit, TypeStep, PTL DEF Spec

-------------------------------------------------------------------------------

LEMMA LeaseInvInit == Init => LeaseInv
  BY LeaseAssumption DEF Init, LeaseInv

\* Every step keeps the row and the lease objects in line.
LEMMA LeaseInvStep == TypeOK /\ LeaseInv /\ [Next]_vars => LeaseInv'
<1> SUFFICES ASSUME TypeOK, LeaseInv, [Next]_vars PROVE LeaseInv'
  OBVIOUS
<1> USE LeaseAssumption DEF TypeOK, LeaseInv
<1>1. ASSUME NEW w \in Workers, Acquire(w) PROVE LeaseInv'
  BY <1>1 DEF Acquire
<1>2. ASSUME NEW w \in Workers, RenewCall(w) PROVE LeaseInv'
  BY <1>2 DEF RenewCall, Holds, Mine
<1>3. ASSUME NEW w \in Workers, RenewError(w) PROVE LeaseInv'
  BY <1>3 DEF RenewError
<1>4. ASSUME NEW w \in Workers, RenewReturn(w) PROVE LeaseInv'
  BY <1>4 DEF RenewReturn
<1>5. ASSUME NEW w \in Workers, Transact(w) PROVE LeaseInv'
  BY <1>5 DEF Transact, Holds, Mine
<1>6. ASSUME NEW w \in Workers, EndWork(w) PROVE LeaseInv'
  BY <1>6 DEF EndWork
<1>7. ASSUME NEW w \in Workers, Release(w) PROVE LeaseInv'
  BY <1>7 DEF Release, Mine
<1>8. ASSUME NEW w \in Workers, ReleaseError(w) PROVE LeaseInv'
  BY <1>8 DEF ReleaseError
<1>9. ASSUME NEW w \in Workers, Crash(w) PROVE LeaseInv'
  BY <1>9 DEF Crash
<1>10. CASE Tick
  BY <1>10 DEF Tick
<1>11. CASE UNCHANGED vars
  BY <1>11 DEF vars
<1> QED
  BY <1>1, <1>2, <1>3, <1>4, <1>5, <1>6, <1>7, <1>8, <1>9, <1>10, <1>11 DEF Next, Call

\* The row never runs ahead of the grants, and a row with a token carries exactly
\* the fence of the lease object that worker holds (storage.ts).
THEOREM Fencing == Spec => []LeaseInv
<1>1. QED BY TypeInit, TypeStep, LeaseInvInit, LeaseInvStep, PTL DEF Spec

-------------------------------------------------------------------------------

\* An expired or superseded lease is not valid again before the call has ended
\* and a new one has acquired it: renew never revives a row.
THEOREM LostLeaseStaysLost == Spec => LostIsForever
<1> DEFINE Lost(w) == phase[w] # "idle" /\ ~Holds(w) => phase'[w] = "idle" \/ ~Holds(w)'
<1>1. ASSUME TypeOK, LeaseInv, [Next]_vars, NEW w \in Workers PROVE Lost(w)
  <2> USE LeaseAssumption, <1>1 DEF TypeOK, LeaseInv, Holds, Mine
  <2>1. ASSUME NEW v \in Workers, Acquire(v) PROVE Lost(w)
    BY <2>1 DEF Acquire
  <2>2. ASSUME NEW v \in Workers, RenewCall(v) PROVE Lost(w)
    BY <2>2 DEF RenewCall
  <2>3. ASSUME NEW v \in Workers,
               RenewError(v) \/ RenewReturn(v) \/ Transact(v) \/ EndWork(v) \/ ReleaseError(v) \/ Crash(v)
        PROVE Lost(w)
    BY <2>3 DEF RenewError, RenewReturn, Transact, EndWork, ReleaseError, Crash
  <2>4. ASSUME NEW v \in Workers, Release(v) PROVE Lost(w)
    BY <2>4 DEF Release
  <2>5. CASE Tick
    BY <2>5 DEF Tick
  <2>6. CASE UNCHANGED vars
    BY <2>6 DEF vars
  <2> QED
    BY <2>1, <2>2, <2>3, <2>4, <2>5, <2>6 DEF Next, Call
<1>2. TypeOK /\ LeaseInv /\ [Next]_vars => [\A w \in Workers : Lost(w)]_vars
  BY <1>1
<1> QED
  BY <1>2, Typing, Fencing, PTL DEF Spec, LostIsForever

\* A live lease with time left survives every step but its own call's end: the
\* late release of an older call, or of another worker's, frees nothing (release
\* in storage.ts matches token and fence).
THEOREM OnlyOwnEnd == Spec => OnlyItsCallEndsALiveLease
<1> DEFINE Kept(w) == Holds(w) /\ phase[w] = "working" /\ row.left > 1 => Holds(w)'
<1>1. ASSUME TypeOK, LeaseInv, [Next]_vars, NEW w \in Workers PROVE Kept(w)
  <2> SUFFICES ASSUME Holds(w), phase[w] = "working", row.left > 1 PROVE Holds(w)'
    OBVIOUS
  <2> USE LeaseAssumption, <1>1 DEF TypeOK, Holds, Mine
  <2>1. ASSUME NEW v \in Workers, Acquire(v) PROVE Holds(w)'
    BY <2>1 DEF Acquire, Live
  <2>2. ASSUME NEW v \in Workers, RenewCall(v) PROVE Holds(w)'
    BY <2>2 DEF RenewCall
  <2>3. ASSUME NEW v \in Workers,
               RenewError(v) \/ RenewReturn(v) \/ Transact(v) \/ EndWork(v) \/ ReleaseError(v) \/ Crash(v)
        PROVE Holds(w)'
    BY <2>3 DEF RenewError, RenewReturn, Transact, EndWork, ReleaseError, Crash
  <2>4. ASSUME NEW v \in Workers, Release(v) PROVE Holds(w)'
    <3>1. v # w
      BY <2>4 DEF Release
    <3> QED
      BY <2>4, <3>1 DEF Release
  <2>5. CASE Tick
    BY <2>5 DEF Tick
  <2>6. CASE UNCHANGED vars
    BY <2>6 DEF vars
  <2> QED
    BY <2>1, <2>2, <2>3, <2>4, <2>5, <2>6 DEF Next, Call
<1>2. TypeOK /\ LeaseInv /\ [Next]_vars => [\A w \in Workers : Kept(w)]_vars
  BY <1>1
<1> QED
  BY <1>2, Typing, Fencing, PTL DEF Spec, OnlyItsCallEndsALiveLease

\* Writes are stamped with the fence of the current grant, in the order of grants.
THEOREM WritesInOrder == Spec => WritesFollowFences
<1>1. TypeOK /\ LeaseInv /\ [Next]_vars => [written' # written => written < written' /\ written' = row.fence]_vars
  <2> SUFFICES ASSUME TypeOK, LeaseInv, [Next]_vars, written' # written
               PROVE  written < written' /\ written' = row.fence
    OBVIOUS
  <2>1. PICK w \in Workers : Transact(w)
    BY DEF Next, Call, Acquire, RenewCall, RenewError, RenewReturn, EndWork, Release, ReleaseError, Crash, Tick, vars
  <2> QED
    BY <2>1, LeaseAssumption DEF Transact, Holds, Mine, TypeOK, LeaseInv
<1> QED
  BY <1>1, Typing, Fencing, PTL DEF Spec, WritesFollowFences

-------------------------------------------------------------------------------

\* The token, fence and expiry scheme implements the abstract fenced lock.
THEOREM ImplementsFencedLock == Spec => LockSpec
<1> DEFINE owner == IF Live THEN row.token ELSE NoWorker
<1>1. Init => Lock!Init
  BY LeaseAssumption DEF Init, Lock!Init, Live
<1>2. TypeOK /\ LeaseInv /\ [Next]_vars => [Lock!Next]_Lock!vars
  <2> SUFFICES ASSUME TypeOK, LeaseInv, [Next]_vars PROVE [Lock!Next]_Lock!vars
    OBVIOUS
  <2> USE LeaseAssumption DEF TypeOK, LeaseInv, Live, Lock!vars
  <2>1. ASSUME NEW w \in Workers, Acquire(w) PROVE Lock!Grant(w)
    BY <2>1 DEF Acquire, Lock!Grant
  <2>2. ASSUME NEW w \in Workers, Transact(w) PROVE Lock!Write(w)
    BY <2>2 DEF Transact, Holds, Mine, Lock!Write
  <2>3. ASSUME NEW w \in Workers, Release(w) PROVE Lock!End \/ UNCHANGED Lock!vars
    BY <2>3 DEF Release, Mine, Lock!End
  <2>4. ASSUME Tick PROVE Lock!End \/ UNCHANGED Lock!vars
    <3>1. row' = [row EXCEPT !.left = row.left - 1] /\ UNCHANGED written /\ row.left \in 1..Ttl
      BY <2>4 DEF Tick
    <3>2. row'.token = row.token /\ row'.fence = row.fence /\ row'.left = row.left - 1
      BY <3>1
    <3>3. CASE row.left > 1 /\ row.token # NoWorker
      BY <3>1, <3>2, <3>3
    <3>4. CASE row.left = 1 /\ row.token # NoWorker
      BY <3>1, <3>2, <3>4 DEF Lock!End
    <3> QED
      BY <3>1, <3>2, <3>3, <3>4
  <2>5. ASSUME NEW w \in Workers, RenewCall(w) PROVE UNCHANGED Lock!vars
    BY <2>5 DEF RenewCall, Holds, Mine
  <2>6. ASSUME NEW w \in Workers,
               RenewError(w) \/ RenewReturn(w) \/ EndWork(w) \/ ReleaseError(w) \/ Crash(w)
        PROVE UNCHANGED Lock!vars
    BY <2>6 DEF RenewError, RenewReturn, EndWork, ReleaseError, Crash
  <2>7. CASE UNCHANGED vars
    BY <2>7 DEF vars
  <2> QED
    BY <2>1, <2>2, <2>3, <2>4, <2>5, <2>6, <2>7 DEF Next, Call, Lock!Next
<1> QED
  BY <1>1, <1>2, Typing, Fencing, PTL DEF Spec, LockSpec, Lock!Spec
===============================================================================
