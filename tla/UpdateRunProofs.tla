---------------------------- MODULE UpdateRunProofs -----------------------------
(***************************************************************************)
(* Proofs about UpdateRun, for any number of nodes, values, edits, drifts,  *)
(* requests and repairs.  UInv is the inductive invariant.                  *)
(***************************************************************************)
EXTENDS UpdateRun, TLAPS, WellFoundedInduction, FiniteSetTheorems, SequenceTheorems

-------------------------------------------------------------------------------
(* The inductive invariant *)

\* An observation of node n is no newer than the object, and true if it is as new.
Seen(o, n) == o.rv <= remote[n].rv /\ (o.rv = remote[n].rv => o.value = remote[n].value)

\* A check in the making, or made, never knows more than the Draft; what it says of
\* the present version is true, and so is what it observed.
Dated(c) ==
  /\ c.version <= version /\ c.rev <= rev
  /\ c.version = version => c.intent = intent

Sound(c) ==
  /\ Dated(c)
  /\ \A n \in Nodes : /\ Seen(c.seen[n], n)
                      /\ c.intent[n] # Undeclared => c.target[n] = c.intent[n]
                      /\ c.rev = rev => c.seen[n].rv >= fact[n].rv

ChecksAreSound ==
  /\ Observing(round) => Dated(round)
  /\ Observed(round) => Sound(round)
  /\ check # NoCheck => Sound(check)
  /\ runCert # NoCheck => Sound(runCert)

\* Where a call is, and what it has made sure of.
CallsKnow ==
  /\ pc = "adopt" => /\ runState = "published" /\ check # NoCheck
                     /\ check.version = version /\ check.rev = rev
  /\ pc \notin {"idle", "adopt"} => runState # "published"
  /\ pc \in {"loop", "record", "recheck", "repair"} => Unresolved = {}
  /\ pc \in {"sent", "asking"} => Unresolved # {}
  /\ pc = "record" => runCert.version = version /\ Done # Nodes
  /\ pc = "repair" => check # NoCheck /\ check.version = version /\ check.rev = rev

\* A run has its certificate; a published one is complete.
RunsAreWhole ==
  /\ runState # "published" => run > 0 /\ runCert # NoCheck /\ ~published
  /\ runState = "published" => Done = Nodes /\ Unresolved = {}

\* At most one request is open: the last, of this run, under the key in use, of a
\* step not completed.
OneRequestOpen ==
  \A i \in DOMAIN attempts :
    Open(i) => /\ i = Len(attempts)
               /\ attempts[i].run = run
               /\ attempts[i].key = key[attempts[i].step]
               /\ attempts[i].step \notin Done

\* A status says what happened remotely; a step is attempted again only after a
\* proof that the request before cannot happen; and a completed step has its evidence.
HistoryIsTrue ==
  /\ made \cap barred = {}
  /\ \A i \in DOMAIN attempts :
       /\ attempts[i].run <= run
       /\ attempts[i].status = "no_effect" => i \in barred
       /\ attempts[i].status = "applied" =>
            i \in made /\ (attempts[i].run = run => attempts[i].step \in Done)
  /\ \A i, j \in DOMAIN attempts :
       /\ i < j /\ attempts[i].run = attempts[j].run /\ attempts[i].step = attempts[j].step
       => attempts[i].status = "no_effect" /\ attempts[i].key <= attempts[j].key
  /\ run > 0 => \A n \in Nodes : status[n] = "applied" =>
       \E i \in DOMAIN attempts : /\ attempts[i].run = run /\ attempts[i].step = n
                                  /\ attempts[i].key = key[n] /\ attempts[i].status = "applied"

\* The key in use stands for the present request: its payload and its conditions.
KeysAreCurrent ==
  /\ \A n \in Nodes : key[n] <= revision
  /\ \A i \in DOMAIN attempts :
       LET n == attempts[i].step IN
       attempts[i].run = run =>
         /\ attempts[i].key <= key[n]
         /\ n \notin Done /\ attempts[i].key = key[n] =>
              attempts[i].target = runCert.target[n] /\ attempts[i].seen = runCert.seen[n]

\* Facts, conditions and effects are true of the remote objects, and what a run has
\* not completed yet was observed after the latest fact.
FactsAreTrue ==
  /\ \A n \in Nodes : Seen(fact[n], n)
  /\ \A i \in DOMAIN attempts : Seen(attempts[i].seen, attempts[i].step)
  /\ \A i \in made :
       Seen([value |-> attempts[i].target, rv |-> attempts[i].seen.rv + 1], attempts[i].step)
  /\ runState # "published" =>
       \A n \in Nodes : IF n \in Done
                        THEN runCert.intent[n] \in {Undeclared, fact[n].value}
                        ELSE runCert.seen[n].rv >= fact[n].rv

IntentIsConfirmed == published => \A n \in Nodes : intent[n] \in {Undeclared, fact[n].value}

\* Without a compare-and-set nobody else writes, and a request on its way is about
\* the object as it is.
SingleWriter ==
  ~Cas =>
    /\ \A n \in Nodes : remote[n].rv = Cardinality({i \in made : attempts[i].step = n})
    /\ \A i \in DOMAIN attempts :
         Open(i) /\ i \notin made => remote[attempts[i].step] = attempts[i].seen
    /\ pc = "record" => \A n \in Nodes \ Done : remote[n] = runCert.seen[n]

UInv ==
  /\ TypeOK
  /\ ChecksAreSound
  /\ CallsKnow
  /\ RunsAreWhole
  /\ OneRequestOpen
  /\ HistoryIsTrue
  /\ KeysAreCurrent
  /\ FactsAreTrue /\ NotOlderThanWrites
  /\ IntentIsConfirmed
  /\ KeyIdentifiesUpdate
  /\ SingleWriter

-------------------------------------------------------------------------------
(* The operators of the model *)

LEMMA Least ==
  ASSUME NEW T \in SUBSET Nat, T # {}
  PROVE  \E x \in T : \A y \in T : x <= y
<1> DEFINE R == OpToRel(<, Nat)
<1>1. IsWellFoundedOn(R, Nat)
  BY NatLessThanWellFounded
<1>2. \A x, y \in Nat : <<y, x>> \in R <=> y < x
  BY DEF OpToRel
<1> HIDE DEF R
<1>3. \E x \in T : \A y \in T : ~(<<y, x>> \in R)
  BY <1>1, WFMin, Zenon
<1>4. PICK x \in T : \A y \in T : ~(<<y, x>> \in R)
  BY <1>3
<1>5. ASSUME NEW y \in T PROVE x <= y
  <2>1. ~(y < x)
    BY <1>2, <1>4
  <2> QED
    BY <2>1
<1> QED
  BY <1>5

\* The next step is the first that is not completed.
LEMMA NextStepIsOpen ==
  ASSUME Done # Nodes
  PROVE  NextStep \in Nodes \ Done
<1>1. Nodes \ Done \in SUBSET Nat /\ Nodes \ Done # {}
  BY UpdateAssumption DEF Nodes, Done
<1>2. PICK n \in Nodes \ Done : \A m \in Nodes \ Done : n <= m
  BY <1>1, Least
<1>3. \A m \in 1..(n - 1) : m \in Done
  <2>1. SUFFICES ASSUME NEW m \in 1..(n - 1) PROVE m \in Done
    OBVIOUS
  <2>2. n \in 1..N /\ N \in Nat
    BY UpdateAssumption DEF Nodes
  <2>3. m \in Nodes /\ ~(n <= m)
    BY <2>2 DEF Nodes
  <2> QED
    BY <1>2, <2>3
<1> QED
  BY <1>2, <1>3 DEF NextStep

\* A step that was attempted has a last attempt.
LEMMA LastAttemptIsLast ==
  ASSUME attempts \in Seq(Attempt), NEW n, MyAttempts(n) # {}
  PROVE  LastAttempt(n) \in MyAttempts(n) /\ \A j \in MyAttempts(n) : j <= LastAttempt(n)
<1> DEFINE Bounds == {k \in Nat : \A j \in MyAttempts(n) : j <= k}
<1>1. MyAttempts(n) \subseteq 1..Len(attempts) /\ Len(attempts) \in Nat
  BY DEF MyAttempts
<1>2. Len(attempts) \in Bounds
  BY <1>1
<1>3. PICK k \in Bounds : \A l \in Bounds : k <= l
  BY <1>2, Least
<1>4. k \in MyAttempts(n)
  <2> SUFFICES ASSUME k \notin MyAttempts(n) PROVE FALSE
    OBVIOUS
  <2>1. PICK j \in MyAttempts(n) : TRUE
    OBVIOUS
  <2>2. j \in Nat /\ j >= 1 /\ j <= k
    BY <1>1
  <2>3. k - 1 \in Nat /\ \A l \in MyAttempts(n) : l <= k - 1
    BY <1>1, <2>2
  <2>4. k - 1 \in Bounds
    BY <2>3
  <2> QED
    BY <1>3, <2>2, <2>4
<1> QED
  BY <1>3, <1>4 DEF LastAttempt

LEMMA CertificatesDiffer ==
  /\ \A c \in Certificate : Observed(c) /\ ~Observing(c) /\ c # NoCheck
  /\ \A r \in [version : Nat, rev : Nat, pub : Nat, intent : [Nodes -> Values \cup {Undeclared}]] :
       Observing(r) /\ ~Observed(r) /\ r # NoCheck
  /\ ~Observing(NoCheck) /\ ~Observed(NoCheck)
BY DEF Observed, Observing, Certificate, NoCheck

\* While something is open, it is the request the answers are about.
LEMMA TheOneRequest ==
  ASSUME Unresolved # {}
  PROVE  TheRequest \in DOMAIN attempts /\ Open(TheRequest)
BY DEF TheRequest, Unresolved

\* A new attempt leaves the others alone.
LEMMA Recorded ==
  ASSUME attempts \in Seq(Attempt), NEW a \in Attempt, attempts' = Append(attempts, a)
  PROVE  /\ attempts' \in Seq(Attempt)
         /\ DOMAIN attempts' = 1..Len(attempts') /\ DOMAIN attempts = 1..Len(attempts)
         /\ Len(attempts) \in Nat /\ Len(attempts') = Len(attempts) + 1
         /\ attempts'[Len(attempts')] = a
         /\ \A i \in DOMAIN attempts : i \in DOMAIN attempts' /\ attempts'[i] = attempts[i]
         /\ \A i \in DOMAIN attempts' : i \in DOMAIN attempts \/ i = Len(attempts')
OBVIOUS

\* A settled attempt changes its status only.
LEMMA Settled ==
  ASSUME attempts \in Seq(Attempt), NEW i \in DOMAIN attempts,
         NEW s \in {"pending", "unknown", "applied", "no_effect"},
         attempts' = [attempts EXCEPT ![i].status = s]
  PROVE  /\ attempts' \in Seq(Attempt)
         /\ DOMAIN attempts' = DOMAIN attempts /\ Len(attempts') = Len(attempts)
         /\ attempts'[i].status = s
         /\ \A j \in DOMAIN attempts :
              /\ attempts'[j].run = attempts[j].run /\ attempts'[j].step = attempts[j].step
              /\ attempts'[j].key = attempts[j].key /\ attempts'[j].target = attempts[j].target
              /\ attempts'[j].seen = attempts[j].seen
              /\ j # i => attempts'[j] = attempts[j]
<1>1. attempts[i] \in Attempt
  OBVIOUS
<1>2. [attempts[i] EXCEPT !.status = s] \in Attempt
  BY <1>1 DEF Attempt
<1>3. /\ attempts' = [attempts EXCEPT ![i] = [attempts[i] EXCEPT !.status = s]]
      /\ attempts'[i] = [attempts[i] EXCEPT !.status = s]
  OBVIOUS
<1>4. attempts' \in Seq(Attempt) /\ DOMAIN attempts' = DOMAIN attempts /\ Len(attempts') = Len(attempts)
  BY <1>2, <1>3
<1>5. \A j \in DOMAIN attempts : j # i => attempts'[j] = attempts[j]
  OBVIOUS
<1>6. /\ attempts'[i].run = attempts[i].run /\ attempts'[i].step = attempts[i].step
      /\ attempts'[i].key = attempts[i].key /\ attempts'[i].target = attempts[i].target
      /\ attempts'[i].seen = attempts[i].seen /\ attempts'[i].status = s
  BY <1>1, <1>3 DEF Attempt
<1> QED
  BY <1>4, <1>5, <1>6

-------------------------------------------------------------------------------
(* Types *)

LEMMA Observations ==
  ASSUME TypeOK, NEW in \in [Nodes -> Values \cup {Undeclared}]
  PROVE  /\ Desired(in) \in [Nodes -> Values]
         /\ \A v, rv, p \in Nat :
              WithObservation([version |-> v, rev |-> rv, pub |-> p, intent |-> in]) \in Certificate
<1>1. Desired(in) \in [Nodes -> Values]
  BY UpdateAssumption DEF TypeOK, Desired, Observation
<1> QED
  BY <1>1 DEF TypeOK, WithObservation, Certificate

LEMMA AttemptTypes ==
  ASSUME TypeOK, NEW i \in DOMAIN attempts
  PROVE  /\ attempts[i] \in Attempt
         /\ attempts[i].run \in Nat /\ attempts[i].step \in Nodes /\ attempts[i].key \in Nat
         /\ attempts[i].target \in Values /\ attempts[i].seen \in Observation
         /\ attempts[i].seen.rv \in Nat /\ attempts[i].seen.value \in Values
         /\ attempts[i].status \in {"pending", "unknown", "applied", "no_effect"}
<1>1. attempts[i] \in Attempt
  BY DEF TypeOK
<1>2. attempts[i].seen \in Observation
  BY <1>1 DEF Attempt
<1> QED
  BY <1>1, <1>2 DEF Attempt, Observation

\* An open request that has taken effect is itself the one that did.
LEMMA OpenIsMade ==
  ASSUME TypeOK, OneRequestOpen, HistoryIsTrue,
         NEW i \in DOMAIN attempts, Open(i), KeyMade(i)
  PROVE  i \in made
<1>1. PICK j \in made : SameKey(i, j)
  BY DEF KeyMade
<1>2. j \in DOMAIN attempts /\ j \notin barred
  BY DEF TypeOK, HistoryIsTrue
<1>3. i = Len(attempts) /\ i \in Nat /\ j \in 1..Len(attempts)
  BY <1>2 DEF TypeOK, OneRequestOpen
<1>4. CASE j < i
  BY <1>1, <1>2, <1>4 DEF HistoryIsTrue, SameKey
<1> QED
  BY <1>3, <1>4

LEMMA TypeInit == Init => TypeOK
<1> SUFFICES ASSUME Init PROVE TypeOK
  OBVIOUS
<1>1. PICK v \in [Nodes -> Values] : fact = [n \in Nodes |-> [value |-> v[n], rv |-> 0]]
  BY DEF Init
<1>2. fact \in [Nodes -> Observation] /\ remote = fact
  BY <1>1 DEF Init, Observation
<1>3. attempts \in Seq(Attempt) /\ DOMAIN attempts = {}
  BY DEF Init
<1>4. published \in BOOLEAN /\ adopted \in BOOLEAN
  BY DEF Init
<1>5. status \in [Nodes -> {"ready", "dispatching", "unknown", "applied", "satisfied"}]
  BY DEF Init
<1>6. key \in [Nodes -> Nat]
  BY DEF Init
<1> QED
  BY <1>2, <1>3, <1>4, <1>5, <1>6 DEF Init, TypeOK

LEMMA TypeStep ==
  ASSUME TypeOK, CallsKnow, RunsAreWhole, OneRequestOpen, HistoryIsTrue, [Next]_vars
  PROVE  TypeOK'
<1> USE DEF TypeOK, draftVars, pubVars, checkVars, factVars, runVars, stepVars
<1>1. ASSUME NEW new \in [Nodes -> Values \cup {Undeclared}], Edit(new) PROVE TypeOK'
  <2>1. published' \in BOOLEAN /\ adopted' \in BOOLEAN
    BY <1>1 DEF Edit
  <2> QED
    BY <1>1, <2>1 DEF Edit
<1>2. CASE PreflightStart
  <2>1. adopted' \in BOOLEAN
    BY <1>2 DEF PreflightStart
  <2>2. round' \in [version : Nat, rev : Nat, pub : Nat, intent : [Nodes -> Values \cup {Undeclared}]]
                   \cup {NoCheck}
    BY <1>2 DEF PreflightStart
  <2> QED
    BY <1>2, <2>1, <2>2 DEF PreflightStart
<1>3. CASE PreflightInspect
  <2>1. round \in [version : Nat, rev : Nat, pub : Nat, intent : [Nodes -> Values \cup {Undeclared}]]
    BY <1>3, CertificatesDiffer DEF PreflightInspect
  <2>2. WithObservation(round) \in Certificate
    <3>1. round = [version |-> round.version, rev |-> round.rev, pub |-> round.pub, intent |-> round.intent]
      BY <2>1
    <3>2. /\ round.version \in Nat /\ round.rev \in Nat /\ round.pub \in Nat
          /\ round.intent \in [Nodes -> Values \cup {Undeclared}]
      BY <2>1
    <3> QED
      BY <3>1, <3>2, Observations
  <2> QED
    BY <1>3, <2>2 DEF PreflightInspect
<1>4. CASE PreflightFinish
  <2>1. round \in Certificate
    BY <1>4, CertificatesDiffer DEF PreflightFinish
  <2>2. adopted' \in BOOLEAN
    BY <1>4 DEF PreflightFinish
  <2> QED
    BY <1>4, <2>1, <2>2 DEF PreflightFinish
<1>5. CASE PreflightFails
  BY <1>5 DEF PreflightFails
<1>6. CASE PublishRead
  BY <1>6 DEF PublishRead
<1>7. CASE PublishAdopt
  <2>1. pc = "adopt" /\ check \in Certificate
    BY <1>7 DEF PublishAdopt, CallsKnow
  <2>2. adopted' \in BOOLEAN
    BY <1>7 DEF PublishAdopt
  <2>3. UNCHANGED <<version, intent, check, attempts, late, round, remote, made, barred>>
    BY <1>7 DEF PublishAdopt
  <2>4. CASE AdoptNoop
    <3>1. published' \in BOOLEAN
      BY <2>4 DEF AdoptNoop
    <3>2. fact' \in [Nodes -> Observation]
      BY <2>1, <2>4 DEF AdoptNoop, Certificate
    <3> QED
      BY <2>2, <2>3, <2>4, <3>1, <3>2 DEF AdoptNoop
  <2>5. CASE AdoptRun
    <3>1. published' \in BOOLEAN
      BY <2>5 DEF AdoptRun
    <3>2. status' \in [Nodes -> {"ready", "dispatching", "unknown", "applied", "satisfied"}]
          /\ key' \in [Nodes -> Nat]
      BY <2>5 DEF AdoptRun
    <3> QED
      BY <2>1, <2>2, <2>3, <2>5, <3>1, <3>2 DEF AdoptRun
  <2> QED
    BY <1>7, <2>4, <2>5 DEF PublishAdopt
<1>8. CASE Resume
  <2>1. pc' \in {"asking", "recheck", "loop"}
    BY <1>8 DEF Resume, Continue
  <2> QED
    BY <1>8, <2>1 DEF Resume
<1>9. ASSUME NEW v \in {"passed", "failed"}, Recheck(v) PROVE TypeOK'
  <2>1. adopted' \in BOOLEAN /\ round' = NoCheck
    BY <1>9 DEF Recheck
  <2>2. check' \in Certificate \cup {NoCheck} /\ pc' \in {"repair", "idle"}
    <3>1. CASE v = "passed"
      <4>1. check' = WithObservation([version |-> version, rev |-> rev, pub |-> pub, intent |-> intent])
            /\ pc' = "repair"
        BY <1>9, <3>1 DEF Recheck
      <4> QED
        BY <4>1, Observations
    <3>2. CASE v = "failed"
      BY <1>9, <3>2 DEF Recheck
    <3> QED
      BY <3>1, <3>2
  <2>3. runState' \in {runState, "blocked"}
    BY <1>9 DEF Recheck
  <2> QED
    BY <1>9, <2>1, <2>2, <2>3 DEF Recheck
<1>10. CASE AdoptRepair
  <2>1. check \in Certificate
    BY <1>10 DEF AdoptRepair, CallsKnow
  <2>2. adopted' \in BOOLEAN
    BY <1>10 DEF AdoptRepair
  <2>3. key' \in [Nodes -> Nat] /\ revision' \in Nat
    BY <1>10 DEF AdoptRepair, RepairedKey
  <2>4. status' \in [Nodes -> {"ready", "dispatching", "unknown", "applied", "satisfied"}]
    BY <1>10 DEF AdoptRepair
  <2> QED
    BY <1>10, <2>1, <2>2, <2>3, <2>4 DEF AdoptRepair
<1>11. CASE Drop
  <2>1. runState' \in {runState, "unknown", "blocked"}
    BY <1>11 DEF Drop
  <2> QED
    BY <1>11, <2>1 DEF Drop
<1>12. CASE ReadBack
  BY <1>12 DEF ReadBack
<1>13. CASE ReadBackFails
  BY <1>13 DEF ReadBackFails
<1>14. CASE Record
  <2>1. NextStep \in Nodes /\ runCert \in Certificate
    BY <1>14, NextStepIsOpen DEF Record, CallsKnow, RunsAreWhole
  <2> DEFINE a == [run |-> run, step |-> NextStep, key |-> key[NextStep],
                   target |-> runCert.target[NextStep],
                   seen |-> runCert.seen[NextStep], status |-> "pending"]
  <2>2. a \in Attempt
    BY <2>1 DEF Attempt, Certificate
  <2>3. attempts' = Append(attempts, a)
    BY <1>14 DEF Record
  <2> HIDE DEF a
  <2>4. attempts' \in Seq(Attempt) /\ DOMAIN attempts \subseteq DOMAIN attempts'
    BY <2>2, <2>3, Recorded
  <2>5. status' \in [Nodes -> {"ready", "dispatching", "unknown", "applied", "satisfied"}]
    BY <1>14, <2>1 DEF Record
  <2> QED
    BY <1>14, <2>4, <2>5 DEF Record
<1>15. CASE Satisfy
  <2>1. NextStep \in Nodes /\ runCert \in Certificate
    BY <1>15, NextStepIsOpen DEF Satisfy, CallsKnow, RunsAreWhole
  <2>2. runCert.seen[NextStep] \in Observation
    BY <2>1 DEF Certificate
  <2>3. fact' \in [Nodes -> Observation]
    BY <1>15, <2>1, <2>2 DEF Satisfy
  <2>4. status' \in [Nodes -> {"ready", "dispatching", "unknown", "applied", "satisfied"}]
    BY <1>15, <2>1 DEF Satisfy
  <2> QED
    BY <1>15, <2>3, <2>4 DEF Satisfy
<1>16. ASSUME NEW a \in {"applied", "unknown", "refused"}, Respond(a) PROVE TypeOK'
  <2>1. pc \in {"sent", "asking"}
    BY <1>16 DEF Respond
  <2>2. TheRequest \in DOMAIN attempts
    BY <2>1, TheOneRequest DEF CallsKnow
  <2> DEFINE i == TheRequest
  <2>3. UNCHANGED <<version, intent, published, pub, check, adopted, run, runCert, revision, key, late,
                    round, remote, made>>
    BY <1>16 DEF Respond
  <2>4. attempts[i] \in Attempt
    BY <2>2
  <2>5. Continue \in {"recheck", "loop"}
    BY DEF Continue
  <2> HIDE DEF i
  <2>6. CASE CommitApplied(i)
    <3>1. attempts' \in Seq(Attempt) /\ DOMAIN attempts' = DOMAIN attempts
      BY <2>2, <2>6, Settled DEF CommitApplied, i
    <3>2. status' \in [Nodes -> {"ready", "dispatching", "unknown", "applied", "satisfied"}]
      BY <2>4, <2>6 DEF CommitApplied, Attempt
    <3>3. [value |-> attempts[i].target, rv |-> attempts[i].seen.rv + 1] \in Observation
          /\ attempts[i].step \in Nodes
      <4>1. /\ attempts[i].target \in Values /\ attempts[i].seen \in Observation
            /\ attempts[i].step \in Nodes
        BY <2>4 DEF Attempt
      <4>2. attempts[i].seen.rv + 1 \in Nat
        BY <4>1 DEF Observation
      <4> QED
        BY <4>1, <4>2 DEF Observation
    <3>4. fact' \in [Nodes -> Observation]
      BY <2>6, <3>3 DEF CommitApplied
    <3> QED
      BY <2>3, <2>5, <2>6, <3>1, <3>2, <3>4 DEF CommitApplied
  <2>7. CASE CommitUnknown(i)
    <3>1. attempts' \in Seq(Attempt) /\ DOMAIN attempts' = DOMAIN attempts
      BY <2>2, <2>7, Settled DEF CommitUnknown, i
    <3>2. status' \in [Nodes -> {"ready", "dispatching", "unknown", "applied", "satisfied"}]
      BY <2>4, <2>7 DEF CommitUnknown, Attempt
    <3> QED
      BY <2>3, <2>7, <3>1, <3>2 DEF CommitUnknown
  <2>8. CASE CommitRefused(i)
    <3>1. attempts' \in Seq(Attempt) /\ DOMAIN attempts' = DOMAIN attempts
      BY <2>2, <2>8, Settled DEF CommitRefused, i
    <3>2. status' \in [Nodes -> {"ready", "dispatching", "unknown", "applied", "satisfied"}]
      BY <2>4, <2>8 DEF CommitRefused, Attempt
    <3>3. barred' \subseteq DOMAIN attempts
      BY <2>2, <2>8 DEF CommitRefused, i
    <3> QED
      BY <2>3, <2>5, <2>8, <3>1, <3>2, <3>3 DEF CommitRefused
  <2> QED
    BY <1>16, <2>6, <2>7, <2>8 DEF Respond, i
<1>17. CASE ReceiptLate
  <2>1. TheRequest \in DOMAIN attempts /\ Open(TheRequest)
    BY <1>17, TheOneRequest DEF ReceiptLate, CallsKnow
  <2>2. TheRequest \in made
    BY <1>17, <2>1, OpenIsMade DEF ReceiptLate
  <2> QED
    BY <1>17, <2>2 DEF ReceiptLate
<1>18. CASE Finish
  <2>1. published' \in BOOLEAN
    BY <1>18 DEF Finish
  <2> QED
    BY <1>18, <2>1 DEF Finish
<1>19. ASSUME NEW i \in DOMAIN attempts, Execute(i) PROVE TypeOK'
  <2>1. attempts[i] \in Attempt
    OBVIOUS
  <2>2. attempts[i].step \in Nodes /\ attempts[i].target \in Values
    BY <2>1 DEF Attempt
  <2>3. remote' \in [Nodes -> Observation]
    BY <1>19, <2>2 DEF Execute, Observation
  <2> QED
    BY <1>19, <2>3 DEF Execute
<1>20. ASSUME NEW n \in Nodes, NEW v \in Values, External(n, v) PROVE TypeOK'
  <2>1. remote' \in [Nodes -> Observation]
    BY <1>20 DEF External, Observation
  <2> QED
    BY <1>20, <2>1 DEF External
<1>21. CASE UNCHANGED vars
  BY <1>21 DEF vars
<1> QED
  BY <1>1, <1>2, <1>3, <1>4, <1>5, <1>6, <1>7, <1>8, <1>9, <1>10, <1>11, <1>12, <1>13, <1>14, <1>15,
     <1>16, <1>17, <1>18, <1>19, <1>20, <1>21 DEF Next, Call, Dispatch, Environment

-------------------------------------------------------------------------------
(* Most steps leave the history, the facts and the remote objects alone.      *)

Quiet ==
  /\ UNCHANGED <<run, runCert, revision, status, key, attempts, made, barred, rev, fact, remote>>
  /\ runState' # "published" => runState # "published"

\* The answer about open request i is committed.
Commits(i) ==
  /\ pc \in {"sent", "asking"} /\ i \in DOMAIN attempts /\ Open(i)
  /\ UNCHANGED <<draftVars, pubVars, checkVars, runVars, key, late, round, remote, made>>
  /\ \/ CommitApplied(i) /\ i \in made
     \/ CommitUnknown(i)
     \/ CommitRefused(i) /\ i \notin made

Loud ==
  \/ PublishAdopt \/ AdoptRepair \/ Record \/ Satisfy
  \/ \E i \in DOMAIN attempts : Commits(i) \/ Execute(i)
  \/ \E n \in Nodes, v \in Values : External(n, v)

LEMMA RespondCommits ==
  ASSUME UInv, NEW a, Respond(a)
  PROVE  Commits(TheRequest)
<1>1. TheRequest \in DOMAIN attempts /\ Open(TheRequest)
  BY TheOneRequest DEF UInv, CallsKnow, Respond
<1>2. KeyMade(TheRequest) => TheRequest \in made
  BY <1>1, OpenIsMade DEF UInv
<1>3. ~KeyMade(TheRequest) => TheRequest \notin made
  BY DEF KeyMade, SameKey
<1> QED
  BY <1>1, <1>2, <1>3 DEF Respond, Commits, MayAnswer

LEMMA QuietOrLoud ==
  ASSUME UInv, [Next]_vars
  PROVE  Quiet \/ Loud
<1> USE DEF Quiet, draftVars, pubVars, checkVars, factVars, runVars, stepVars
<1>1. ASSUME NEW new \in [Nodes -> Values \cup {Undeclared}], Edit(new) PROVE Quiet
  BY <1>1 DEF Edit
<1>2. CASE PreflightStart \/ PreflightInspect \/ PreflightFinish \/ PreflightFails
  BY <1>2 DEF PreflightStart, PreflightInspect, PreflightFinish, PreflightFails
<1>3. CASE PublishRead \/ Resume
  BY <1>3 DEF PublishRead, Resume
<1>4. ASSUME NEW v \in {"passed", "failed"}, Recheck(v) PROVE Quiet
  <2>1. runState # "published"
    BY <1>4 DEF Recheck, UInv, CallsKnow
  <2> QED
    BY <1>4, <2>1 DEF Recheck
<1>5. CASE Drop
  <2>1. pc \in {"loop", "record", "sent", "asking"} => runState # "published"
    BY DEF UInv, CallsKnow
  <2> QED
    BY <1>5, <2>1 DEF Drop
<1>6. CASE ReadBack \/ ReadBackFails \/ Finish
  BY <1>6 DEF ReadBack, ReadBackFails, Finish, UInv, CallsKnow
<1>7. CASE ReceiptLate
  BY <1>7 DEF ReceiptLate
<1>8. CASE UNCHANGED vars
  BY <1>8 DEF vars
<1>9. ASSUME NEW a, Respond(a) PROVE Loud
  <2>1. Commits(TheRequest) /\ TheRequest \in DOMAIN attempts
    BY <1>9, RespondCommits DEF Commits
  <2> QED
    BY <2>1 DEF Loud
<1> QED
  BY <1>1, <1>2, <1>3, <1>4, <1>5, <1>6, <1>7, <1>8, <1>9 DEF Next, Call, Dispatch, Environment, Loud

\* What recording a request does.
LEMMA RecordDoes ==
  ASSUME UInv, Record
  PROVE  \E n \in Nodes \ Done :
           LET a == [run |-> run, step |-> n, key |-> key[n], target |-> runCert.target[n],
                     seen |-> runCert.seen[n], status |-> "pending"]
           IN  /\ n = NextStep /\ a \in Attempt /\ attempts' = Append(attempts, a)
               /\ status' = [status EXCEPT ![n] = "dispatching"]
               /\ Done' = Done /\ Unresolved = {} /\ runCert \in Certificate
               /\ UNCHANGED <<run, runCert, revision, key, made, barred, rev, fact, remote>>
<1>1. NextStep \in Nodes \ Done /\ runCert \in Certificate /\ Unresolved = {}
  BY NextStepIsOpen DEF Record, UInv, TypeOK, CallsKnow, RunsAreWhole
<1> DEFINE n == NextStep
           a == [run |-> run, step |-> n, key |-> key[n], target |-> runCert.target[n],
                 seen |-> runCert.seen[n], status |-> "pending"]
<1>2. a \in Attempt
  BY <1>1 DEF Attempt, Certificate, UInv, TypeOK
<1>3. attempts' = Append(attempts, a) /\ status' = [status EXCEPT ![n] = "dispatching"]
  BY DEF Record
<1>4. UNCHANGED <<run, runCert, revision, key, made, barred, rev, fact, remote>>
  BY DEF Record, runVars, factVars
<1> HIDE DEF n
<1>5. n \in Nodes \ Done
  BY <1>1 DEF n
<1>6. Done' = Done
  BY <1>3, <1>5 DEF Done, UInv, TypeOK
<1> QED
  BY <1>1, <1>2, <1>3, <1>4, <1>5, <1>6 DEF n

\* What satisfying a noop does.
LEMMA SatisfyDoes ==
  ASSUME UInv, Satisfy
  PROVE  \E n \in Nodes \ Done :
           /\ fact' = [fact EXCEPT ![n] = runCert.seen[n]]
           /\ status' = [status EXCEPT ![n] = "satisfied"]
           /\ Done' = Done \cup {n} /\ Unresolved = {} /\ runCert \in Certificate
           /\ runCert.target[n] = runCert.seen[n].value
           /\ rev' = rev + 1 /\ pc' = "loop" /\ UNCHANGED pubVars
           /\ UNCHANGED <<runCert, run, revision, runState, key, attempts, made, barred, remote>>
<1>1. NextStep \in Nodes \ Done /\ runCert \in Certificate /\ Unresolved = {}
  BY NextStepIsOpen DEF Satisfy, UInv, TypeOK, CallsKnow, RunsAreWhole
<1> DEFINE n == NextStep
<1>2. /\ fact' = [fact EXCEPT ![n] = runCert.seen[n]]
      /\ status' = [status EXCEPT ![n] = "satisfied"]
      /\ runCert.target[n] = runCert.seen[n].value
      /\ rev' = rev + 1 /\ pc' = "loop" /\ UNCHANGED pubVars
      /\ UNCHANGED <<runCert, run, revision, runState, key, attempts, made, barred, remote>>
  BY DEF Satisfy, runVars, IsUpdate
<1> HIDE DEF n
<1>3. n \in Nodes \ Done
  BY <1>1 DEF n
<1>4. Done' = Done \cup {n}
  BY <1>2, <1>3 DEF Done, UInv, TypeOK
<1> QED
  BY <1>1, <1>2, <1>3, <1>4

\* What an answer does to the history; only the confirmed one completes the step.
LEMMA CommitDoes ==
  ASSUME UInv, NEW i \in DOMAIN attempts, Commits(i)
  PROVE  /\ attempts[i] \in Attempt /\ attempts' \in Seq(Attempt)
         /\ Open(i) /\ i = Len(attempts) /\ attempts[i].run = run
         /\ attempts[i].key = key[attempts[i].step] /\ attempts[i].step \notin Done
         /\ DOMAIN attempts' = DOMAIN attempts /\ Len(attempts') = Len(attempts)
         /\ \A j \in DOMAIN attempts :
              /\ attempts'[j].run = attempts[j].run /\ attempts'[j].step = attempts[j].step
              /\ attempts'[j].key = attempts[j].key /\ attempts'[j].target = attempts[j].target
              /\ attempts'[j].seen = attempts[j].seen
              /\ j # i => attempts'[j] = attempts[j] /\ ~Open(j)
         /\ UNCHANGED <<run, runCert, revision, key, made, remote>>
         /\ \/ CommitApplied(i) /\ i \in made /\ attempts'[i].status = "applied"
               /\ Done' = Done \cup {attempts[i].step}
            \/ CommitUnknown(i) /\ attempts'[i].status = "unknown" /\ Done' = Done
            \/ CommitRefused(i) /\ i \notin made /\ attempts'[i].status = "no_effect" /\ Done' = Done
<1>1. attempts \in Seq(Attempt) /\ attempts[i] \in Attempt /\ attempts[i].step \in Nodes
  <2>1. attempts \in Seq(Attempt) /\ attempts[i] \in Attempt
    BY DEF UInv, TypeOK
  <2> QED
    BY <2>1 DEF Attempt
<1>2. /\ i = Len(attempts) /\ attempts[i].run = run /\ Open(i)
      /\ attempts[i].key = key[attempts[i].step] /\ attempts[i].step \notin Done
  BY DEF Commits, UInv, OneRequestOpen
<1>3. \A j \in DOMAIN attempts : Open(j) => j = i
  BY <1>2 DEF UInv, OneRequestOpen
<1>4. UNCHANGED <<run, runCert, revision, key, made, remote>>
  BY DEF Commits, runVars
<1>5. CASE CommitApplied(i) /\ i \in made
  <2>1. attempts' = [attempts EXCEPT ![i].status = "applied"]
    BY <1>5 DEF CommitApplied
  <2>2. Done' = Done \cup {attempts[i].step}
    BY <1>1, <1>2, <1>5 DEF CommitApplied, Done, UInv, TypeOK
  <2> QED
    BY <1>1, <1>2, <1>3, <1>4, <1>5, <2>1, <2>2, Settled
<1>6. CASE CommitUnknown(i)
  <2>1. attempts' = [attempts EXCEPT ![i].status = "unknown"]
    BY <1>6 DEF CommitUnknown
  <2>2. Done' = Done
    BY <1>1, <1>2, <1>6 DEF CommitUnknown, Done, UInv, TypeOK
  <2> QED
    BY <1>1, <1>2, <1>3, <1>4, <1>6, <2>1, <2>2, Settled
<1>7. CASE CommitRefused(i) /\ i \notin made
  <2>1. attempts' = [attempts EXCEPT ![i].status = "no_effect"]
    BY <1>7 DEF CommitRefused
  <2>2. Done' = Done
    BY <1>1, <1>2, <1>7 DEF CommitRefused, Done, UInv, TypeOK
  <2> QED
    BY <1>1, <1>2, <1>3, <1>4, <1>7, <2>1, <2>2, Settled
<1> QED
  BY <1>5, <1>6, <1>7 DEF Commits

\* What adopting a repair does.
LEMMA RepairDoes ==
  ASSUME UInv, AdoptRepair
  PROVE  /\ check \in Certificate /\ runCert' = check /\ check.rev = rev /\ Unresolved = {}
         /\ runState # "published" /\ Protects(check.intent)
         /\ revision' = revision + 1
         /\ Done' = Done
         /\ \A n \in Nodes : /\ key'[n] = RepairedKey(n)
                             /\ n \in Done => key'[n] = key[n] /\ status'[n] = status[n]
                             /\ status'[n] = "applied" => n \in Done
         /\ UNCHANGED <<run, attempts, made, barred, rev, fact, remote>>
<1>1. /\ check \in Certificate /\ runCert' = check /\ check.rev = rev /\ Unresolved = {}
      /\ runState # "published" /\ Protects(check.intent)
      /\ revision' = revision + 1
  BY DEF AdoptRepair, UInv, TypeOK, CallsKnow
<1>2. UNCHANGED <<run, attempts, made, barred, rev, fact, remote>>
  BY DEF AdoptRepair, factVars
<1>3. /\ key' = [n \in Nodes |-> RepairedKey(n)]
      /\ status' = [n \in Nodes |-> IF n \in Done THEN status[n] ELSE "ready"]
  BY DEF AdoptRepair
<1>4. \A n \in Nodes : /\ key'[n] = RepairedKey(n)
                       /\ n \in Done => key'[n] = key[n] /\ status'[n] = status[n]
                       /\ status'[n] = "applied" => n \in Done
  BY <1>3 DEF RepairedKey
<1>5. Done' = Done
  BY <1>3 DEF Done
<1> QED
  BY <1>1, <1>2, <1>4, <1>5

\* An effect, and what becomes of remote objects.
LEMMA ExecuteDoes ==
  ASSUME UInv, NEW i \in DOMAIN attempts, Execute(i)
  PROVE  /\ Open(i) /\ i \notin made /\ i \notin barred /\ made' = made \cup {i}
         /\ attempts[i] \in Attempt
         /\ remote' = [remote EXCEPT ![attempts[i].step] =
                         [value |-> attempts[i].target, rv |-> remote[attempts[i].step].rv + 1]]
         /\ Cas => remote[attempts[i].step].rv = attempts[i].seen.rv
         /\ UNCHANGED <<run, runState, runCert, revision, status, key, attempts, barred, rev, fact>>
         /\ UNCHANGED <<version, intent, published, pub, check, adopted, round, pc>>
<1>1. i \notin barred /\ ~KeyMade(i) /\ made' = made \cup {i}
  BY DEF Execute
<1>2. attempts[i] \in Attempt
  BY DEF UInv, TypeOK
<1>3. i \notin made
  BY <1>1 DEF KeyMade, SameKey
<1>4. Open(i)
  BY <1>1, <1>2, <1>3 DEF Open, Attempt, UInv, HistoryIsTrue
<1> QED
  BY <1>1, <1>2, <1>3, <1>4
     DEF Execute, draftVars, pubVars, checkVars, factVars, runVars, stepVars

-------------------------------------------------------------------------------
(* The history *)

LEMMA OneRequestStep ==
  ASSUME UInv, Quiet \/ Loud
  PROVE  OneRequestOpen'
<1> USE DEF UInv
<1>1. CASE Quiet
  BY <1>1 DEF Quiet, OneRequestOpen, Open, Done
<1>2. CASE PublishAdopt
  <2>1. \A i \in DOMAIN attempts : ~Open(i)
    BY <1>2 DEF PublishAdopt, Unresolved
  <2>2. UNCHANGED attempts
    BY <1>2 DEF PublishAdopt
  <2> QED
    BY <2>1, <2>2 DEF OneRequestOpen, Open
<1>3. CASE AdoptRepair
  <2>1. \A i \in DOMAIN attempts : ~Open(i)
    BY <1>3, RepairDoes DEF Unresolved
  <2>2. UNCHANGED attempts
    BY <1>3, RepairDoes
  <2> QED
    BY <2>1, <2>2 DEF OneRequestOpen, Open
<1>4. CASE Record
  <2>1. PICK n \in Nodes \ Done :
           LET a == [run |-> run, step |-> n, key |-> key[n], target |-> runCert.target[n],
                     seen |-> runCert.seen[n], status |-> "pending"]
           IN  /\ a \in Attempt /\ attempts' = Append(attempts, a)
               /\ Done' = Done /\ Unresolved = {} /\ UNCHANGED <<run, key>>
    BY <1>4, RecordDoes
  <2>2. /\ attempts'[Len(attempts')].run = run' /\ attempts'[Len(attempts')].step = n
        /\ attempts'[Len(attempts')].key = key'[n] /\ n \notin Done'
        /\ \A i \in DOMAIN attempts' : i # Len(attempts') => i \in DOMAIN attempts /\ attempts'[i] = attempts[i]
    BY <2>1, Recorded DEF TypeOK
  <2>3. \A i \in DOMAIN attempts : ~Open(i)
    BY <2>1 DEF Unresolved
  <2> QED
    BY <2>2, <2>3 DEF OneRequestOpen, Open
<1>5. CASE Satisfy
  <2>1. Unresolved = {} /\ UNCHANGED attempts
    BY <1>5, SatisfyDoes
  <2> QED
    BY <2>1 DEF OneRequestOpen, Open, Unresolved
<1>6. ASSUME NEW i \in DOMAIN attempts, Commits(i) PROVE OneRequestOpen'
  <2>1. SUFFICES ASSUME NEW j \in DOMAIN attempts', Open(j)'
                 PROVE  /\ j = Len(attempts') /\ attempts'[j].run = run'
                        /\ attempts'[j].key = key'[attempts'[j].step]
                        /\ attempts'[j].step \notin Done'
    BY DEF OneRequestOpen
  <2>2. j = i
    BY <1>6, <2>1, CommitDoes DEF Open
  <2>3. attempts'[i].status = "unknown" /\ Done' = Done
    BY <1>6, <2>1, <2>2, CommitDoes DEF Open
  <2> QED
    BY <1>6, <2>2, <2>3, CommitDoes
<1>7. ASSUME NEW i \in DOMAIN attempts, Execute(i) PROVE OneRequestOpen'
  <2>1. UNCHANGED <<run, status, key, attempts>>
    BY <1>7, ExecuteDoes
  <2> QED
    BY <2>1 DEF OneRequestOpen, Open, Done
<1>8. ASSUME NEW n \in Nodes, NEW v \in Values, External(n, v) PROVE OneRequestOpen'
  <2>1. UNCHANGED <<run, status, key, attempts>>
    BY <1>8 DEF External, runVars, stepVars
  <2> QED
    BY <2>1 DEF OneRequestOpen, Open, Done
<1> QED
  BY <1>1, <1>2, <1>3, <1>4, <1>5, <1>6, <1>7, <1>8 DEF Loud

\* What starting a run does to the history: nothing of it is about the new one.
LEMMA AdoptDoes ==
  ASSUME UInv, PublishAdopt
  PROVE  /\ UNCHANGED <<version, intent, attempts, made, barred, remote, check>>
         /\ check \in Certificate /\ check.version = version /\ check.rev = rev
         /\ runState = "published" /\ Unresolved = {}
         /\ \/ AdoptNoop /\ UNCHANGED <<run, runCert, revision, runState, status, key>>
            \/ AdoptRun /\ run' = run + 1 /\ revision' = 0 /\ Done' = {} /\ UNCHANGED <<rev, fact>>
<1>1. /\ UNCHANGED <<version, intent, attempts, made, barred, remote, check>>
      /\ check \in Certificate /\ check.version = version /\ check.rev = rev
      /\ runState = "published" /\ Unresolved = {}
  BY DEF PublishAdopt, UInv, TypeOK, CallsKnow, draftVars
<1>2. CASE AdoptNoop
  BY <1>1, <1>2 DEF AdoptNoop, runVars, stepVars
<1>3. CASE AdoptRun
  <2>1. Done' = {}
    BY <1>3 DEF AdoptRun, Done
  <2> QED
    BY <1>1, <1>3, <2>1 DEF AdoptRun, factVars
<1> QED
  BY <1>2, <1>3 DEF PublishAdopt

\* The order of the attempts of one step.
Ordered ==
  \A i, j \in DOMAIN attempts :
    i < j /\ attempts[i].run = attempts[j].run /\ attempts[i].step = attempts[j].step
    => attempts[i].status = "no_effect" /\ attempts[i].key <= attempts[j].key

Evident(n) ==
  \E i \in DOMAIN attempts : /\ attempts[i].run = run /\ attempts[i].step = n
                             /\ attempts[i].key = key[n] /\ attempts[i].status = "applied"

Meant(i) ==
  /\ attempts[i].run <= run
  /\ attempts[i].status = "no_effect" => i \in barred
  /\ attempts[i].status = "applied" =>
       i \in made /\ (attempts[i].run = run => attempts[i].step \in Done)

LEMMA HistoryParts ==
  /\ HistoryIsTrue <=> /\ made \cap barred = {} /\ Ordered
                       /\ \A i \in DOMAIN attempts : Meant(i)
                       /\ run > 0 => \A n \in Nodes : status[n] = "applied" => Evident(n)
  /\ HistoryIsTrue' <=> /\ made' \cap barred' = {} /\ Ordered'
                        /\ \A i \in DOMAIN attempts' : Meant(i)'
                        /\ run' > 0 => \A n \in Nodes : status'[n] = "applied" => Evident(n)'
BY DEF HistoryIsTrue, Ordered, Evident, Meant

LEMMA HistoryStep ==
  ASSUME UInv, TypeOK', Quiet \/ Loud
  PROVE  HistoryIsTrue'
<1>0. /\ made \cap barred = {} /\ Ordered
      /\ \A i \in DOMAIN attempts : Meant(i)
      /\ run > 0 => \A n \in Nodes : status[n] = "applied" => Evident(n)
  BY HistoryParts DEF UInv
<1>1. CASE Quiet
  BY <1>1 DEF UInv, Quiet, HistoryIsTrue, Done
<1>2. CASE PublishAdopt
  <2>1. UNCHANGED <<attempts, made, barred>>
    BY <1>2, AdoptDoes
  <2>2. Ordered'
    BY <1>0, <2>1 DEF Ordered
  <2>3. CASE UNCHANGED <<run, status, key>>
    BY <2>1, <2>3 DEF UInv, HistoryIsTrue, Done
  <2>4. CASE AdoptRun /\ run' = run + 1
    <3>1. ASSUME NEW i \in DOMAIN attempts PROVE Meant(i)'
      <4>1. attempts[i].run \in Nat /\ run \in Nat
        BY AttemptTypes DEF UInv, TypeOK
      <4> QED
        BY <1>0, <2>1, <2>4, <4>1 DEF Meant
    <3>2. \A n \in Nodes : status'[n] # "applied"
      BY <2>4 DEF AdoptRun
    <3> QED
      BY <1>0, <2>1, <2>2, <3>1, <3>2, HistoryParts
  <2> QED
    BY <1>2, <2>3, <2>4, AdoptDoes
<1>3. CASE AdoptRepair
  <2>1. UNCHANGED <<run, attempts, made, barred>> /\ Done' = Done
    BY <1>3, RepairDoes
  <2>2. Ordered' /\ \A i \in DOMAIN attempts' : Meant(i)'
    BY <1>0, <2>1 DEF Ordered, Meant
  <2>3. ASSUME NEW n \in Nodes, status'[n] = "applied", run' > 0 PROVE Evident(n)'
    <3>1. key'[n] = key[n] /\ status[n] = "applied"
      BY <1>3, <2>3, RepairDoes
    <3> QED
      BY <1>0, <2>1, <2>3, <3>1 DEF Evident
  <2> QED
    BY <1>0, <2>1, <2>2, <2>3, HistoryParts
<1>4. CASE Record
  <2>1. PICK n \in Nodes \ Done :
           LET a == [run |-> run, step |-> n, key |-> key[n], target |-> runCert.target[n],
                     seen |-> runCert.seen[n], status |-> "pending"]
           IN  /\ a \in Attempt /\ attempts' = Append(attempts, a)
               /\ status' = [status EXCEPT ![n] = "dispatching"]
               /\ Done' = Done /\ Unresolved = {} /\ UNCHANGED <<run, key, made, barred>>
    BY <1>4, RecordDoes
  <2> DEFINE l == Len(attempts')
  <2>2. /\ attempts'[l].run = run /\ attempts'[l].step = n
        /\ attempts'[l].key = key[n] /\ attempts'[l].status = "pending"
        /\ \A i \in DOMAIN attempts' : i # l => i \in DOMAIN attempts /\ attempts'[i] = attempts[i]
        /\ \A i \in DOMAIN attempts : i \in DOMAIN attempts' /\ attempts'[i] = attempts[i] /\ i < l
        /\ DOMAIN attempts' = 1..l /\ l \in Nat
    BY <2>1, Recorded DEF UInv, TypeOK
  <2> HIDE DEF l
  <2>3. ASSUME NEW i \in DOMAIN attempts, attempts[i].run = run, attempts[i].step = n
        PROVE  attempts[i].status = "no_effect" /\ attempts[i].key <= key[n]
    <3>1. ~Open(i) /\ attempts[i].status # "applied"
      BY <1>0, <2>1, <2>3 DEF Unresolved, Meant
    <3>2. attempts[i] \in Attempt
      BY DEF UInv, TypeOK
    <3> QED
      BY <2>3, <3>1, <3>2 DEF Open, Attempt, UInv, KeysAreCurrent
  <2>4. Ordered'
    <3> SUFFICES ASSUME NEW i \in DOMAIN attempts', NEW j \in DOMAIN attempts', i < j,
                        attempts'[i].run = attempts'[j].run, attempts'[i].step = attempts'[j].step
                 PROVE  attempts'[i].status = "no_effect" /\ attempts'[i].key <= attempts'[j].key
      BY DEF Ordered
    <3>1. i # l
      BY <2>2
    <3>2. CASE j = l
      BY <2>2, <2>3, <3>1, <3>2
    <3>3. CASE j # l
      BY <1>0, <2>2, <3>1, <3>3 DEF Ordered
    <3> QED
      BY <3>2, <3>3
  <2>5. ASSUME NEW i \in DOMAIN attempts' PROVE Meant(i)'
    <3>1. CASE i = l
      BY <2>1, <2>2, <3>1 DEF Meant, UInv, TypeOK
    <3>2. CASE i # l
      BY <1>0, <2>1, <2>2, <3>2 DEF Meant
    <3> QED
      BY <3>1, <3>2
  <2>6. ASSUME NEW m \in Nodes, status'[m] = "applied", run' > 0 PROVE Evident(m)'
    <3>1. status[m] = "applied"
      BY <2>1, <2>6 DEF UInv, TypeOK
    <3> QED
      BY <1>0, <2>1, <2>2, <2>6, <3>1 DEF Evident
  <2> QED
    BY <1>0, <2>1, <2>4, <2>5, <2>6, HistoryParts
<1>5. CASE Satisfy
  <2>1. PICK n \in Nodes \ Done :
           /\ status' = [status EXCEPT ![n] = "satisfied"] /\ Done' = Done \cup {n}
           /\ UNCHANGED <<run, key, attempts, made, barred>>
    BY <1>5, SatisfyDoes
  <2>2. Ordered' /\ \A i \in DOMAIN attempts' : Meant(i)'
    BY <1>0, <2>1 DEF Ordered, Meant
  <2>3. ASSUME NEW m \in Nodes, status'[m] = "applied", run' > 0 PROVE Evident(m)'
    <3>1. status[m] = "applied"
      BY <2>1, <2>3 DEF UInv, TypeOK
    <3> QED
      BY <1>0, <2>1, <2>3, <3>1 DEF Evident
  <2> QED
    BY <1>0, <2>1, <2>2, <2>3, HistoryParts
<1>6. ASSUME NEW i \in DOMAIN attempts, Commits(i) PROVE HistoryIsTrue'
  <2>1. /\ attempts[i] \in Attempt /\ i = Len(attempts) /\ Open(i)
        /\ attempts[i].run = run /\ attempts[i].key = key[attempts[i].step]
        /\ DOMAIN attempts' = DOMAIN attempts
        /\ \A j \in DOMAIN attempts :
             /\ attempts'[j].run = attempts[j].run /\ attempts'[j].step = attempts[j].step
             /\ attempts'[j].key = attempts[j].key
             /\ j # i => attempts'[j] = attempts[j]
        /\ UNCHANGED <<run, key, made>>
    BY <1>6, CommitDoes
  <2>2. DOMAIN attempts = 1..Len(attempts) /\ Len(attempts) \in Nat
    BY DEF UInv, TypeOK
  <2>3. Ordered'
    BY <1>0, <2>1, <2>2 DEF Ordered
  <2>4. /\ Done \subseteq Done' /\ barred \subseteq barred'
        /\ attempts'[i].status = "no_effect" => i \in barred'
        /\ attempts'[i].status = "applied" => i \in made /\ attempts[i].step \in Done'
        /\ made' \cap barred' = {}
    <3>1. CASE CommitApplied(i) /\ i \in made /\ attempts'[i].status = "applied"
               /\ Done' = Done \cup {attempts[i].step}
      BY <1>0, <2>1, <3>1 DEF CommitApplied
    <3>2. CASE CommitUnknown(i) /\ attempts'[i].status = "unknown" /\ Done' = Done
      BY <1>0, <2>1, <3>2 DEF CommitUnknown
    <3>3. CASE CommitRefused(i) /\ i \notin made /\ attempts'[i].status = "no_effect" /\ Done' = Done
      BY <1>0, <2>1, <3>3 DEF CommitRefused
    <3> QED
      BY <1>6, <3>1, <3>2, <3>3, CommitDoes
  <2>5. ASSUME NEW j \in DOMAIN attempts' PROVE Meant(j)'
    BY <1>0, <2>1, <2>4 DEF Meant
  <2>6. ASSUME NEW m \in Nodes, status'[m] = "applied", run' > 0 PROVE Evident(m)'
    <3>1. CASE m = attempts[i].step
      <4>1. attempts'[i].status = "applied"
        <5>1. attempts[i].step \in Nodes
          BY <2>1 DEF Attempt
        <5> QED
          BY <1>6, <2>6, <3>1, <5>1, CommitDoes DEF CommitUnknown, CommitRefused, UInv, TypeOK
      <4> QED
        BY <2>1, <3>1, <4>1 DEF Evident
    <3>2. CASE m # attempts[i].step
      <4>1. status'[m] = status[m]
        <5>1. \/ status' = [status EXCEPT ![attempts[i].step] = "applied"]
              \/ status' = [status EXCEPT ![attempts[i].step] = "unknown"]
              \/ status' = [status EXCEPT ![attempts[i].step] = "ready"]
          BY <1>6 DEF Commits, CommitApplied, CommitUnknown, CommitRefused
        <5> QED
          BY <3>2, <5>1 DEF UInv, TypeOK
      <4>2. PICK k \in DOMAIN attempts : /\ attempts[k].run = run /\ attempts[k].step = m
                                         /\ attempts[k].key = key[m] /\ attempts[k].status = "applied"
        BY <1>0, <2>1, <2>6, <4>1 DEF Evident
      <4>3. k # i
        BY <2>1, <3>2, <4>2
      <4> QED
        BY <2>1, <3>2, <4>3, <4>2 DEF Evident
    <3> QED
      BY <3>1, <3>2
  <2> QED
    BY <2>3, <2>4, <2>5, <2>6, HistoryParts
<1>7. ASSUME NEW i \in DOMAIN attempts, Execute(i) PROVE HistoryIsTrue'
  <2>1. /\ UNCHANGED <<run, status, key, attempts, barred>> /\ made' = made \cup {i} /\ i \notin barred
    BY <1>7, ExecuteDoes
  <2> QED
    BY <2>1 DEF UInv, HistoryIsTrue, Done
<1>8. ASSUME NEW n \in Nodes, NEW v \in Values, External(n, v) PROVE HistoryIsTrue'
  <2>1. UNCHANGED <<run, status, key, attempts, made, barred>>
    BY <1>8 DEF External, runVars, stepVars
  <2> QED
    BY <2>1 DEF UInv, HistoryIsTrue, Done
<1> QED
  BY <1>1, <1>2, <1>3, <1>4, <1>5, <1>6, <1>7, <1>8 DEF Loud

-------------------------------------------------------------------------------
(* The keys *)

\* Attempt i asks for what its run would ask for now, if its key is in use.
Asks(i) ==
  LET n == attempts[i].step IN
  attempts[i].run = run =>
    /\ attempts[i].key <= key[n]
    /\ n \notin Done /\ attempts[i].key = key[n] =>
         attempts[i].target = runCert.target[n] /\ attempts[i].seen = runCert.seen[n]

LEMMA KeyParts ==
  /\ KeysAreCurrent <=> (\A n \in Nodes : key[n] <= revision) /\ \A i \in DOMAIN attempts : Asks(i)
  /\ KeysAreCurrent' <=>
       (\A n \in Nodes : key'[n] <= revision') /\ \A i \in DOMAIN attempts' : Asks(i)'
BY DEF KeysAreCurrent, Asks

\* A repair that keeps the key of an attempted step keeps what was asked for.
LEMMA KeptKey ==
  ASSUME UInv, NEW i \in DOMAIN attempts, attempts[i].run = run,
         attempts[i].step \notin Done, attempts[i].key = RepairedKey(attempts[i].step)
  PROVE  attempts[i].target = check.target[attempts[i].step]
         /\ attempts[i].seen = check.seen[attempts[i].step]
<1> DEFINE n == attempts[i].step
<1>1. /\ n \in Nodes /\ attempts[i].key \in Nat /\ revision \in Nat /\ key[n] \in Nat
      /\ attempts \in Seq(Attempt)
  BY AttemptTypes DEF UInv, TypeOK
<1>2. i \in MyAttempts(n)
  BY DEF MyAttempts
<1> HIDE DEF n
<1>3. attempts[i].key <= key[n] /\ key[n] <= revision
  BY <1>1 DEF n, UInv, KeysAreCurrent
<1>4. attempts[i].key # revision + 1
  BY <1>1, <1>3
<1>5. /\ attempts[i].key = key[n]
      /\ check.target[n] = runCert.target[n]
      /\ check.seen[n] = attempts[LastAttempt(n)].seen
  BY <1>2, <1>4 DEF RepairedKey, n
<1>6. /\ LastAttempt(n) \in DOMAIN attempts /\ i <= LastAttempt(n)
      /\ attempts[LastAttempt(n)].run = run /\ attempts[LastAttempt(n)].step = n
  <2>1. LastAttempt(n) \in MyAttempts(n) /\ i <= LastAttempt(n)
    BY <1>1, <1>2, LastAttemptIsLast
  <2> QED
    BY <2>1 DEF MyAttempts
<1> DEFINE l == LastAttempt(n)
<1> HIDE DEF l
<1>7. attempts[l].key = key[n]
  <2>1. attempts[l].key <= key[n] /\ attempts[l].key \in Nat
    BY <1>6, AttemptTypes DEF l, UInv, KeysAreCurrent
  <2>2. i < l => attempts[i].key <= attempts[l].key
    BY <1>6 DEF l, n, UInv, HistoryIsTrue
  <2>3. i \in Nat /\ l \in Nat
    BY <1>1, <1>6 DEF l
  <2> QED
    BY <1>1, <1>5, <1>6, <2>1, <2>2, <2>3 DEF l
<1>8. attempts[l].seen = runCert.seen[n] /\ attempts[i].seen = runCert.seen[n]
      /\ attempts[i].target = runCert.target[n]
  BY <1>5, <1>6, <1>7 DEF l, n, UInv, KeysAreCurrent
<1> QED
  BY <1>5, <1>8 DEF l, n

LEMMA KeyStep ==
  ASSUME UInv, TypeOK', Quiet \/ Loud
  PROVE  KeysAreCurrent'
<1>0. (\A n \in Nodes : key[n] <= revision) /\ \A i \in DOMAIN attempts : Asks(i)
  BY KeyParts DEF UInv
<1>1. CASE Quiet
  BY <1>1 DEF UInv, Quiet, KeysAreCurrent, Done
<1>2. CASE PublishAdopt
  <2>1. UNCHANGED attempts
    BY <1>2, AdoptDoes
  <2>2. CASE UNCHANGED <<run, runCert, revision, status, key>>
    BY <2>1, <2>2 DEF UInv, KeysAreCurrent, Done
  <2>3. CASE AdoptRun /\ run' = run + 1 /\ revision' = 0
    <3>1. \A n \in Nodes : key'[n] <= revision'
      BY <2>3 DEF AdoptRun
    <3>2. ASSUME NEW i \in DOMAIN attempts PROVE attempts[i].run # run'
      <4>1. attempts[i].run <= run /\ attempts[i].run \in Nat /\ run \in Nat
        BY AttemptTypes DEF UInv, HistoryIsTrue, TypeOK
      <4> QED
        BY <2>3, <4>1
    <3> QED
      BY <2>1, <3>1, <3>2 DEF KeysAreCurrent
  <2> QED
    BY <1>2, <2>2, <2>3, AdoptDoes
<1>3. CASE AdoptRepair
  <2>1. /\ runCert' = check /\ revision' = revision + 1 /\ Done' = Done
        /\ \A n \in Nodes : key'[n] = RepairedKey(n)
        /\ UNCHANGED <<run, attempts>>
    BY <1>3, RepairDoes
  <2>2. \A n \in Nodes : key[n] <= key'[n] /\ key'[n] <= revision'
    <3>1. SUFFICES ASSUME NEW n \in Nodes PROVE key[n] <= key'[n] /\ key'[n] <= revision'
      OBVIOUS
    <3>2. key'[n] \in {key[n], revision + 1}
      BY <2>1 DEF RepairedKey
    <3>3. key[n] \in Nat /\ revision \in Nat /\ key[n] <= revision
      BY <1>0 DEF UInv, TypeOK
    <3> QED
      BY <2>1, <3>2, <3>3
  <2>3. ASSUME NEW i \in DOMAIN attempts PROVE Asks(i)'
    <3>1. attempts[i].step \in Nodes /\ attempts[i].key \in Nat
      BY AttemptTypes DEF UInv
    <3>2. attempts[i].run = run => attempts[i].key <= key'[attempts[i].step]
      <4>1. /\ key[attempts[i].step] \in Nat /\ key'[attempts[i].step] \in Nat
            /\ key[attempts[i].step] <= key'[attempts[i].step]
        BY <2>2, <3>1 DEF UInv, TypeOK
      <4> QED
        BY <1>0, <3>1, <4>1 DEF Asks
    <3>3. attempts[i].run = run /\ attempts[i].step \notin Done
          /\ attempts[i].key = key'[attempts[i].step] =>
            attempts[i].target = check.target[attempts[i].step]
            /\ attempts[i].seen = check.seen[attempts[i].step]
      BY <2>1, <3>1, KeptKey
    <3> QED
      BY <2>1, <3>2, <3>3 DEF Asks
  <2> QED
    BY <2>1, <2>2, <2>3, KeyParts
<1>4. CASE Record
  <2>1. PICK n \in Nodes \ Done :
           LET a == [run |-> run, step |-> n, key |-> key[n], target |-> runCert.target[n],
                     seen |-> runCert.seen[n], status |-> "pending"]
           IN  /\ a \in Attempt /\ attempts' = Append(attempts, a)
               /\ Done' = Done /\ UNCHANGED <<run, runCert, revision, key>>
    BY <1>4, RecordDoes
  <2> DEFINE l == Len(attempts')
  <2>2. /\ attempts'[l].run = run /\ attempts'[l].step = n /\ attempts'[l].key = key[n]
        /\ attempts'[l].target = runCert.target[n] /\ attempts'[l].seen = runCert.seen[n]
        /\ \A i \in DOMAIN attempts' : i # l => i \in DOMAIN attempts /\ attempts'[i] = attempts[i]
    BY <2>1, Recorded DEF UInv, TypeOK
  <2> HIDE DEF l
  <2>3. key[n] <= key[n]
    BY DEF UInv, TypeOK
  <2>4. ASSUME NEW i \in DOMAIN attempts' PROVE Asks(i)'
    <3>1. CASE i = l
      BY <2>1, <2>2, <2>3, <3>1 DEF Asks
    <3>2. CASE i # l
      BY <1>0, <2>1, <2>2, <3>2 DEF Asks
    <3> QED
      BY <3>1, <3>2
  <2> QED
    BY <1>0, <2>1, <2>4, KeyParts
<1>5. CASE Satisfy
  <2>1. PICK n \in Nodes : Done' = Done \cup {n} /\ UNCHANGED <<run, runCert, revision, key, attempts>>
    BY <1>5, SatisfyDoes
  <2> QED
    BY <1>0, <2>1, KeyParts DEF Asks
<1>6. ASSUME NEW i \in DOMAIN attempts, Commits(i) PROVE KeysAreCurrent'
  <2>1. /\ DOMAIN attempts' = DOMAIN attempts
        /\ \A j \in DOMAIN attempts :
             /\ attempts'[j].run = attempts[j].run /\ attempts'[j].step = attempts[j].step
             /\ attempts'[j].key = attempts[j].key /\ attempts'[j].target = attempts[j].target
             /\ attempts'[j].seen = attempts[j].seen
        /\ UNCHANGED <<run, runCert, revision, key>>
    BY <1>6, CommitDoes
  <2>2. Done \subseteq Done'
    BY <1>6, CommitDoes
  <2>3. \A j \in DOMAIN attempts' : Asks(j)'
    BY <1>0, <2>1, <2>2 DEF Asks
  <2> QED
    BY <1>0, <2>1, <2>3, KeyParts
<1>7. ASSUME NEW i \in DOMAIN attempts, Execute(i) PROVE KeysAreCurrent'
  <2>1. UNCHANGED <<run, runCert, revision, status, key, attempts>>
    BY <1>7, ExecuteDoes
  <2> QED
    BY <2>1 DEF UInv, KeysAreCurrent, Done
<1>8. ASSUME NEW n \in Nodes, NEW v \in Values, External(n, v) PROVE KeysAreCurrent'
  <2>1. UNCHANGED <<run, runCert, revision, status, key, attempts>>
    BY <1>8 DEF External, runVars, stepVars
  <2> QED
    BY <2>1 DEF UInv, KeysAreCurrent, Done
<1> QED
  BY <1>1, <1>2, <1>3, <1>4, <1>5, <1>6, <1>7, <1>8 DEF Loud

LEMMA KeyIdentityStep ==
  ASSUME UInv, Quiet \/ Loud
  PROVE  KeyIdentifiesUpdate'
<1>1. CASE UNCHANGED attempts
  BY <1>1 DEF UInv, KeyIdentifiesUpdate, SameKey
<1>2. CASE Record
  <2>1. PICK n \in Nodes \ Done :
           LET a == [run |-> run, step |-> n, key |-> key[n], target |-> runCert.target[n],
                     seen |-> runCert.seen[n], status |-> "pending"]
           IN  a \in Attempt /\ attempts' = Append(attempts, a)
    BY <1>2, RecordDoes
  <2> DEFINE l == Len(attempts')
  <2>2. /\ attempts'[l].run = run /\ attempts'[l].step = n /\ attempts'[l].key = key[n]
        /\ attempts'[l].target = runCert.target[n] /\ attempts'[l].seen = runCert.seen[n]
        /\ \A i \in DOMAIN attempts' : i # l => i \in DOMAIN attempts /\ attempts'[i] = attempts[i]
    BY <2>1, Recorded DEF UInv, TypeOK
  <2> HIDE DEF l
  <2>3. ASSUME NEW i \in DOMAIN attempts,
               attempts[i].run = run, attempts[i].step = n, attempts[i].key = key[n]
        PROVE  attempts[i].target = runCert.target[n] /\ attempts[i].seen = runCert.seen[n]
    BY <2>3 DEF UInv, KeysAreCurrent
  <2>4. ASSUME NEW i \in DOMAIN attempts', NEW j \in DOMAIN attempts', SameKey(i, j)'
        PROVE  attempts'[i].target = attempts'[j].target /\ attempts'[i].seen = attempts'[j].seen
    <3>1. CASE i = l \/ j = l
      BY <2>2, <2>3, <2>4, <3>1 DEF SameKey
    <3>2. CASE i # l /\ j # l
      BY <2>2, <2>4, <3>2 DEF SameKey, UInv, KeyIdentifiesUpdate
    <3> QED
      BY <3>1, <3>2
  <2> QED
    BY <2>4 DEF KeyIdentifiesUpdate
<1>3. ASSUME NEW i \in DOMAIN attempts, Commits(i) PROVE KeyIdentifiesUpdate'
  <2>1. /\ DOMAIN attempts' = DOMAIN attempts
        /\ \A j \in DOMAIN attempts :
             /\ attempts'[j].run = attempts[j].run /\ attempts'[j].step = attempts[j].step
             /\ attempts'[j].key = attempts[j].key /\ attempts'[j].target = attempts[j].target
             /\ attempts'[j].seen = attempts[j].seen
    BY <1>3, CommitDoes
  <2> QED
    BY <2>1 DEF UInv, KeyIdentifiesUpdate, SameKey
<1>4. CASE Quiet \/ PublishAdopt \/ AdoptRepair \/ Satisfy
  BY <1>1, <1>4 DEF Quiet, PublishAdopt, AdoptRepair, Satisfy
<1>5. ASSUME NEW i \in DOMAIN attempts, Execute(i) PROVE KeyIdentifiesUpdate'
  BY <1>1, <1>5 DEF Execute
<1>6. ASSUME NEW n \in Nodes, NEW v \in Values, External(n, v) PROVE KeyIdentifiesUpdate'
  BY <1>1, <1>6 DEF External
<1> QED
  BY <1>2, <1>3, <1>4, <1>5, <1>6 DEF Loud

-------------------------------------------------------------------------------
(* The facts *)

\* A remote object only ever moves to its next version.
RemoteMoves ==
  \/ UNCHANGED remote
  \/ \E m \in Nodes, v \in Values :
       remote' = [remote EXCEPT ![m] = [value |-> v, rv |-> remote[m].rv + 1]]

LEMMA RemoteStep ==
  ASSUME UInv, Quiet \/ Loud
  PROVE  RemoteMoves
<1>1. CASE Quiet \/ PublishAdopt \/ AdoptRepair \/ Record \/ Satisfy
  BY <1>1 DEF Quiet, PublishAdopt, AdoptRepair, Record, Satisfy, RemoteMoves
<1>2. ASSUME NEW i \in DOMAIN attempts, Commits(i) PROVE RemoteMoves
  BY <1>2 DEF Commits, RemoteMoves
<1>3. ASSUME NEW i \in DOMAIN attempts, Execute(i) PROVE RemoteMoves
  BY <1>3, ExecuteDoes, AttemptTypes DEF RemoteMoves, UInv
<1>4. ASSUME NEW n \in Nodes, NEW v \in Values, External(n, v) PROVE RemoteMoves
  BY <1>4 DEF External, RemoteMoves
<1> QED
  BY <1>1, <1>2, <1>3, <1>4 DEF Loud

\* Seen, of the objects after the step.
SeenNext(o, n) == o.rv <= remote'[n].rv /\ (o.rv = remote'[n].rv => o.value = remote'[n].value)

\* What was true of a remote object stays true of the version it was about.
LEMMA SeenStays ==
  ASSUME TypeOK, RemoteMoves, NEW n \in Nodes, NEW o, o.rv \in Nat, Seen(o, n)
  PROVE  SeenNext(o, n)
<1>1. remote[n].rv \in Nat
  BY DEF TypeOK, Observation
<1>2. CASE UNCHANGED remote
  BY <1>2 DEF Seen, SeenNext
<1>3. ASSUME NEW m \in Nodes, NEW v \in Values,
             remote' = [remote EXCEPT ![m] = [value |-> v, rv |-> remote[m].rv + 1]]
      PROVE  SeenNext(o, n)
  <2>1. remote'[n].rv = remote[n].rv + 1 \/ remote'[n] = remote[n]
    BY <1>3 DEF TypeOK
  <2> QED
    BY <1>1, <2>1 DEF Seen, SeenNext
<1> QED
  BY <1>2, <1>3 DEF RemoteMoves

FactsSeen == \A n \in Nodes : Seen(fact[n], n)
ConditionsSeen == \A i \in DOMAIN attempts : Seen(attempts[i].seen, attempts[i].step)
EffectsSeen ==
  \A i \in made :
    Seen([value |-> attempts[i].target, rv |-> attempts[i].seen.rv + 1], attempts[i].step)
BaselineOK ==
  runState # "published" =>
    \A n \in Nodes : IF n \in Done
                     THEN runCert.intent[n] \in {Undeclared, fact[n].value}
                     ELSE runCert.seen[n].rv >= fact[n].rv

LEMMA FactParts ==
  /\ FactsAreTrue <=> FactsSeen /\ ConditionsSeen /\ EffectsSeen /\ BaselineOK
  /\ FactsAreTrue' <=> FactsSeen' /\ ConditionsSeen' /\ EffectsSeen' /\ BaselineOK'
BY DEF FactsAreTrue, FactsSeen, ConditionsSeen, EffectsSeen, BaselineOK

\* An applied answer is about the node's present observation.
LEMMA AnswerIsCurrent ==
  ASSUME UInv, NEW i \in DOMAIN attempts, Commits(i)
  PROVE  LET n == attempts[i].step IN
           /\ n \in Nodes /\ n \notin Done /\ runState # "published" /\ runCert \in Certificate
           /\ attempts[i].target = runCert.target[n] /\ attempts[i].seen = runCert.seen[n]
           /\ attempts[i].seen.rv >= fact[n].rv
<1> DEFINE n == attempts[i].step
<1>1. n \in Nodes /\ n \notin Done /\ attempts[i].run = run /\ attempts[i].key = key[n]
  BY CommitDoes, AttemptTypes DEF UInv
<1>2. runState # "published" /\ runCert \in Certificate
  BY DEF Commits, UInv, CallsKnow, RunsAreWhole, TypeOK
<1>3. attempts[i].target = runCert.target[n] /\ attempts[i].seen = runCert.seen[n]
  BY <1>1 DEF UInv, KeysAreCurrent
<1>4. runCert.seen[n].rv >= fact[n].rv
  BY <1>1, <1>2 DEF UInv, FactsAreTrue
<1> QED
  BY <1>1, <1>2, <1>3, <1>4

\* How the facts move: to a newer observation or receipt, one that is true.
LEMMA FactMoves ==
  ASSUME UInv, Quiet \/ Loud, NEW n \in Nodes
  PROVE  /\ fact'[n].rv >= fact[n].rv /\ fact'[n].rv \in Nat /\ Seen(fact'[n], n)
         /\ UNCHANGED <<rev, fact>> \/ rev' = rev + 1
<1>0. /\ fact[n].rv \in Nat /\ Seen(fact[n], n) /\ rev \in Nat
      /\ fact[n].rv >= fact[n].rv
  BY DEF UInv, TypeOK, Observation, FactsAreTrue
<1>1. CASE UNCHANGED <<rev, fact>>
  BY <1>0, <1>1
<1>2. CASE PublishAdopt
  <2>1. CASE AdoptNoop
    <3>1. /\ check \in Certificate /\ check.rev = rev /\ Sound(check)
          /\ fact'[n] = check.seen[n] /\ rev' = rev + 1
      BY <1>2, <2>1, AdoptDoes, CertificatesDiffer DEF AdoptNoop, UInv, ChecksAreSound
    <3>2. check.seen[n].rv \in Nat
      BY <3>1 DEF Certificate, Observation
    <3> QED
      BY <3>1, <3>2 DEF Sound
  <2> QED
    BY <1>1, <1>2, <2>1, AdoptDoes
<1>3. CASE Satisfy
  <2>1. PICK m \in Nodes \ Done :
          /\ fact' = [fact EXCEPT ![m] = runCert.seen[m]] /\ rev' = rev + 1
          /\ runCert \in Certificate
    BY <1>3, SatisfyDoes
  <2>2. CASE m = n
    <3>1. fact'[n] = runCert.seen[n] /\ Sound(runCert) /\ runState # "published"
      BY <1>3, <2>1, <2>2, CertificatesDiffer DEF UInv, TypeOK, ChecksAreSound, Satisfy, CallsKnow
    <3>2. runCert.seen[n].rv \in Nat
      BY <2>1 DEF Certificate, Observation
    <3>3. runCert.seen[n].rv >= fact[n].rv
      BY <2>1, <2>2, <3>1 DEF UInv, FactsAreTrue
    <3> QED
      BY <2>1, <3>1, <3>2, <3>3 DEF Sound
  <2>3. CASE m # n
    <3>1. fact'[n] = fact[n]
      BY <2>1, <2>3 DEF UInv, TypeOK
    <3> QED
      BY <1>0, <2>1, <3>1
  <2> QED
    BY <2>2, <2>3
<1>4. ASSUME NEW i \in DOMAIN attempts, CommitApplied(i), i \in made, Commits(i)
      PROVE  /\ fact'[n].rv >= fact[n].rv /\ fact'[n].rv \in Nat /\ Seen(fact'[n], n)
             /\ rev' = rev + 1
  <2>1. /\ fact' = [fact EXCEPT ![attempts[i].step] =
                      [value |-> attempts[i].target, rv |-> attempts[i].seen.rv + 1]]
        /\ rev' = rev + 1
    BY <1>4 DEF CommitApplied
  <2>2. CASE attempts[i].step = n
    <3>1. fact'[n] = [value |-> attempts[i].target, rv |-> attempts[i].seen.rv + 1]
      BY <2>1, <2>2 DEF UInv, TypeOK
    <3>2. attempts[i].seen.rv \in Nat /\ attempts[i].seen.rv >= fact[n].rv
      BY <1>4, <2>2, AnswerIsCurrent, AttemptTypes DEF UInv
    <3>3. Seen(fact'[n], n)
      BY <1>4, <2>2, <3>1 DEF UInv, FactsAreTrue
    <3>4. fact'[n].rv = attempts[i].seen.rv + 1
      BY <3>1
    <3> QED
      BY <1>0, <2>1, <3>2, <3>3, <3>4
  <2>3. CASE attempts[i].step # n
    <3>1. fact'[n] = fact[n]
      BY <2>1, <2>3 DEF UInv, TypeOK
    <3> QED
      BY <1>0, <2>1, <3>1
  <2> QED
    BY <2>2, <2>3
<1>5. ASSUME NEW i \in DOMAIN attempts, Commits(i), ~(CommitApplied(i) /\ i \in made)
      PROVE  UNCHANGED <<rev, fact>>
  BY <1>5 DEF Commits, CommitUnknown, CommitRefused, factVars
<1>6. ASSUME NEW i \in DOMAIN attempts, Execute(i) PROVE UNCHANGED <<rev, fact>>
  BY <1>6, ExecuteDoes
<1>7. CASE Quiet \/ AdoptRepair \/ Record
  BY <1>1, <1>7 DEF Quiet, AdoptRepair, Record, factVars
<1>8. ASSUME NEW m \in Nodes, NEW v \in Values, External(m, v) PROVE UNCHANGED <<rev, fact>>
  BY <1>8 DEF External, factVars
<1> QED
  BY <1>1, <1>2, <1>3, <1>4, <1>5, <1>6, <1>7, <1>8 DEF Loud

LEMMA FactsSeenStep ==
  ASSUME UInv, Quiet \/ Loud
  PROVE  FactsSeen'
<1> SUFFICES ASSUME NEW n \in Nodes PROVE Seen(fact[n], n)'
  BY DEF FactsSeen
<1>1. SeenNext(fact'[n], n)
  BY FactMoves, RemoteStep, SeenStays DEF UInv
<1> QED
  BY <1>1 DEF Seen, SeenNext

LEMMA ConditionsSeenStep ==
  ASSUME UInv, Quiet \/ Loud
  PROVE  ConditionsSeen'
<1> SUFFICES ASSUME NEW i \in DOMAIN attempts' PROVE Seen(attempts[i].seen, attempts[i].step)'
  BY DEF ConditionsSeen
<1>0. RemoteMoves /\ TypeOK
  BY RemoteStep DEF UInv
<1>1. ASSUME i \in DOMAIN attempts, attempts'[i].seen = attempts[i].seen, attempts'[i].step = attempts[i].step
      PROVE  Seen(attempts[i].seen, attempts[i].step)'
  <2>1. /\ attempts[i].step \in Nodes /\ attempts[i].seen.rv \in Nat
        /\ Seen(attempts[i].seen, attempts[i].step)
    BY <1>0, <1>1, AttemptTypes DEF UInv, FactsAreTrue
  <2>2. SeenNext(attempts[i].seen, attempts[i].step)
    BY <1>0, <2>1, SeenStays
  <2> QED
    BY <1>1, <2>2 DEF Seen, SeenNext
<1>2. CASE UNCHANGED attempts
  BY <1>1, <1>2
<1>3. CASE Record
  <2>1. PICK n \in Nodes \ Done :
           LET a == [run |-> run, step |-> n, key |-> key[n], target |-> runCert.target[n],
                     seen |-> runCert.seen[n], status |-> "pending"]
           IN  /\ a \in Attempt /\ attempts' = Append(attempts, a) /\ runCert \in Certificate
               /\ UNCHANGED remote
    BY <1>3, RecordDoes
  <2> DEFINE l == Len(attempts')
  <2>2. /\ attempts'[l].step = n /\ attempts'[l].seen = runCert.seen[n]
        /\ i # l => i \in DOMAIN attempts /\ attempts'[i] = attempts[i]
    BY <1>0, <2>1, Recorded DEF TypeOK
  <2> HIDE DEF l
  <2>3. Seen(runCert.seen[n], n)
    BY <2>1, CertificatesDiffer DEF UInv, ChecksAreSound, Sound
  <2> QED
    BY <1>1, <2>1, <2>2, <2>3 DEF Seen
<1>4. ASSUME NEW k \in DOMAIN attempts, Commits(k) PROVE Seen(attempts[i].seen, attempts[i].step)'
  BY <1>1, <1>4, CommitDoes
<1>5. CASE Quiet \/ PublishAdopt \/ AdoptRepair \/ Satisfy
  BY <1>2, <1>5 DEF Quiet, PublishAdopt, AdoptRepair, Satisfy
<1>6. ASSUME NEW k \in DOMAIN attempts, Execute(k) PROVE UNCHANGED attempts
  BY <1>6 DEF Execute
<1>7. ASSUME NEW n \in Nodes, NEW v \in Values, External(n, v) PROVE UNCHANGED attempts
  BY <1>7 DEF External
<1> QED
  BY <1>2, <1>3, <1>4, <1>5, <1>6, <1>7 DEF Loud

LEMMA EffectsSeenStep ==
  ASSUME UInv, Quiet \/ Loud
  PROVE  EffectsSeen'
<1> SUFFICES ASSUME NEW i \in made'
             PROVE  Seen([value |-> attempts[i].target, rv |-> attempts[i].seen.rv + 1],
                         attempts[i].step)'
  BY DEF EffectsSeen
<1>0. RemoteMoves /\ TypeOK /\ made \subseteq DOMAIN attempts
  BY RemoteStep DEF UInv, TypeOK
<1> DEFINE o == [value |-> attempts[i].target, rv |-> attempts[i].seen.rv + 1]
<1>1. ASSUME i \in made, attempts'[i].target = attempts[i].target,
             attempts'[i].seen = attempts[i].seen, attempts'[i].step = attempts[i].step
      PROVE  Seen(o, attempts[i].step)'
  <2>1. attempts[i].step \in Nodes /\ attempts[i].seen.rv \in Nat
    BY <1>0, <1>1, AttemptTypes
  <2>2. o.rv \in Nat
    BY <2>1
  <2>3. Seen(o, attempts[i].step)
    BY <1>1 DEF UInv, FactsAreTrue
  <2> HIDE DEF o
  <2>4. SeenNext(o, attempts[i].step)
    BY <1>0, <2>1, <2>2, <2>3, SeenStays
  <2> QED
    BY <1>1, <2>4 DEF Seen, SeenNext, o
<1>2. CASE UNCHANGED <<made, attempts>>
  BY <1>1, <1>2
<1>3. CASE Record
  <2>1. PICK n \in Nodes \ Done :
           LET a == [run |-> run, step |-> n, key |-> key[n], target |-> runCert.target[n],
                     seen |-> runCert.seen[n], status |-> "pending"]
           IN  a \in Attempt /\ attempts' = Append(attempts, a) /\ UNCHANGED made
    BY <1>3, RecordDoes
  <2>2. \A k \in DOMAIN attempts : attempts'[k] = attempts[k]
    BY <1>0, <2>1, Recorded DEF TypeOK
  <2> QED
    BY <1>0, <1>1, <2>1, <2>2
<1>4. ASSUME NEW k \in DOMAIN attempts, Commits(k) PROVE Seen(o, attempts[i].step)'
  <2>1. /\ UNCHANGED made
        /\ \A j \in DOMAIN attempts :
             /\ attempts'[j].step = attempts[j].step /\ attempts'[j].target = attempts[j].target
             /\ attempts'[j].seen = attempts[j].seen
    BY <1>4, CommitDoes
  <2> QED
    BY <1>0, <1>1, <2>1
<1>5. CASE Quiet \/ PublishAdopt \/ AdoptRepair \/ Satisfy
  BY <1>2, <1>5 DEF Quiet, PublishAdopt, AdoptRepair, Satisfy
<1>6. ASSUME NEW k \in DOMAIN attempts, Execute(k) PROVE Seen(o, attempts[i].step)'
  <2>1. /\ made' = made \cup {k} /\ UNCHANGED attempts
        /\ remote' = [remote EXCEPT ![attempts[k].step] =
                        [value |-> attempts[k].target, rv |-> remote[attempts[k].step].rv + 1]]
    BY <1>6, ExecuteDoes
  <2>2. CASE i \in made
    BY <1>1, <2>1, <2>2
  <2>3. CASE i = k
    <3>1. /\ attempts[k].step \in Nodes /\ attempts[k].seen.rv \in Nat
          /\ Seen(attempts[k].seen, attempts[k].step)
      BY <1>0, AttemptTypes DEF UInv, FactsAreTrue
    <3>2. remote[attempts[k].step].rv \in Nat
      BY <1>0, <3>1 DEF TypeOK, Observation
    <3>3. remote'[attempts[k].step] =
            [value |-> attempts[k].target, rv |-> remote[attempts[k].step].rv + 1]
      BY <1>0, <2>1, <3>1 DEF TypeOK
    <3>4. /\ remote'[attempts[k].step].value = attempts[k].target
          /\ remote'[attempts[k].step].rv = remote[attempts[k].step].rv + 1
      BY <3>3
    <3>5. attempts[k].seen.rv + 1 <= remote'[attempts[k].step].rv
      BY <3>1, <3>2, <3>4 DEF Seen
    <3> QED
      BY <2>1, <2>3, <3>4, <3>5 DEF Seen
  <2> QED
    BY <2>1, <2>2, <2>3
<1>7. ASSUME NEW n \in Nodes, NEW v \in Values, External(n, v) PROVE UNCHANGED <<made, attempts>>
  BY <1>7 DEF External
<1> QED
  BY <1>2, <1>3, <1>4, <1>5, <1>6, <1>7 DEF Loud

\* What a run has completed is as its author wants; what it has not was observed
\* after the latest fact.
LEMMA BaselineStep ==
  ASSUME UInv, TypeOK', Quiet \/ Loud
  PROVE  BaselineOK'
<1> SUFFICES ASSUME runState' # "published", NEW n \in Nodes
             PROVE  IF n \in Done' THEN runCert'.intent[n] \in {Undeclared, fact'[n].value}
                                   ELSE runCert'.seen[n].rv >= fact'[n].rv
  BY DEF BaselineOK
<1>0. ASSUME runState # "published"
      PROVE  IF n \in Done THEN runCert.intent[n] \in {Undeclared, fact[n].value}
                           ELSE runCert.seen[n].rv >= fact[n].rv
  BY <1>0 DEF UInv, FactsAreTrue
<1>1. CASE Quiet
  BY <1>0, <1>1 DEF Quiet, Done
<1>2. CASE PublishAdopt
  <2>1. /\ AdoptRun /\ Done' = {} /\ UNCHANGED fact
        /\ check \in Certificate /\ check.rev = rev
    BY <1>2, AdoptDoes
  <2>2. runCert' = check /\ Sound(check)
    BY <2>1, CertificatesDiffer DEF AdoptRun, UInv, ChecksAreSound
  <2> QED
    BY <2>1, <2>2 DEF Sound
<1>3. CASE AdoptRepair
  <2>1. /\ check \in Certificate /\ runCert' = check /\ check.rev = rev /\ Sound(check)
        /\ runState # "published" /\ Protects(check.intent)
        /\ Done' = Done /\ UNCHANGED fact
    BY <1>3, RepairDoes, CertificatesDiffer DEF UInv, ChecksAreSound
  <2> QED
    BY <1>0, <2>1 DEF Sound, Protects
<1>4. CASE Record
  <2>1. Done' = Done /\ UNCHANGED <<runCert, fact>> /\ runState # "published"
    BY <1>4, RecordDoes DEF Record, UInv, CallsKnow
  <2> QED
    BY <1>0, <2>1
<1>5. CASE Satisfy
  <2>1. PICK m \in Nodes \ Done :
          /\ fact' = [fact EXCEPT ![m] = runCert.seen[m]]
          /\ Done' = Done \cup {m} /\ runCert \in Certificate
          /\ runCert.target[m] = runCert.seen[m].value
          /\ UNCHANGED <<runState, runCert>>
    BY <1>5, SatisfyDoes
  <2>2. CASE m = n
    <3>1. fact'[n] = runCert.seen[n] /\ n \in Done' /\ runCert' = runCert
      BY <2>1, <2>2 DEF UInv, TypeOK
    <3>2. runCert.intent[n] # Undeclared => runCert.target[n] = runCert.intent[n]
      BY <2>1, CertificatesDiffer DEF UInv, ChecksAreSound, Sound
    <3> QED
      BY <2>1, <2>2, <3>1, <3>2
  <2>3. CASE m # n
    <3>1. fact'[n] = fact[n]
      BY <2>1, <2>3 DEF UInv, TypeOK
    <3> QED
      BY <1>0, <2>1, <2>3, <3>1
  <2> QED
    BY <2>2, <2>3
<1>6. ASSUME NEW i \in DOMAIN attempts, Commits(i)
      PROVE  IF n \in Done' THEN runCert'.intent[n] \in {Undeclared, fact'[n].value}
                            ELSE runCert'.seen[n].rv >= fact'[n].rv
  <2>1. /\ runState # "published" /\ runCert \in Certificate /\ UNCHANGED runCert
        /\ attempts[i].target = runCert.target[attempts[i].step]
    BY <1>6, AnswerIsCurrent, CommitDoes
  <2>2. CASE CommitApplied(i) /\ Done' = Done \cup {attempts[i].step}
    <3>1. CASE attempts[i].step = n
      <4>1. fact'[n].value = attempts[i].target /\ n \in Done'
        BY <2>2, <3>1 DEF CommitApplied, UInv, TypeOK
      <4>2. runCert.intent[n] # Undeclared => runCert.target[n] = runCert.intent[n]
        BY <2>1, CertificatesDiffer DEF UInv, ChecksAreSound, Sound
      <4> QED
        BY <2>1, <3>1, <4>1, <4>2
    <3>2. CASE attempts[i].step # n
      <4>1. fact'[n] = fact[n]
        BY <2>2, <3>2 DEF CommitApplied, UInv, TypeOK
      <4> QED
        BY <1>0, <2>1, <2>2, <3>2, <4>1
    <3> QED
      BY <3>1, <3>2
  <2>3. CASE Done' = Done /\ UNCHANGED fact
    BY <1>0, <2>1, <2>3
  <2> QED
    BY <1>6, <2>2, <2>3, CommitDoes DEF CommitUnknown, CommitRefused, factVars
<1>7. ASSUME NEW i \in DOMAIN attempts, Execute(i)
      PROVE  UNCHANGED <<runState, status, runCert, fact>>
  BY <1>7, ExecuteDoes
<1>8. ASSUME NEW m \in Nodes, NEW v \in Values, External(m, v)
      PROVE  UNCHANGED <<runState, status, runCert, fact>>
  BY <1>8 DEF External, runVars, stepVars, factVars
<1>9. CASE UNCHANGED <<runState, status, runCert, fact>>
  BY <1>0, <1>9 DEF Done
<1> QED
  BY <1>1, <1>2, <1>3, <1>4, <1>5, <1>6, <1>7, <1>8, <1>9 DEF Loud

LEMMA NotOlderStep ==
  ASSUME UInv, Quiet \/ Loud
  PROVE  NotOlderThanWrites'
<1> SUFFICES ASSUME NEW i \in made', ~Open(i)'
             PROVE  fact'[attempts'[i].step].rv > attempts'[i].seen.rv
  BY DEF NotOlderThanWrites
<1>0. made \subseteq DOMAIN attempts /\ TypeOK
  BY DEF UInv, TypeOK
<1>1. ASSUME i \in made, ~Open(i), attempts'[i].seen = attempts[i].seen, attempts'[i].step = attempts[i].step
      PROVE  fact'[attempts'[i].step].rv > attempts'[i].seen.rv
  <2>1. /\ attempts[i].step \in Nodes /\ attempts[i].seen.rv \in Nat
        /\ fact[attempts[i].step].rv > attempts[i].seen.rv
    BY <1>0, <1>1, AttemptTypes DEF UInv, NotOlderThanWrites
  <2>2. /\ fact'[attempts[i].step].rv >= fact[attempts[i].step].rv
        /\ fact'[attempts[i].step].rv \in Nat
    BY <2>1, FactMoves
  <2>3. fact[attempts[i].step].rv \in Nat
    BY <1>0, <2>1 DEF TypeOK, Observation
  <2> QED
    BY <1>1, <2>1, <2>2, <2>3
<1>2. CASE UNCHANGED <<made, attempts>>
  BY <1>1, <1>2 DEF Open
<1>3. CASE Record
  <2>1. PICK n \in Nodes \ Done :
           LET a == [run |-> run, step |-> n, key |-> key[n], target |-> runCert.target[n],
                     seen |-> runCert.seen[n], status |-> "pending"]
           IN  a \in Attempt /\ attempts' = Append(attempts, a) /\ UNCHANGED made
    BY <1>3, RecordDoes
  <2>2. \A k \in DOMAIN attempts : attempts'[k] = attempts[k]
    BY <1>0, <2>1, Recorded DEF TypeOK
  <2> QED
    BY <1>0, <1>1, <2>1, <2>2 DEF Open
<1>4. ASSUME NEW k \in DOMAIN attempts, Commits(k)
      PROVE  fact'[attempts'[i].step].rv > attempts'[i].seen.rv
  <2>1. /\ UNCHANGED made
        /\ \A j \in DOMAIN attempts :
             /\ attempts'[j].step = attempts[j].step /\ attempts'[j].seen = attempts[j].seen
             /\ j # k => attempts'[j] = attempts[j] /\ ~Open(j)
    BY <1>4, CommitDoes
  <2>2. CASE i # k
    BY <1>0, <1>1, <2>1, <2>2
  <2>3. CASE i = k
    <3>1. CommitApplied(k)
      BY <1>4, <2>1, <2>3, CommitDoes DEF Open
    <3>2. attempts[k].step \in Nodes /\ attempts[k].seen.rv \in Nat
      BY <1>0, AttemptTypes
    <3>3. fact'[attempts[k].step].rv = attempts[k].seen.rv + 1
      BY <1>0, <3>1, <3>2 DEF CommitApplied, TypeOK
    <3> QED
      BY <2>1, <2>3, <3>2, <3>3
  <2> QED
    BY <2>2, <2>3
<1>5. CASE Quiet \/ PublishAdopt \/ AdoptRepair \/ Satisfy
  BY <1>2, <1>5 DEF Quiet, PublishAdopt, AdoptRepair, Satisfy
<1>6. ASSUME NEW k \in DOMAIN attempts, Execute(k)
      PROVE  fact'[attempts'[i].step].rv > attempts'[i].seen.rv
  <2>1. made' = made \cup {k} /\ UNCHANGED attempts /\ Open(k)
    BY <1>6, ExecuteDoes
  <2>2. i # k
    BY <2>1 DEF Open
  <2> QED
    BY <1>1, <2>1, <2>2 DEF Open
<1>7. ASSUME NEW n \in Nodes, NEW v \in Values, External(n, v) PROVE UNCHANGED <<made, attempts>>
  BY <1>7 DEF External
<1> QED
  BY <1>2, <1>3, <1>4, <1>5, <1>6, <1>7 DEF Loud

-------------------------------------------------------------------------------
(* The checks *)

Unobserved == [version : Nat, rev : Nat, pub : Nat, intent : [Nodes -> Values \cup {Undeclared}]]

\* Dated and Sound, of the state after the step.
DatedNext(c) ==
  /\ c.version <= version' /\ c.rev <= rev'
  /\ c.version = version' => c.intent = intent'

SoundNext(c) ==
  /\ DatedNext(c)
  /\ \A n \in Nodes : /\ SeenNext(c.seen[n], n)
                      /\ c.intent[n] # Undeclared => c.target[n] = c.intent[n]
                      /\ c.rev = rev' => c.seen[n].rv >= fact'[n].rv

LEMMA VersionStep ==
  [Next]_vars => UNCHANGED <<version, intent>> \/ version' = version + 1
<1> SUFFICES ASSUME [Next]_vars PROVE UNCHANGED <<version, intent>> \/ version' = version + 1
  OBVIOUS
<1> USE DEF draftVars
<1>1. ASSUME NEW new, Edit(new) PROVE version' = version + 1
  BY <1>1 DEF Edit
<1>2. CASE PreflightStart \/ PreflightInspect \/ PreflightFinish \/ PreflightFails \/ PublishRead
  BY <1>2 DEF PreflightStart, PreflightInspect, PreflightFinish, PreflightFails, PublishRead
<1>3. CASE PublishAdopt \/ Resume \/ AdoptRepair \/ Drop
  BY <1>3 DEF PublishAdopt, Resume, AdoptRepair, Drop
<1>4. ASSUME NEW v, Recheck(v) PROVE UNCHANGED <<version, intent>>
  BY <1>4 DEF Recheck
<1>5. CASE ReadBack \/ ReadBackFails \/ Record \/ Satisfy \/ ReceiptLate \/ Finish
  BY <1>5 DEF ReadBack, ReadBackFails, Record, Satisfy, ReceiptLate, Finish
<1>6. ASSUME NEW a, Respond(a) PROVE UNCHANGED <<version, intent>>
  BY <1>6 DEF Respond
<1>7. ASSUME NEW i, Execute(i) PROVE UNCHANGED <<version, intent>>
  BY <1>7 DEF Execute
<1>8. ASSUME NEW n, NEW v, External(n, v) PROVE UNCHANGED <<version, intent>>
  BY <1>8 DEF External
<1>9. CASE UNCHANGED vars
  BY <1>9 DEF vars
<1> QED
  BY <1>1, <1>2, <1>3, <1>4, <1>5, <1>6, <1>7, <1>8, <1>9 DEF Next, Call, Dispatch, Environment

LEMMA DatedStays ==
  ASSUME UInv, [Next]_vars, NEW c, c.version \in Nat, c.rev \in Nat, Dated(c)
  PROVE  DatedNext(c)
<1>1. version \in Nat /\ rev \in Nat
  BY DEF UInv, TypeOK
<1>2. UNCHANGED <<version, intent>> \/ version' = version + 1
  BY VersionStep
<1>3. 1 \in Nodes
  BY UpdateAssumption DEF Nodes
<1>4. rev' = rev \/ rev' = rev + 1
  BY <1>3, QuietOrLoud, FactMoves
<1> QED
  BY <1>1, <1>2, <1>4 DEF Dated, DatedNext

LEMMA SoundStays ==
  ASSUME UInv, [Next]_vars, NEW c \in Certificate, Sound(c)
  PROVE  SoundNext(c)
<1>1. c.version \in Nat /\ c.rev \in Nat /\ rev \in Nat
  BY DEF Certificate, UInv, TypeOK
<1>2. Dated(c) /\ DatedNext(c)
  BY <1>1, DatedStays DEF Sound
<1>3. ASSUME NEW n \in Nodes
      PROVE  /\ SeenNext(c.seen[n], n)
             /\ c.intent[n] # Undeclared => c.target[n] = c.intent[n]
             /\ c.rev = rev' => c.seen[n].rv >= fact'[n].rv
  <2>1. c.seen[n].rv \in Nat
    BY DEF Certificate, Observation
  <2>2. SeenNext(c.seen[n], n)
    BY <2>1, QuietOrLoud, RemoteStep, SeenStays DEF Sound, UInv
  <2>3. UNCHANGED <<rev, fact>> \/ rev' = rev + 1
    BY QuietOrLoud, FactMoves
  <2>4. c.rev = rev' => UNCHANGED <<rev, fact>>
    BY <1>1, <1>2, <2>3 DEF Dated
  <2> QED
    BY <2>2, <2>4 DEF Sound
<1> QED
  BY <1>2, <1>3 DEF SoundNext

\* An observation made now, of the intent of a round that is not stale.
LEMMA ObservationIsSound ==
  ASSUME UInv, NEW r \in Unobserved, Dated(r), UNCHANGED <<version, intent, rev, fact, remote>>
  PROVE  SoundNext(WithObservation(r))
<1> DEFINE c == WithObservation(r)
<1>1. /\ c.version = r.version /\ c.rev = r.rev /\ c.intent = r.intent
      /\ c.seen = remote /\ c.target = Desired(r.intent)
  BY DEF WithObservation
<1> HIDE DEF c
<1>2. DatedNext(c)
  BY <1>1 DEF Dated, DatedNext
<1>3. ASSUME NEW n \in Nodes
      PROVE  /\ SeenNext(c.seen[n], n)
             /\ c.intent[n] # Undeclared => c.target[n] = c.intent[n]
             /\ c.seen[n].rv >= fact'[n].rv
  <2>1. remote[n].rv \in Nat /\ fact[n].rv \in Nat /\ Seen(fact[n], n)
    BY DEF UInv, TypeOK, Observation, FactsAreTrue
  <2> QED
    BY <1>1, <2>1 DEF Seen, SeenNext, Desired
<1> QED
  BY <1>2, <1>3 DEF SoundNext, c

LEMMA NextIsPrime ==
  /\ check' # NoCheck /\ SoundNext(check') => Sound(check)'
  /\ SoundNext(runCert') => Sound(runCert)'
  /\ SoundNext(round') => Sound(round)'
  /\ DatedNext(round') => Dated(round)'
BY DEF Sound, SoundNext, Dated, DatedNext, Seen, SeenNext

LEMMA CheckSoundStep ==
  ASSUME UInv, TypeOK', [Next]_vars
  PROVE  check' # NoCheck => SoundNext(check')
<1> SUFFICES ASSUME check' # NoCheck PROVE SoundNext(check')
  OBVIOUS
<1>1. CASE UNCHANGED check
  BY <1>1, SoundStays DEF UInv, TypeOK, ChecksAreSound
<1>2. CASE check' = NoCheck
  BY <1>2
<1>3. CASE PreflightFinish
  <2>1. check' = round /\ round \in Certificate /\ Sound(round)
    BY <1>3, CertificatesDiffer DEF PreflightFinish, UInv, TypeOK, ChecksAreSound
  <2> QED
    BY <2>1, SoundStays
<1>4. ASSUME NEW v \in {"passed", "failed"}, Recheck(v) PROVE SoundNext(check')
  <2> DEFINE r == [version |-> version, rev |-> rev, pub |-> pub, intent |-> intent]
  <2>1. check' = WithObservation(r) /\ UNCHANGED <<version, intent, rev, fact, remote>>
    BY <1>4 DEF Recheck, draftVars, factVars
  <2>2. r \in Unobserved /\ Dated(r)
    BY DEF Unobserved, Dated, UInv, TypeOK
  <2> HIDE DEF r
  <2> QED
    BY <2>1, <2>2, ObservationIsSound
<1>5. ASSUME NEW new, Edit(new) PROVE check' = NoCheck
  BY <1>5 DEF Edit
<1>6. CASE PreflightStart
  BY <1>2, <1>6 DEF PreflightStart
<1> USE DEF checkVars
<1>7. CASE PreflightInspect \/ PreflightFails \/ PublishRead \/ PublishAdopt \/ Resume \/ AdoptRepair \/ Drop
  BY <1>1, <1>7 DEF PreflightInspect, PreflightFails, PublishRead, PublishAdopt, Resume, AdoptRepair, Drop
<1>8. CASE ReadBack \/ ReadBackFails \/ Record \/ Satisfy \/ ReceiptLate \/ Finish
  BY <1>1, <1>8 DEF ReadBack, ReadBackFails, Record, Satisfy, ReceiptLate, Finish
<1>9. ASSUME NEW a, Respond(a) PROVE UNCHANGED check
  BY <1>9 DEF Respond
<1>10. ASSUME NEW i, Execute(i) PROVE UNCHANGED check
  BY <1>10 DEF Execute
<1>11. ASSUME NEW n, NEW v, External(n, v) PROVE UNCHANGED check
  BY <1>11 DEF External
<1>12. CASE UNCHANGED vars
  BY <1>1, <1>12 DEF vars
<1> QED
  BY <1>1, <1>2, <1>3, <1>4, <1>5, <1>6, <1>7, <1>8, <1>9, <1>10, <1>11, <1>12
     DEF Next, Call, Dispatch, Environment

LEMMA CertSoundStep ==
  ASSUME UInv, TypeOK', [Next]_vars
  PROVE  runCert' # NoCheck => SoundNext(runCert')
<1> SUFFICES ASSUME runCert' # NoCheck PROVE SoundNext(runCert')
  OBVIOUS
<1>1. CASE UNCHANGED runCert
  BY <1>1, SoundStays DEF UInv, TypeOK, ChecksAreSound
<1>2. CASE runCert' = check /\ check \in Certificate
  BY <1>2, SoundStays, CertificatesDiffer DEF UInv, ChecksAreSound
<1>3. CASE Quiet
  BY <1>1, <1>3 DEF Quiet
<1>4. CASE PublishAdopt
  BY <1>1, <1>2, <1>4, AdoptDoes DEF AdoptRun
<1>5. CASE AdoptRepair
  BY <1>2, <1>5, RepairDoes
<1>6. CASE Record
  BY <1>1, <1>6 DEF Record, runVars
<1>7. CASE Satisfy
  BY <1>1, <1>7 DEF Satisfy, runVars
<1>8. ASSUME NEW i \in DOMAIN attempts, Commits(i) \/ Execute(i) PROVE UNCHANGED runCert
  BY <1>8, CommitDoes, ExecuteDoes
<1>9. ASSUME NEW n \in Nodes, NEW v \in Values, External(n, v) PROVE UNCHANGED runCert
  BY <1>9 DEF External, runVars
<1> QED
  BY <1>1, <1>3, <1>4, <1>5, <1>6, <1>7, <1>8, <1>9, QuietOrLoud DEF Loud

LEMMA RoundSoundStep ==
  ASSUME UInv, TypeOK', [Next]_vars
  PROVE  /\ Observing(round') => DatedNext(round')
         /\ Observed(round') => SoundNext(round')
<1> DEFINE OK == /\ Observing(round') => DatedNext(round')
                 /\ Observed(round') => SoundNext(round')
<1>0. round \in Certificate \cup Unobserved \cup {NoCheck}
  BY DEF UInv, TypeOK, Unobserved
<1>1. CASE UNCHANGED round
  <2>1. CASE round \in Certificate
    BY <1>1, <2>1, SoundStays, CertificatesDiffer DEF UInv, ChecksAreSound
  <2>2. CASE round \in Unobserved
    <3>1. round.version \in Nat /\ round.rev \in Nat /\ Dated(round) /\ ~Observed(round)
      BY <2>2, CertificatesDiffer DEF Unobserved, UInv, ChecksAreSound
    <3> QED
      BY <1>1, <3>1, DatedStays
  <2>3. CASE round = NoCheck
    BY <1>1, <2>3, CertificatesDiffer
  <2> QED
    BY <1>0, <2>1, <2>2, <2>3
<1>2. CASE round' = NoCheck
  BY <1>2, CertificatesDiffer
<1>3. CASE PreflightStart
  <2> DEFINE r == [version |-> version, rev |-> rev, pub |-> pub, intent |-> intent]
  <2>1. round' \in {r, NoCheck} /\ UNCHANGED <<version, intent, rev, fact>>
    BY <1>3 DEF PreflightStart, draftVars, factVars
  <2>2. r \in Unobserved /\ DatedNext(r)
    BY <2>1 DEF Unobserved, DatedNext, UInv, TypeOK
  <2>3. ~Observed(r)
    BY <2>2, CertificatesDiffer DEF Unobserved
  <2> HIDE DEF r
  <2> QED
    BY <1>2, <2>1, <2>2, <2>3
<1>4. CASE PreflightInspect
  <2>1. round \in Unobserved /\ Dated(round)
    BY <1>0, <1>4, CertificatesDiffer DEF PreflightInspect, UInv, ChecksAreSound
  <2>2. round' = WithObservation(round) /\ UNCHANGED <<version, intent, rev, fact, remote>>
    BY <1>4 DEF PreflightInspect, draftVars, factVars
  <2>3. SoundNext(round')
    BY <2>1, <2>2, ObservationIsSound
  <2> QED
    BY <2>3 DEF SoundNext
<1>5. CASE PreflightFinish
  BY <1>2, <1>5 DEF PreflightFinish
<1>6. CASE PreflightFails
  BY <1>2, <1>6 DEF PreflightFails
<1>7. ASSUME NEW v, Recheck(v) PROVE round' = NoCheck
  BY <1>7 DEF Recheck
<1>8. ASSUME NEW new, Edit(new) PROVE UNCHANGED round
  BY <1>8 DEF Edit
<1>9. CASE PublishRead \/ PublishAdopt \/ Resume \/ AdoptRepair \/ Drop
  BY <1>1, <1>9 DEF PublishRead, PublishAdopt, Resume, AdoptRepair, Drop
<1>10. CASE ReadBack \/ ReadBackFails \/ Record \/ Satisfy \/ ReceiptLate \/ Finish
  BY <1>1, <1>10 DEF ReadBack, ReadBackFails, Record, Satisfy, ReceiptLate, Finish
<1>11. ASSUME NEW a, Respond(a) PROVE UNCHANGED round
  BY <1>11 DEF Respond
<1>12. ASSUME NEW i, Execute(i) PROVE UNCHANGED round
  BY <1>12 DEF Execute
<1>13. ASSUME NEW n, NEW v, External(n, v) PROVE UNCHANGED round
  BY <1>13 DEF External
<1>14. CASE UNCHANGED vars
  BY <1>1, <1>14 DEF vars
<1> QED
  BY <1>1, <1>2, <1>3, <1>4, <1>5, <1>6, <1>7, <1>8, <1>9, <1>10, <1>11, <1>12, <1>13, <1>14
     DEF Next, Call, Dispatch, Environment

LEMMA ChecksStep ==
  ASSUME UInv, TypeOK', [Next]_vars
  PROVE  ChecksAreSound'
<1>1. /\ check' # NoCheck => Sound(check)'
      /\ runCert' # NoCheck => Sound(runCert)'
  BY CheckSoundStep, CertSoundStep, NextIsPrime
<1>2. /\ Observing(round') => Dated(round)'
      /\ Observed(round') => Sound(round)'
  BY RoundSoundStep, NextIsPrime
<1>3. /\ Observing(round)' <=> Observing(round')
      /\ Observed(round)' <=> Observed(round')
  BY DEF Observing, Observed
<1> QED
  BY <1>1, <1>2, <1>3 DEF ChecksAreSound
-------------------------------------------------------------------------------
(* What the calls know, and what a run is *)

LEMMA CallsParts ==
  /\ UNCHANGED attempts => Unresolved' = Unresolved
  /\ UNCHANGED status => Done' = Done
BY DEF Unresolved, Open, Done

LEMMA CallsStep ==
  ASSUME UInv, TypeOK', [Next]_vars
  PROVE  CallsKnow' /\ RunsAreWhole'
<1> USE CallsParts DEF CallsKnow, RunsAreWhole
<1>0. CallsKnow /\ RunsAreWhole
  BY DEF UInv
<1>1. ASSUME NEW new, Edit(new) PROVE CallsKnow' /\ RunsAreWhole'
  BY <1>0, <1>1 DEF Edit, pubVars, runVars, stepVars
<1>2. CASE PreflightStart \/ PreflightInspect \/ PreflightFinish \/ PreflightFails
  <2>1. /\ UNCHANGED <<version, pc, attempts, status, run, runCert, runState, published, rev>>
        /\ pc \in {"adopt", "repair"} => UNCHANGED check
    BY <1>2 DEF PreflightStart, PreflightInspect, PreflightFinish, PreflightFails,
                draftVars, pubVars, checkVars, factVars, runVars, stepVars
  <2> QED
    BY <1>0, <2>1
<1>3. CASE PublishRead
  BY <1>0, <1>3 DEF PublishRead, ReadsAsChecked, draftVars, pubVars, checkVars, factVars, runVars, stepVars
<1>4. CASE PublishAdopt
  <2>1. /\ UNCHANGED <<version, attempts, check>> /\ check # NoCheck
        /\ runState = "published" /\ Unresolved = {}
    BY <1>0, <1>4, AdoptDoes DEF PublishAdopt
  <2>2. CASE AdoptNoop /\ UNCHANGED <<run, runCert, runState, status>>
    BY <1>0, <2>1, <2>2 DEF AdoptNoop
  <2>3. CASE AdoptRun /\ run' = run + 1
    <3>1. run \in Nat
      BY DEF UInv, TypeOK
    <3> QED
      BY <1>0, <2>1, <2>3, <3>1 DEF AdoptRun
  <2> QED
    BY <1>4, <2>2, <2>3, AdoptDoes
<1>5. CASE Resume
  BY <1>0, <1>5 DEF Resume, Continue, draftVars, pubVars, checkVars, factVars, runVars, stepVars
<1>6. ASSUME NEW v \in {"passed", "failed"}, Recheck(v) PROVE CallsKnow' /\ RunsAreWhole'
  <2>1. /\ runState # "published" /\ Unresolved = {}
        /\ UNCHANGED <<version, attempts, status, run, runCert, published, rev>>
    BY <1>0, <1>6 DEF Recheck, draftVars, pubVars, factVars, runVars, stepVars
  <2>2. CASE v = "failed"
    BY <1>0, <1>6, <2>1, <2>2 DEF Recheck
  <2>3. CASE v = "passed"
    <3> DEFINE c == WithObservation([version |-> version, rev |-> rev, pub |-> pub, intent |-> intent])
    <3>1. c \in Certificate /\ c.version = version /\ c.rev = rev
      BY Observations DEF UInv, TypeOK, WithObservation
    <3>2. check' = c /\ pc' = "repair" /\ runState' = runState
      BY <1>6, <2>3 DEF Recheck
    <3> HIDE DEF c
    <3> QED
      BY <1>0, <2>1, <3>1, <3>2, CertificatesDiffer
  <2> QED
    BY <1>6, <2>2, <2>3
<1>7. CASE AdoptRepair
  <2>1. /\ Unresolved = {} /\ UNCHANGED <<attempts, run>>
        /\ runCert' = check /\ check \in Certificate
    BY <1>7, RepairDoes
  <2> QED
    BY <1>0, <1>7, <2>1, CertificatesDiffer DEF AdoptRepair, pubVars
<1>8. CASE Drop
  BY <1>0, <1>8 DEF Drop, draftVars, pubVars, checkVars, factVars, runVars, stepVars
<1>9. CASE ReadBack \/ ReadBackFails
  BY <1>0, <1>9 DEF ReadBack, ReadBackFails, RunReadsAsChecked,
                    draftVars, pubVars, checkVars, factVars, runVars, stepVars
<1>10. CASE Record
  <2>1. PICK n \in Nodes \ Done :
           LET a == [run |-> run, step |-> n, key |-> key[n], target |-> runCert.target[n],
                     seen |-> runCert.seen[n], status |-> "pending"]
           IN  a \in Attempt /\ attempts' = Append(attempts, a) /\ UNCHANGED <<run, runCert>>
    BY <1>10, RecordDoes
  <2>2. attempts'[Len(attempts')].status = "pending" /\ Len(attempts') \in DOMAIN attempts'
    BY <2>1, Recorded DEF UInv, TypeOK
  <2>3. Unresolved' # {}
    BY <2>2 DEF Unresolved, Open
  <2> QED
    BY <1>0, <1>10, <2>1, <2>3 DEF Record, pubVars
<1>11. CASE Satisfy
  <2>1. pc' = "loop" /\ Unresolved = {} /\ UNCHANGED <<runCert, run, runState, attempts, published>>
    BY <1>11, SatisfyDoes DEF pubVars
  <2>2. runState # "published"
    BY <1>0, <1>11 DEF Satisfy
  <2> QED
    BY <1>0, <2>1, <2>2
<1>12. ASSUME NEW a, Respond(a) PROVE CallsKnow' /\ RunsAreWhole'
  <2> DEFINE i == TheRequest
  <2>1. i \in DOMAIN attempts /\ Commits(i)
    BY <1>12, RespondCommits DEF Commits
  <2> HIDE DEF i
  <2>2. /\ pc \in {"sent", "asking"} /\ UNCHANGED <<run, runCert, published>>
        /\ DOMAIN attempts' = DOMAIN attempts
        /\ \A j \in DOMAIN attempts : j # i => attempts'[j] = attempts[j] /\ ~Open(j)
    BY <2>1, CommitDoes DEF Commits, pubVars
  <2>3. attempts'[i].status \in {"applied", "no_effect"} => Unresolved' = {}
    BY <2>2 DEF Unresolved, Open
  <2>4. runState # "published" /\ run > 0 /\ runCert # NoCheck /\ ~published
    BY <1>0, <2>2
  <2>5. CASE CommitApplied(i) /\ attempts'[i].status = "applied"
    BY <2>2, <2>3, <2>4, <2>5 DEF CommitApplied, Continue
  <2>6. CASE CommitUnknown(i)
    BY <2>2, <2>4, <2>6 DEF CommitUnknown
  <2>7. CASE CommitRefused(i) /\ attempts'[i].status = "no_effect"
    BY <2>2, <2>3, <2>4, <2>7 DEF CommitRefused, Continue
  <2> QED
    BY <2>1, <2>5, <2>6, <2>7, CommitDoes
<1>13. CASE ReceiptLate
  BY <1>0, <1>13 DEF ReceiptLate, draftVars, pubVars, checkVars, factVars, runVars, stepVars
<1>14. CASE Finish
  BY <1>0, <1>14 DEF Finish, draftVars, pubVars, checkVars, factVars, runVars, stepVars
<1>15. ASSUME NEW i, Execute(i) PROVE CallsKnow' /\ RunsAreWhole'
  BY <1>0, <1>15 DEF Execute, draftVars, pubVars, checkVars, factVars, runVars, stepVars
<1>16. ASSUME NEW n, NEW v, External(n, v) PROVE CallsKnow' /\ RunsAreWhole'
  BY <1>0, <1>16 DEF External, draftVars, pubVars, checkVars, factVars, runVars, stepVars
<1>17. CASE UNCHANGED vars
  BY <1>0, <1>17 DEF vars, draftVars, pubVars, checkVars, factVars, runVars, stepVars
<1> QED
  BY <1>1, <1>2, <1>3, <1>4, <1>5, <1>6, <1>7, <1>8, <1>9, <1>10, <1>11, <1>12, <1>13, <1>14, <1>15,
     <1>16, <1>17 DEF Next, Call, Dispatch, Environment

\* What is confirmed is what the author wants.
LEMMA IntentStep ==
  ASSUME UInv, TypeOK', [Next]_vars
  PROVE  IntentIsConfirmed'
<1> USE DEF IntentIsConfirmed
<1>0. IntentIsConfirmed /\ (published => runState = "published")
  BY DEF UInv, RunsAreWhole
<1>1. CASE published' /\ UNCHANGED <<intent, published, fact>>
  BY <1>0, <1>1
<1>2. CASE ~published'
  BY <1>2
<1>3. CASE UNCHANGED published /\ pc \notin {"idle", "adopt"}
  BY <1>0, <1>2, <1>3 DEF UInv, CallsKnow
<1>4. ASSUME NEW new, Edit(new) PROVE ~published'
  BY <1>4 DEF Edit
<1>5. CASE PreflightStart \/ PreflightInspect \/ PreflightFinish \/ PreflightFails \/ PublishRead
  BY <1>1, <1>2, <1>5 DEF PreflightStart, PreflightInspect, PreflightFinish, PreflightFails, PublishRead,
                     draftVars, pubVars, factVars
<1>6. CASE Resume \/ AdoptRepair \/ Drop
  BY <1>1, <1>2, <1>6 DEF Resume, AdoptRepair, Drop, draftVars, pubVars, factVars
<1>7. CASE PublishAdopt
  <2>1. CASE AdoptRun
    BY <1>2, <2>1 DEF AdoptRun
  <2>2. CASE AdoptNoop
    <3>1. check \in Certificate /\ Sound(check) /\ check.intent = intent /\ intent' = intent
      BY <1>7, AdoptDoes, CertificatesDiffer DEF UInv, ChecksAreSound, Sound, Dated
    <3>2. \A n \in Nodes : check.target[n] = check.seen[n].value /\ fact'[n] = check.seen[n]
      BY <2>2 DEF AdoptNoop, IsUpdate
    <3> QED
      BY <3>1, <3>2 DEF Sound
  <2> QED
    BY <1>7, <2>1, <2>2, AdoptDoes
<1>8. ASSUME NEW v, Recheck(v) PROVE UNCHANGED <<intent, published, fact>>
  BY <1>8 DEF Recheck, draftVars, pubVars, factVars
<1>9. CASE ReadBack \/ ReadBackFails \/ Record \/ ReceiptLate
  BY <1>1, <1>2, <1>9 DEF ReadBack, ReadBackFails, Record, ReceiptLate, draftVars, pubVars, factVars
<1>10. CASE Satisfy
  BY <1>3, <1>10 DEF Satisfy, pubVars
<1>11. ASSUME NEW a, Respond(a) PROVE IntentIsConfirmed'
  BY <1>3, <1>11 DEF Respond, pubVars
<1>12. CASE Finish
  <2>1. runState # "published" /\ runCert # NoCheck
    BY <1>12 DEF Finish, UInv, CallsKnow, RunsAreWhole
  <2>2. runCert.intent = intent
    BY <1>12, <2>1 DEF Finish, UInv, ChecksAreSound, Sound, Dated
  <2>3. \A n \in Nodes : runCert.intent[n] \in {Undeclared, fact[n].value}
    BY <1>12, <2>1 DEF Finish, UInv, FactsAreTrue
  <2> QED
    BY <1>12, <2>2, <2>3 DEF Finish, draftVars, factVars
<1>13. ASSUME NEW i, Execute(i) PROVE UNCHANGED <<intent, published, fact>>
  BY <1>13 DEF Execute, draftVars, pubVars, factVars
<1>14. ASSUME NEW n, NEW v, External(n, v) PROVE UNCHANGED <<intent, published, fact>>
  BY <1>14 DEF External, draftVars, pubVars, factVars
<1>15. CASE UNCHANGED vars
  BY <1>1, <1>2, <1>15 DEF vars, draftVars, pubVars, factVars
<1> QED
  BY <1>1, <1>2, <1>4, <1>5, <1>6, <1>7, <1>8, <1>9, <1>10, <1>11, <1>12, <1>13, <1>14, <1>15
     DEF Next, Call, Dispatch, Environment
-------------------------------------------------------------------------------
(* Without a compare-and-set, the version of an object counts our own writes  *)

Writes(n) == {i \in made : attempts[i].step = n}

Counted == \A n \in Nodes : remote[n].rv = Cardinality(Writes(n))

Undisturbed == \A i \in DOMAIN attempts :
                 Open(i) /\ i \notin made => remote[attempts[i].step] = attempts[i].seen

ReadBackHolds == pc = "record" => \A n \in Nodes \ Done : remote[n] = runCert.seen[n]

LEMMA WriterParts ==
  /\ SingleWriter <=> (~Cas => Counted /\ Undisturbed /\ ReadBackHolds)
  /\ SingleWriter' <=> (~Cas => Counted' /\ Undisturbed' /\ ReadBackHolds')
BY DEF SingleWriter, Counted, Writes, Undisturbed, ReadBackHolds

LEMMA WritesFinite ==
  ASSUME TypeOK, NEW n
  PROVE  IsFiniteSet(Writes(n))
<1>1. Len(attempts) \in Nat /\ DOMAIN attempts = 1..Len(attempts)
  BY DEF TypeOK
<1>2. IsFiniteSet(1..Len(attempts))
  BY <1>1, FS_Interval
<1>3. Writes(n) \in SUBSET (1..Len(attempts))
  BY <1>1 DEF Writes, TypeOK
<1> QED
  BY <1>2, <1>3, FS_Subset

\* The history keeps its entries.
LEMMA StepsStay ==
  ASSUME UInv, [Next]_vars
  PROVE  \A i \in DOMAIN attempts : i \in DOMAIN attempts' /\ attempts'[i].step = attempts[i].step
<1>1. CASE UNCHANGED attempts
  BY <1>1
<1>2. CASE Record
  BY <1>2, RecordDoes, Recorded DEF UInv, TypeOK
<1>3. ASSUME NEW i \in DOMAIN attempts, Commits(i)
      PROVE  \A j \in DOMAIN attempts : j \in DOMAIN attempts' /\ attempts'[j].step = attempts[j].step
  BY <1>3, CommitDoes
<1>4. CASE Quiet
  BY <1>1, <1>4 DEF Quiet
<1>5. CASE PublishAdopt \/ AdoptRepair \/ Satisfy
  BY <1>1, <1>5 DEF PublishAdopt, AdoptRepair, Satisfy
<1>6. ASSUME NEW i, Execute(i) PROVE UNCHANGED attempts
  BY <1>6 DEF Execute
<1>7. ASSUME NEW n, NEW v, External(n, v) PROVE UNCHANGED attempts
  BY <1>7 DEF External
<1> QED
  BY <1>1, <1>2, <1>3, <1>4, <1>5, <1>6, <1>7, QuietOrLoud DEF Loud

\* Only the steps of the remote system change objects or effects.
LEMMA OnlyRemotely ==
  ASSUME UInv, [Next]_vars
  PROVE  \/ UNCHANGED <<remote, made>>
         \/ \E i \in DOMAIN attempts : Execute(i)
         \/ \E n \in Nodes, v \in Values : External(n, v)
<1>1. CASE Quiet
  BY <1>1 DEF Quiet
<1>2. CASE PublishAdopt \/ AdoptRepair \/ Record \/ Satisfy
  BY <1>2 DEF PublishAdopt, AdoptRepair, Record, Satisfy
<1>3. ASSUME NEW i \in DOMAIN attempts, Commits(i) PROVE UNCHANGED <<remote, made>>
  BY <1>3, CommitDoes
<1> QED
  BY <1>1, <1>2, <1>3, QuietOrLoud DEF Loud

\* Nobody else writes.
LEMMA NoOtherWriter ==
  ASSUME TypeOK, ~Cas, Counted, NEW n \in Nodes, NEW v
  PROVE  ~External(n, v)
<1>1. MaxDrift = 0
  BY UpdateAssumption
<1>2. remote[n].rv \in Nat /\ remote[n].rv = Cardinality(Writes(n))
  BY DEF TypeOK, Observation, Counted
<1>3. Drifts(n) = 0
  <2>1. Drifts(n) = remote[n].rv - Cardinality(Writes(n))
    BY DEF Drifts, Writes
  <2> QED
    BY <1>2, <2>1
<1> QED
  BY <1>1, <1>3 DEF External

LEMMA CountedStep ==
  ASSUME UInv, [Next]_vars, ~Cas, Counted
  PROVE  Counted'
<1>0. TypeOK /\ made \subseteq DOMAIN attempts
      /\ \A i \in DOMAIN attempts : attempts'[i].step = attempts[i].step
  BY StepsStay DEF UInv, TypeOK
<1>1. CASE UNCHANGED <<remote, made>>
  <2>1. \A n \in Nodes : Writes(n)' = Writes(n)
    BY <1>0, <1>1 DEF Writes
  <2> QED
    BY <1>1, <2>1 DEF Counted
<1>2. ASSUME NEW i \in DOMAIN attempts, Execute(i) PROVE Counted'
  <2>1. /\ i \notin made /\ made' = made \cup {i}
        /\ remote' = [remote EXCEPT ![attempts[i].step] =
                        [value |-> attempts[i].target, rv |-> remote[attempts[i].step].rv + 1]]
    BY <1>2, ExecuteDoes
  <2>2. ASSUME NEW n \in Nodes PROVE remote'[n].rv = Cardinality(Writes(n)')
    <3>1. IsFiniteSet(Writes(n)) /\ i \notin Writes(n) /\ remote[n].rv = Cardinality(Writes(n))
      BY <1>0, <2>1, WritesFinite DEF Counted, Writes
    <3>2. CASE attempts[i].step = n
      <4>1. Writes(n)' = Writes(n) \cup {i}
        BY <1>0, <2>1, <3>2 DEF Writes
      <4>2. remote'[n].rv = remote[n].rv + 1
        BY <1>0, <2>1, <3>2 DEF TypeOK
      <4>3. Cardinality(Writes(n) \cup {i}) = Cardinality(Writes(n)) + 1
        BY <3>1, FS_AddElement
      <4> QED
        BY <3>1, <4>1, <4>2, <4>3
    <3>3. CASE attempts[i].step # n
      <4>1. Writes(n)' = Writes(n)
        BY <1>0, <2>1, <3>3 DEF Writes
      <4>2. remote'[n] = remote[n]
        BY <1>0, <2>1, <3>3 DEF TypeOK
      <4> QED
        BY <3>1, <4>1, <4>2
    <3> QED
      BY <3>2, <3>3
  <2> QED
    BY <2>2 DEF Counted
<1> QED
  BY <1>0, <1>1, <1>2, OnlyRemotely, NoOtherWriter

LEMMA UndisturbedStep ==
  ASSUME UInv, [Next]_vars, ~Cas, Counted, Undisturbed, ReadBackHolds
  PROVE  Undisturbed'
<1> SUFFICES ASSUME NEW i \in DOMAIN attempts', Open(i)', i \notin made'
             PROVE  remote'[attempts'[i].step] = attempts'[i].seen
  BY DEF Undisturbed
<1>1. CASE UNCHANGED <<attempts, remote, made>>
  BY <1>1 DEF Undisturbed, Open
<1>2. CASE Record
  <2>1. PICK n \in Nodes \ Done :
           LET a == [run |-> run, step |-> n, key |-> key[n], target |-> runCert.target[n],
                     seen |-> runCert.seen[n], status |-> "pending"]
           IN  /\ a \in Attempt /\ attempts' = Append(attempts, a) /\ Unresolved = {}
               /\ UNCHANGED remote
    BY <1>2, RecordDoes
  <2>2. \A j \in DOMAIN attempts : ~Open(j)
    BY <2>1 DEF Unresolved
  <2>3. /\ attempts'[Len(attempts')].step = n /\ attempts'[Len(attempts')].seen = runCert.seen[n]
        /\ i # Len(attempts') => i \in DOMAIN attempts /\ attempts'[i] = attempts[i]
    BY <2>1, Recorded DEF UInv, TypeOK
  <2>4. i = Len(attempts')
    BY <2>2, <2>3 DEF Open
  <2>5. remote[n] = runCert.seen[n]
    BY <1>2 DEF Record, ReadBackHolds
  <2> QED
    BY <2>1, <2>3, <2>4, <2>5
<1>3. ASSUME NEW j \in DOMAIN attempts, Commits(j) PROVE remote'[attempts'[i].step] = attempts'[i].seen
  <2>1. /\ i \in DOMAIN attempts /\ UNCHANGED <<remote, made>> /\ Open(j)
        /\ attempts'[i].step = attempts[i].step /\ attempts'[i].seen = attempts[i].seen
        /\ i # j => attempts'[i] = attempts[i]
    BY <1>3, CommitDoes
  <2>2. Open(i)
    BY <2>1 DEF Open
  <2> QED
    BY <2>1, <2>2 DEF Undisturbed
<1>4. ASSUME NEW j \in DOMAIN attempts, Execute(j) PROVE FALSE
  <2>1. Open(j) /\ made' = made \cup {j} /\ UNCHANGED attempts
    BY <1>4, ExecuteDoes
  <2>2. Open(i) /\ i = Len(attempts) /\ j = Len(attempts)
    BY <2>1 DEF Open, UInv, OneRequestOpen
  <2> QED
    BY <2>1, <2>2
<1>5. CASE Quiet
  BY <1>1, <1>5 DEF Quiet
<1>6. CASE PublishAdopt \/ AdoptRepair \/ Satisfy
  BY <1>1, <1>6 DEF PublishAdopt, AdoptRepair, Satisfy
<1>7. ASSUME NEW n \in Nodes, NEW v, External(n, v) PROVE FALSE
  BY <1>7, NoOtherWriter DEF UInv
<1> QED
  BY <1>2, <1>3, <1>4, <1>5, <1>6, <1>7, QuietOrLoud DEF Loud

LEMMA ReadBackStep ==
  ASSUME UInv, [Next]_vars, ~Cas, Counted, ReadBackHolds
  PROVE  ReadBackHolds'
<1> SUFFICES ASSUME pc' = "record" PROVE \A n \in Nodes \ Done' : remote'[n] = runCert'.seen[n]
  BY DEF ReadBackHolds
<1>1. CASE pc = "record" /\ UNCHANGED <<status, remote, runCert>>
  BY <1>1, CallsParts DEF ReadBackHolds
<1>2. CASE ReadBack
  <2>1. \A n \in Nodes \ Done : remote[n] = runCert.seen[n]
    BY <1>2 DEF ReadBack, RunReadsAsChecked
  <2>2. UNCHANGED <<status, remote, runCert>>
    BY <1>2 DEF ReadBack, runVars, stepVars
  <2> QED
    BY <2>1, <2>2, CallsParts
<1>3. ASSUME NEW new, Edit(new) PROVE FALSE
  BY <1>3 DEF Edit
<1>4. CASE PreflightStart \/ PreflightInspect \/ PreflightFinish \/ PreflightFails
  BY <1>1, <1>4 DEF PreflightStart, PreflightInspect, PreflightFinish, PreflightFails, runVars, stepVars
<1>5. CASE PublishRead \/ PublishAdopt \/ Resume \/ AdoptRepair \/ Drop
  BY <1>5 DEF PublishRead, PublishAdopt, AdoptNoop, AdoptRun, Resume, Continue, AdoptRepair, Drop
<1>6. ASSUME NEW v \in {"passed", "failed"}, Recheck(v) PROVE FALSE
  BY <1>6 DEF Recheck
<1>7. CASE ReadBackFails \/ Record \/ Satisfy \/ ReceiptLate \/ Finish
  BY <1>7 DEF ReadBackFails, Record, Satisfy, ReceiptLate, Finish
<1>8. ASSUME NEW a, Respond(a) PROVE FALSE
  BY <1>8 DEF Respond, CommitApplied, CommitUnknown, CommitRefused, Continue
<1>9. ASSUME NEW i \in DOMAIN attempts, Execute(i) PROVE FALSE
  <2>1. Open(i) /\ pc = "record"
    BY <1>9, ExecuteDoes
  <2> QED
    BY <2>1 DEF UInv, CallsKnow, Unresolved
<1>10. ASSUME NEW n \in Nodes, NEW v, External(n, v) PROVE FALSE
  BY <1>10, NoOtherWriter DEF UInv
<1>11. CASE UNCHANGED vars
  BY <1>1, <1>11 DEF vars, runVars, stepVars
<1> QED
  BY <1>2, <1>3, <1>4, <1>5, <1>6, <1>7, <1>8, <1>9, <1>10, <1>11 DEF Next, Call, Dispatch, Environment

LEMMA WriterStep ==
  ASSUME UInv, [Next]_vars
  PROVE  SingleWriter'
BY CountedStep, UndisturbedStep, ReadBackStep, WriterParts DEF UInv

-------------------------------------------------------------------------------
(* The invariant *)

LEMMA InvInit == Init => UInv
<1> SUFFICES ASSUME Init PROVE UInv
  OBVIOUS
<1>1. PICK v \in [Nodes -> Values] : /\ \A n \in Nodes : intent[n] \in {Undeclared, v[n]}
                                     /\ fact = [n \in Nodes |-> [value |-> v[n], rv |-> 0]]
  BY DEF Init
<1>2. /\ remote = fact /\ made = {} /\ barred = {} /\ DOMAIN attempts = {} /\ run = 0
      /\ round = NoCheck /\ check = NoCheck /\ runCert = NoCheck /\ pc = "idle"
      /\ runState = "published" /\ revision = 0
      /\ \A n \in Nodes : status[n] = "applied" /\ key[n] = 0
      /\ \A n \in Nodes : fact[n].value = v[n] /\ fact[n].rv = 0
  BY <1>1 DEF Init
<1>3. TypeOK
  BY TypeInit
<1>4. ChecksAreSound
  BY <1>2, CertificatesDiffer DEF ChecksAreSound
<1>5. CallsKnow /\ RunsAreWhole
  BY <1>2 DEF CallsKnow, RunsAreWhole, Unresolved, Done
<1>6. OneRequestOpen /\ KeyIdentifiesUpdate
  BY <1>2 DEF OneRequestOpen, KeyIdentifiesUpdate
<1>7. HistoryIsTrue /\ KeysAreCurrent
  BY <1>2 DEF HistoryIsTrue, KeysAreCurrent
<1>8. FactsAreTrue /\ NotOlderThanWrites
  BY <1>2 DEF FactsAreTrue, NotOlderThanWrites, Seen
<1>9. IntentIsConfirmed
  BY <1>1, <1>2 DEF IntentIsConfirmed
<1>10. SingleWriter
  <2>1. \A n \in Nodes : Writes(n) = {}
    BY <1>2 DEF Writes
  <2>2. Counted
    BY <1>2, <2>1, FS_EmptySet DEF Counted
  <2> QED
    BY <1>2, <2>2, WriterParts DEF Undisturbed, ReadBackHolds
<1> QED
  BY <1>3, <1>4, <1>5, <1>6, <1>7, <1>8, <1>9, <1>10 DEF UInv

LEMMA InvStep == UInv /\ [Next]_vars => UInv'
<1> SUFFICES ASSUME UInv, [Next]_vars PROVE UInv'
  OBVIOUS
<1>1. TypeOK'
  BY TypeStep DEF UInv
<1>2. Quiet \/ Loud
  BY QuietOrLoud
<1>3. ChecksAreSound' /\ CallsKnow' /\ RunsAreWhole' /\ IntentIsConfirmed' /\ SingleWriter'
  BY <1>1, ChecksStep, CallsStep, IntentStep, WriterStep
<1>4. OneRequestOpen' /\ HistoryIsTrue' /\ KeysAreCurrent'
  BY <1>1, <1>2, OneRequestStep, HistoryStep, KeyStep
<1>5. FactsAreTrue' /\ NotOlderThanWrites' /\ KeyIdentifiesUpdate'
  BY <1>1, <1>2, FactParts, FactsSeenStep, ConditionsSeenStep, EffectsSeenStep, BaselineStep,
     NotOlderStep, KeyIdentityStep
<1> QED
  BY <1>1, <1>3, <1>4, <1>5 DEF UInv

LEMMA Invariance == Spec => []UInv
BY InvInit, InvStep, PTL DEF Spec
-------------------------------------------------------------------------------
(* The theorems *)

\* Every variable keeps its type, in every interleaving of calls, answers, remote
\* effects and other clients.
THEOREM Typing == Spec => []TypeOK
<1>1. UInv => TypeOK
  BY DEF UInv
<1> QED
  BY <1>1, Invariance, PTL

\* A Draft that engine.ts shows as published has a confirmed fact of every declared
\* value, and no request of an earlier or a repaired run is still on its way.
THEOREM PublicationIsConfirmed == Spec => []PublishedIsConfirmed
<1>1. UInv => PublishedIsConfirmed
  <2> SUFFICES ASSUME UInv, published
               PROVE  /\ \A n \in Nodes : intent[n] \in {Undeclared, fact[n].value}
                      /\ \A i \in DOMAIN attempts : i \notin made => i \in barred
    BY DEF PublishedIsConfirmed
  <2>1. \A n \in Nodes : intent[n] \in {Undeclared, fact[n].value}
    BY DEF UInv, IntentIsConfirmed
  <2>2. ASSUME NEW i \in DOMAIN attempts, i \notin made PROVE i \in barred
    <3>1. ~Open(i)
      BY DEF UInv, RunsAreWhole, Unresolved
    <3>2. attempts[i].status \in {"pending", "unknown", "applied", "no_effect"}
      BY AttemptTypes DEF UInv
    <3> QED
      BY <2>2, <3>1, <3>2 DEF Open, UInv, HistoryIsTrue
  <2> QED
    BY <2>1, <2>2
<1> QED
  BY <1>1, Invariance, PTL

\* The baseline fact of a node is newer than every own write that was answered, and
\* unless somebody else wrote since, it is the remote value.
THEOREM FactsAreSound == Spec => []FactsFollowWrites
<1>1. UInv => FactsFollowWrites
  BY DEF UInv, FactsFollowWrites, FactsAreTrue, Seen, NotContradicted
<1> QED
  BY <1>1, Invariance, PTL

\* An idempotency key never names two requests: a repair that changes the payload or
\* the observed conditions of an attempted step gives it a new one.
THEOREM KeysAreNeverReused == Spec => []KeyIdentifiesUpdate
<1>1. UInv => KeyIdentifiesUpdate
  BY DEF UInv
<1> QED
  BY <1>1, Invariance, PTL

\* A request is recorded only for the intent the Draft has at that moment, however
\* old the certificate, the run or its repair.
THEOREM RequestsAreCurrent == Spec => SendsCurrentIntentOnly
<1> DEFINE Fresh == Len(attempts') > Len(attempts) =>
                      LET a == attempts'[Len(attempts')] IN intent[a.step] \in {Undeclared, a.target}
<1>1. ASSUME UInv, [Next]_vars PROVE Fresh
  <2>1. Len(attempts) \in Nat
    BY <1>1 DEF UInv, TypeOK
  <2>2. CASE UNCHANGED attempts
    BY <2>1, <2>2
  <2>3. CASE Record
    <3>1. PICK n \in Nodes \ Done :
             LET a == [run |-> run, step |-> n, key |-> key[n], target |-> runCert.target[n],
                       seen |-> runCert.seen[n], status |-> "pending"]
             IN  a \in Attempt /\ attempts' = Append(attempts, a)
      BY <1>1, <2>3, RecordDoes
    <3>2. attempts'[Len(attempts')].step = n /\ attempts'[Len(attempts')].target = runCert.target[n]
      BY <1>1, <3>1, Recorded DEF UInv, TypeOK
    <3>3. runCert # NoCheck /\ runCert.version = version
      BY <1>1, <2>3 DEF Record, UInv, CallsKnow, RunsAreWhole
    <3>4. intent[n] # Undeclared => runCert.target[n] = intent[n]
      BY <1>1, <3>3 DEF UInv, ChecksAreSound, Sound, Dated
    <3> QED
      BY <3>2, <3>4
  <2>4. ASSUME NEW i \in DOMAIN attempts, Commits(i) PROVE Fresh
    <3>1. Len(attempts') = Len(attempts)
      BY <1>1, <2>4, CommitDoes
    <3> QED
      BY <2>1, <3>1
  <2>5. CASE Quiet
    BY <2>2, <2>5 DEF Quiet
  <2>6. CASE PublishAdopt \/ AdoptRepair \/ Satisfy
    BY <2>2, <2>6 DEF PublishAdopt, AdoptRepair, Satisfy
  <2>7. ASSUME NEW i, Execute(i) PROVE UNCHANGED attempts
    BY <2>7 DEF Execute
  <2>8. ASSUME NEW n, NEW v, External(n, v) PROVE UNCHANGED attempts
    BY <2>8 DEF External
  <2> QED
    BY <1>1, <2>2, <2>3, <2>4, <2>5, <2>6, <2>7, <2>8, QuietOrLoud DEF Loud
<1>2. UInv /\ [Next]_vars => [Fresh]_vars
  BY <1>1
<1> QED
  BY <1>2, Invariance, PTL DEF Spec, SendsCurrentIntentOnly

\* A write takes effect only on what the check had observed: with a compare-and-set
\* because equal versions are equal values, and without one because nobody else
\* writes and no second request is out.
THEOREM WritesOnWhatWasChecked == Spec => OverwritesOnlyWhatWasChecked
<1> DEFINE Checked == \A i \in made' \ made : remote[attempts[i].step] = attempts[i].seen
<1>1. ASSUME UInv, [Next]_vars PROVE Checked
  <2>1. CASE UNCHANGED made
    BY <2>1
  <2>2. ASSUME NEW n \in Nodes, NEW v \in Values, External(n, v) PROVE UNCHANGED made
    BY <2>2 DEF External
  <2>3. ASSUME NEW i \in DOMAIN attempts, Execute(i) PROVE Checked
    <3>1. /\ Open(i) /\ i \notin made /\ made' = made \cup {i}
          /\ Cas => remote[attempts[i].step].rv = attempts[i].seen.rv
      BY <1>1, <2>3, ExecuteDoes
    <3>2. CASE ~Cas
      BY <1>1, <3>1, <3>2 DEF UInv, SingleWriter
    <3>3. CASE Cas
      <4>1. attempts[i].seen \in Observation /\ remote[attempts[i].step] \in Observation
        BY <1>1, AttemptTypes DEF UInv, TypeOK
      <4>2. remote[attempts[i].step].value = attempts[i].seen.value
        BY <1>1, <3>1, <3>3 DEF UInv, FactsAreTrue, Seen
      <4>3. remote[attempts[i].step] = attempts[i].seen
        BY <3>1, <3>3, <4>1, <4>2 DEF Observation
      <4> QED
        BY <3>1, <4>3
    <3> QED
      BY <1>1, <3>1, <3>2, <3>3
  <2> QED
    BY <1>1, <2>1, <2>2, <2>3, OnlyRemotely
<1>2. UInv /\ [Next]_vars => [Checked]_vars
  BY <1>1
<1> QED
  BY <1>2, Invariance, PTL DEF Spec, OverwritesOnlyWhatWasChecked
===============================================================================
