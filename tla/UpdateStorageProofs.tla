---------------------------- MODULE UpdateStorageProofs ----------------------------
(***************************************************************************)
(* Proofs about UpdateStorage, for any number of nodes, values, edits,      *)
(* drifts, requests and repairs.  RecordInv says what the records add to    *)
(* UInv, the invariant of UpdateRun; the two together are inductive.        *)
(***************************************************************************)
EXTENDS UpdateStorage, UpdateRunProofs

-------------------------------------------------------------------------------
(* The inductive invariant *)

\* An open request was built from the artifact in use; an applied one has its fact.
RequestsAreTraced ==
  \A i \in DOMAIN attempts :
    /\ Open(i) => source[i] = artifact
    /\ attempts[i].status = "applied" => <<"applied", i, attempts[i].step>> \in DOMAIN facts

\* What a run has not completed is declared by its artifact; what it has, by the
\* artifact that was in use then, and it shows the object it was completed on.
StepsAreDeclared ==
  run > 0 => \A n \in Nodes :
    /\ plan[n] \in DOMAIN publications /\ publications[plan[n]].run = run
    /\ IF n \in Done THEN remoteRef[n] = n ELSE plan[n] = artifact
    /\ status[n] = "applied" => IsUpdate(Cert(plan[n]), n)
    /\ IF status[n] = "satisfied"
       THEN /\ satisfaction[n] = plan[n] /\ ~IsUpdate(Cert(plan[n]), n)
            /\ <<"satisfied", plan[n], n>> \in DOMAIN facts
            /\ \A i \in MyAttempts(n) : attempts[i].status = "no_effect"
       ELSE satisfaction[n] = 0

\* An artifact of the current run has satisfied only steps that still are.
SatisfactionsAreKnown ==
  \A k \in DOMAIN publications, n \in Nodes :
    publications[k].run = run /\ <<"satisfied", k, n>> \in DOMAIN facts => status[n] = "satisfied"

\* A certificate about to be adopted has not been.
AdoptionIsFirst == pc \in {"adopt", "repair"} => ~adopted

RecordsHold ==
  /\ RecordsTypeOK
  /\ RunHasItsInput
  /\ RequestsHaveArtifacts /\ RequestsAreTraced
  /\ StepsAreDeclared
  /\ FactsHaveEvidence /\ LatestFactsExist
  /\ PublicationsHaveEvidence
  /\ SatisfactionsAreKnown

RecordInv == RecordsHold /\ AdoptionIsFirst

-------------------------------------------------------------------------------
(* The records follow the run *)

\* The records do not restrict the run.
LEMMA RecordsFollow ==
  /\ StoredInit => Init
  /\ [StoredNext]_<<vars, records>> => [Next]_vars
<1>1. StoredInit => Init
  BY DEF StoredInit
<1>2. Elsewhere => Next
  BY DEF Elsewhere, Next, Call, Dispatch, Environment
<1>3. StorePublication \/ StoreRequest \/ StoreSatisfaction \/ StoreRepair => Next
  BY DEF StorePublication, StoreRequest, StoreSatisfaction, StoreRepair, Next, Call, Dispatch
<1>4. ASSUME NEW a \in {"applied", "unknown", "refused"}, StoreOutcome(a) PROVE Next
  BY <1>4 DEF StoreOutcome, Next, Dispatch
<1> QED
  BY <1>1, <1>2, <1>3, <1>4 DEF StoredNext

\* A step that writes none of the records leaves what they are about alone.
LEMMA ElsewhereLeaves ==
  ASSUME Elsewhere \/ UNCHANGED vars
  PROVE  UNCHANGED <<run, runCert, status, attempts, fact>>
<1> USE DEF draftVars, pubVars, checkVars, factVars, runVars, stepVars
<1>1. ASSUME NEW new, Edit(new) PROVE UNCHANGED <<run, runCert, status, attempts, fact>>
  BY <1>1 DEF Edit
<1>2. CASE PreflightStart \/ PreflightInspect \/ PreflightFinish \/ PreflightFails \/ PublishRead
  BY <1>2 DEF PreflightStart, PreflightInspect, PreflightFinish, PreflightFails, PublishRead
<1>3. ASSUME NEW v, Recheck(v) PROVE UNCHANGED <<run, runCert, status, attempts, fact>>
  BY <1>3 DEF Recheck
<1>4. CASE Resume \/ Drop \/ ReadBack \/ ReadBackFails \/ ReceiptLate \/ Finish
  BY <1>4 DEF Resume, Drop, ReadBack, ReadBackFails, ReceiptLate, Finish
<1>5. ASSUME NEW i, Execute(i) PROVE UNCHANGED <<run, runCert, status, attempts, fact>>
  BY <1>5 DEF Execute
<1>6. ASSUME NEW n, NEW v, External(n, v) PROVE UNCHANGED <<run, runCert, status, attempts, fact>>
  BY <1>6 DEF External
<1>7. CASE UNCHANGED vars
  BY <1>7 DEF vars
<1> QED
  BY <1>1, <1>2, <1>3, <1>4, <1>5, <1>6, <1>7 DEF Elsewhere, Environment

\* Whoever is about to adopt a certificate made sure that it has not been adopted,
\* or made it himself.
LEMMA AdoptionStep ==
  ASSUME UInv, AdoptionIsFirst, [Next]_vars
  PROVE  AdoptionIsFirst'
<1> USE DEF AdoptionIsFirst, draftVars, pubVars, checkVars, factVars, runVars, stepVars
<1>1. ASSUME NEW new, Edit(new) PROVE AdoptionIsFirst'
  BY <1>1 DEF Edit
<1>2. CASE PreflightStart \/ PreflightInspect \/ PreflightFinish \/ PreflightFails \/ PublishRead
  BY <1>2 DEF PreflightStart, PreflightInspect, PreflightFinish, PreflightFails, PublishRead
<1>3. CASE PublishAdopt \/ AdoptRepair
  BY <1>3 DEF PublishAdopt, AdoptNoop, AdoptRun, AdoptRepair
<1>4. ASSUME NEW v, Recheck(v) PROVE AdoptionIsFirst'
  BY <1>4 DEF Recheck
<1>5. CASE Resume \/ Drop \/ ReadBack \/ ReadBackFails \/ Record \/ Satisfy \/ ReceiptLate \/ Finish
  BY <1>5 DEF Resume, Continue, Drop, ReadBack, ReadBackFails, Record, Satisfy, ReceiptLate, Finish
<1>6. ASSUME NEW a, Respond(a) PROVE AdoptionIsFirst'
  BY <1>6 DEF Respond, CommitApplied, CommitUnknown, CommitRefused, Continue
<1>7. ASSUME NEW i, Execute(i) PROVE AdoptionIsFirst'
  BY <1>7 DEF Execute
<1>8. ASSUME NEW n, NEW v, External(n, v) PROVE AdoptionIsFirst'
  BY <1>8 DEF External
<1>9. CASE UNCHANGED vars
  BY <1>9 DEF vars
<1> QED
  BY <1>1, <1>2, <1>3, <1>4, <1>5, <1>6, <1>7, <1>8, <1>9 DEF Next, Call, Dispatch, Environment

-------------------------------------------------------------------------------
(* What the writes do to the records *)

\* A new publication record leaves the others alone.
LEMMA Appended ==
  ASSUME publications \in Seq(Publication), NEW c \in Certificate, NEW r \in Nat,
         publications' = Append(publications, [cert |-> c, run |-> r])
  PROVE  /\ publications' \in Seq(Publication)
         /\ NewArtifact \in Nat /\ NewArtifact \notin DOMAIN publications
         /\ NewArtifact \in DOMAIN publications'
         /\ publications'[NewArtifact] = [cert |-> c, run |-> r]
         /\ \A k \in DOMAIN publications : k \in DOMAIN publications' /\ publications'[k] = publications[k]
         /\ \A k \in DOMAIN publications' : k \in DOMAIN publications \/ k = NewArtifact
<1>1. [cert |-> c, run |-> r] \in Publication
  BY DEF Publication
<1> QED
  BY <1>1 DEF NewArtifact

FactsAreTyped ==
  /\ DOMAIN facts \subseteq FactId /\ facts \in [DOMAIN facts -> Observation]
  /\ latest \in [Nodes -> FactId]

\* The facts of ns are new.
AreNew(kind, k, ns, values) ==
  \A n \in ns : n \in Nodes /\ values[n] \in Observation /\ <<kind, k, n>> \notin DOMAIN facts

Confirmed(kind, k, ns, values) ==
  /\ FactsAreTyped'
  /\ \A id \in DOMAIN facts : id \in DOMAIN facts' /\ facts'[id] = facts[id]
  /\ \A n \in ns : /\ <<kind, k, n>> \in DOMAIN facts' /\ facts'[<<kind, k, n>>] = values[n]
                    /\ latest'[n] = <<kind, k, n>>
  /\ \A n \in Nodes \ ns : latest'[n] = latest[n]
  /\ \A id \in DOMAIN facts' : id \in DOMAIN facts \/ \E n \in ns : id = <<kind, k, n>>

\* New facts, under ids not in use, leave the others alone.
LEMMA ConfirmDoes ==
  ASSUME FactsAreTyped, NEW kind \in {"applied", "satisfied", "noop"}, NEW k \in Nat,
         NEW ns, NEW values, AreNew(kind, k, ns, values), Confirm(kind, k, ns, values)
  PROVE  Confirmed(kind, k, ns, values)
<1> DEFINE new == {kind} \X {k} \X ns
<1>1. /\ facts' = [id \in DOMAIN facts \cup new |-> IF id \in new THEN values[id[3]] ELSE facts[id]]
      /\ latest' = [n \in Nodes |-> IF n \in ns THEN <<kind, k, n>> ELSE latest[n]]
  BY DEF Confirm
<1>2. \A n \in ns : n \in Nodes /\ values[n] \in Observation /\ <<kind, k, n>> \notin DOMAIN facts
  BY DEF AreNew
<1>3. /\ \A n \in ns : <<kind, k, n>> \in new /\ <<kind, k, n>>[3] = n
      /\ \A id \in new : id[3] \in ns /\ \E n \in ns : id = <<kind, k, n>>
      /\ new \subseteq FactId
  BY <1>2 DEF FactId
<1> HIDE DEF new
<1>4. DOMAIN facts' = DOMAIN facts \cup new
  BY <1>1
<1>5. \A id \in DOMAIN facts : id \notin new /\ facts'[id] = facts[id]
  BY <1>1, <1>2, <1>3
<1>6. \A n \in ns : facts'[<<kind, k, n>>] = values[n]
  BY <1>1, <1>3
<1>7. facts' \in [DOMAIN facts' -> Observation]
  <2>1. \A id \in DOMAIN facts \cup new :
          (IF id \in new THEN values[id[3]] ELSE facts[id]) \in Observation
    BY <1>2, <1>3 DEF FactsAreTyped
  <2> QED
    BY <1>1, <1>4, <2>1
<1>8. latest' \in [Nodes -> FactId]
  BY <1>1, <1>3 DEF FactsAreTyped
<1>9. FactsAreTyped'
  BY <1>3, <1>4, <1>7, <1>8 DEF FactsAreTyped
<1> QED
  BY <1>1, <1>2, <1>3, <1>4, <1>5, <1>6, <1>9 DEF Confirmed

\* What FactsHaveEvidence says of one fact.
Backed(id) ==
  \/ id = <<"applied", 0, id[3]>>
  \/ /\ id[1] = "applied" /\ id[2] \in DOMAIN attempts
     /\ attempts[id[2]].status = "applied" /\ attempts[id[2]].step = id[3]
     /\ receipt[id[2]].ref = id[3]
     /\ facts[id] = [value |-> receipt[id[2]].value, rv |-> attempts[id[2]].seen.rv + 1]
  \/ /\ id[1] \in {"satisfied", "noop"} /\ id[2] \in DOMAIN publications
     /\ facts[id] = Cert(id[2]).seen[id[3]]

LEMMA FactsAreBacked == FactsHaveEvidence <=> \A id \in DOMAIN facts : Backed(id)
BY DEF FactsHaveEvidence, Backed

LEMMA FactsAreBackedNext == FactsHaveEvidence' <=> \A id \in DOMAIN facts' : Backed(id)'
BY DEF FactsHaveEvidence, Backed

\* What a write keeps of the records: publications and facts, the receipts of what is
\* answered, and what a satisfied step rests on.  A pointer moves to a new fact only.
PublicationsStay == \A k \in DOMAIN publications : k \in DOMAIN publications' /\ publications'[k] = publications[k]
FactsStay == \A id \in DOMAIN facts : id \in DOMAIN facts' /\ facts'[id] = facts[id]
ReceiptsStay ==
  \A i \in DOMAIN attempts : /\ i \in DOMAIN attempts' /\ source'[i] = source[i]
                             /\ Open(i) \/ (attempts'[i] = attempts[i] /\ receipt'[i] = receipt[i])
PointersAdvance == \A n \in Nodes : latest'[n] = latest[n] \/ latest'[n] \notin DOMAIN facts
StepsRest ==
  run' = run => /\ runState = "published" => UNCHANGED <<artifact, stepRecords>>
                /\ \A n \in Nodes : status[n] = "satisfied" =>
                     plan'[n] = plan[n] /\ satisfaction'[n] = satisfaction[n] /\ remoteRef'[n] = remoteRef[n]

Keeps == PublicationsStay /\ FactsStay /\ ReceiptsStay /\ PointersAdvance /\ StepsRest

\* The evidence of a fact stays.
LEMMA BackingStays ==
  ASSUME PublicationsStay, FactsStay, ReceiptsStay, NEW id \in DOMAIN facts, Backed(id)
  PROVE  Backed(id)'
<1>1. facts'[id] = facts[id]
  BY DEF FactsStay
<1>2. \A k \in DOMAIN publications : k \in DOMAIN publications' /\ publications'[k] = publications[k]
  BY DEF PublicationsStay
<1>3. \A i \in DOMAIN attempts : attempts[i].status = "applied" =>
        i \in DOMAIN attempts' /\ attempts'[i] = attempts[i] /\ receipt'[i] = receipt[i]
  BY DEF ReceiptsStay, Open
<1> QED
  BY <1>1, <1>2, <1>3 DEF Backed, Cert

-------------------------------------------------------------------------------
(* A request is recorded                                                       *)

LEMMA RequestStep ==
  ASSUME UInv, RecordsHold, StoreRequest
  PROVE  RecordsHold' /\ Keeps
<1>0. /\ Record /\ source' = Append(source, artifact) /\ receipt' = Append(receipt, NoReceipt)
      /\ UNCHANGED <<publications, artifact, facts, latest, plan, satisfaction, remoteRef>>
  BY DEF StoreRequest, adoptionRecords, factRecords, stepRecords
<1> DEFINE n == NextStep
           a == [run |-> run, step |-> n, key |-> key[n], target |-> runCert.target[n],
                 seen |-> runCert.seen[n], status |-> "pending"]
<1>1. /\ n \in Nodes \ Done /\ a \in Attempt /\ attempts' = Append(attempts, a)
      /\ status' = [status EXCEPT ![n] = "dispatching"]
      /\ Done' = Done /\ Unresolved = {} /\ UNCHANGED <<run, runCert, fact>>
  BY <1>0, RecordDoes DEF Record
<1>2. run > 0 /\ IsUpdate(runCert, n)
  BY <1>0 DEF Record, UInv, CallsKnow, RunsAreWhole
<1>3. /\ artifact \in DOMAIN publications /\ publications[artifact] = [cert |-> runCert, run |-> run]
      /\ artifact \in Nat
  BY <1>2 DEF RecordsHold, RunHasItsInput, RecordsTypeOK
<1> HIDE DEF n
<1>4. /\ attempts \in Seq(Attempt) /\ attempts' \in Seq(Attempt)
      /\ Len(attempts) \in Nat /\ Len(attempts') = Len(attempts) + 1
      /\ DOMAIN attempts = 1..Len(attempts) /\ DOMAIN attempts' = 1..Len(attempts')
      /\ attempts'[Len(attempts')] = a
      /\ \A i \in DOMAIN attempts : i \in DOMAIN attempts' /\ attempts'[i] = attempts[i]
      /\ \A i \in DOMAIN attempts' : i \in DOMAIN attempts \/ i = Len(attempts')
  BY <1>1, Recorded DEF UInv, TypeOK
<1>5. /\ source' \in Seq(Nat) /\ Len(source') = Len(attempts')
      /\ receipt' \in Seq(Receipt \cup {NoReceipt}) /\ Len(receipt') = Len(attempts')
      /\ source'[Len(attempts')] = artifact
      /\ \A i \in DOMAIN attempts : source'[i] = source[i] /\ receipt'[i] = receipt[i]
  BY <1>0, <1>3, <1>4 DEF RecordsHold, RecordsTypeOK
<1>6. RecordsTypeOK'
  BY <1>0, <1>5 DEF RecordsHold, RecordsTypeOK
<1>7. RunHasItsInput'
  BY <1>0, <1>1 DEF RecordsHold, RunHasItsInput
<1>8. \A i \in DOMAIN attempts : attempts[i].status \notin {"pending", "unknown"}
  BY <1>1 DEF Unresolved, Open
<1>9. RequestsHaveArtifacts' /\ RequestsAreTraced'
  <2>1. ASSUME NEW i \in DOMAIN attempts'
        PROVE /\ source'[i] \in DOMAIN publications
              /\ publications[source'[i]].run = attempts'[i].run
              /\ IsUpdate(Cert(source'[i]), attempts'[i].step)
              /\ attempts'[i].target = Cert(source'[i]).target[attempts'[i].step]
              /\ attempts'[i].seen = Cert(source'[i]).seen[attempts'[i].step]
              /\ attempts'[i].status = "applied" =>
                   /\ Establishes(source'[i], attempts'[i].step, receipt'[i])
                   /\ <<"applied", i, attempts'[i].step>> \in DOMAIN facts
              /\ attempts'[i].status \in {"pending", "unknown"} => source'[i] = artifact
    <3>1. CASE i \in DOMAIN attempts
      BY <1>4, <1>5, <1>8, <3>1 DEF RecordsHold, RequestsHaveArtifacts, RequestsAreTraced
    <3>2. CASE i = Len(attempts')
      BY <1>2, <1>3, <1>4, <1>5, <3>2 DEF Cert
    <3> QED
      BY <1>4, <3>1, <3>2
  <2>2. RequestsHaveArtifacts'
    BY <1>0, <2>1 DEF RequestsHaveArtifacts, Establishes, Cert
  <2>3. RequestsAreTraced'
    BY <1>0, <2>1 DEF RequestsAreTraced, Open
  <2> QED
    BY <2>2, <2>3
<1>10. ReceiptsStay
  BY <1>4, <1>5 DEF ReceiptsStay
<1>11. PublicationsStay /\ FactsStay /\ PointersAdvance /\ StepsRest
  BY <1>0 DEF PublicationsStay, FactsStay, PointersAdvance, StepsRest, stepRecords
<1>12. FactsHaveEvidence'
  BY <1>0, <1>10, <1>11, BackingStays, FactsAreBacked, FactsAreBackedNext DEF RecordsHold
<1>13. LatestFactsExist' /\ PublicationsHaveEvidence'
  BY <1>0, <1>1 DEF RecordsHold, LatestFactsExist, PublicationsHaveEvidence, Cert
<1>14. /\ \A m \in Nodes : m # n => status'[m] = status[m]
       /\ status[n] # "satisfied" /\ status'[n] = "dispatching" /\ n \notin Done
  BY <1>1 DEF Done, UInv, TypeOK
<1>15. \A m \in Nodes : status[m] = "satisfied" => status'[m] = "satisfied"
  BY <1>14
<1>16. SatisfactionsAreKnown'
  BY <1>0, <1>1, <1>15 DEF RecordsHold, SatisfactionsAreKnown
<1>17. StepsAreDeclared'
  <2>1. ASSUME NEW m \in Nodes, m # n PROVE MyAttempts(m)' = MyAttempts(m)
    BY <1>1, <1>4, <2>1 DEF MyAttempts
  <2>2. ASSUME NEW m \in Nodes, m # n
        PROVE \A i \in MyAttempts(m)' : attempts'[i] = attempts[i]
    BY <1>4, <2>1, <2>2 DEF MyAttempts
  <2>3. ASSUME NEW m \in Nodes
        PROVE  /\ plan[m] \in DOMAIN publications /\ publications[plan[m]].run = run
               /\ IF m \in Done THEN remoteRef[m] = m ELSE plan[m] = artifact
               /\ status'[m] = "applied" => IsUpdate(Cert(plan[m]), m)
               /\ IF status'[m] = "satisfied"
                  THEN /\ satisfaction[m] = plan[m] /\ ~IsUpdate(Cert(plan[m]), m)
                       /\ <<"satisfied", plan[m], m>> \in DOMAIN facts
                       /\ \A i \in MyAttempts(m)' : attempts'[i].status = "no_effect"
                  ELSE satisfaction[m] = 0
    <3>1. CASE m = n
      BY <1>2, <1>14, <3>1 DEF RecordsHold, StepsAreDeclared
    <3>2. CASE m # n
      BY <1>2, <1>14, <2>1, <2>2, <3>2 DEF RecordsHold, StepsAreDeclared
    <3> QED
      BY <3>1, <3>2
  <2> QED
    BY <1>0, <1>1, <2>3 DEF StepsAreDeclared, Cert
<1> QED
  BY <1>6, <1>7, <1>9, <1>10, <1>11, <1>12, <1>13, <1>16, <1>17 DEF RecordsHold, Keeps

-------------------------------------------------------------------------------
(* A step is satisfied                                                        *)

LEMMA SatisfactionStep ==
  ASSUME UInv, RecordsHold, StoreSatisfaction
  PROVE  RecordsHold' /\ Keeps
<1> DEFINE n == NextStep
<1>0. /\ Satisfy /\ Confirm("satisfied", artifact, {n}, Cert(artifact).seen)
      /\ satisfaction' = [satisfaction EXCEPT ![n] = artifact]
      /\ remoteRef' = [remoteRef EXCEPT ![n] = n]
      /\ UNCHANGED <<publications, artifact, source, receipt, plan>>
  BY DEF StoreSatisfaction, adoptionRecords, attemptRecords
<1>1. /\ n \in Nodes \ Done /\ runCert \in Certificate /\ Unresolved = {}
      /\ ~IsUpdate(runCert, n)
      /\ fact' = [fact EXCEPT ![n] = runCert.seen[n]]
      /\ status' = [status EXCEPT ![n] = "satisfied"]
      /\ UNCHANGED <<run, runCert, attempts, runState>>
  BY <1>0, NextStepIsOpen DEF Satisfy, UInv, TypeOK, CallsKnow, RunsAreWhole, runVars
<1> HIDE DEF n
<1>2. run > 0 /\ runState # "published"
  BY <1>0 DEF Satisfy, UInv, CallsKnow, RunsAreWhole
<1>3. /\ artifact \in DOMAIN publications /\ publications[artifact] = [cert |-> runCert, run |-> run]
      /\ artifact \in Nat /\ Cert(artifact) = runCert
  BY <1>2 DEF RecordsHold, RunHasItsInput, RecordsTypeOK, Cert
<1>4. /\ \A m \in Nodes : m # n => status'[m] = status[m]
      /\ status'[n] = "satisfied" /\ status[n] \notin {"applied", "satisfied"}
      /\ Done' = Done \cup {n}
  BY <1>1 DEF Done, UInv, TypeOK
<1>5. <<"satisfied", artifact, n>> \notin DOMAIN facts
  BY <1>1, <1>3, <1>4 DEF RecordsHold, SatisfactionsAreKnown
<1>6. runCert.seen[n] \in Observation
  BY <1>1 DEF Certificate
<1>7. /\ DOMAIN facts' \subseteq FactId /\ facts' \in [DOMAIN facts' -> Observation]
      /\ latest' \in [Nodes -> FactId]
      /\ \A id \in DOMAIN facts : id \in DOMAIN facts' /\ facts'[id] = facts[id]
      /\ <<"satisfied", artifact, n>> \in DOMAIN facts'
      /\ facts'[<<"satisfied", artifact, n>>] = runCert.seen[n]
      /\ latest'[n] = <<"satisfied", artifact, n>>
      /\ \A m \in Nodes \ {n} : latest'[m] = latest[m]
      /\ \A id \in DOMAIN facts' : id \in DOMAIN facts \/ id = <<"satisfied", artifact, n>>
  <2> DEFINE values == Cert(artifact).seen
  <2>1. FactsAreTyped /\ Confirm("satisfied", artifact, {n}, values) /\ values[n] = runCert.seen[n]
    BY <1>0, <1>3 DEF RecordsHold, RecordsTypeOK, FactsAreTyped
  <2> HIDE DEF values
  <2>2. AreNew("satisfied", artifact, {n}, values)
    BY <1>1, <1>5, <1>6, <2>1 DEF AreNew
  <2>3. Confirmed("satisfied", artifact, {n}, values)
    BY <1>3, <2>1, <2>2, ConfirmDoes
  <2> QED
    BY <2>1, <2>3 DEF Confirmed, FactsAreTyped
<1>8. PublicationsStay /\ FactsStay /\ ReceiptsStay
  BY <1>0, <1>1, <1>7 DEF PublicationsStay, FactsStay, ReceiptsStay
<1>9. PointersAdvance
  BY <1>1, <1>5, <1>7 DEF PointersAdvance
<1>10. /\ \A m \in Nodes : m # n => satisfaction'[m] = satisfaction[m] /\ remoteRef'[m] = remoteRef[m]
       /\ satisfaction'[n] = artifact /\ remoteRef'[n] = n
  BY <1>0, <1>1 DEF RecordsHold, RecordsTypeOK
<1>11. StepsRest
  BY <1>0, <1>2, <1>4, <1>10 DEF StepsRest
<1>12. RecordsTypeOK'
  BY <1>0, <1>1, <1>3, <1>7 DEF RecordsHold, RecordsTypeOK
<1>13. RunHasItsInput' /\ RequestsHaveArtifacts'
  BY <1>0, <1>1 DEF RecordsHold, RunHasItsInput, RequestsHaveArtifacts, Establishes, Cert
<1>14. RequestsAreTraced'
  BY <1>0, <1>1, <1>7 DEF RecordsHold, RequestsAreTraced, Open
<1>15. ASSUME NEW id, id = <<"satisfied", artifact, n>> PROVE Backed(id)'
  <2>1. id[1] = "satisfied" /\ id[2] = artifact /\ id[3] = n
    BY <1>15
  <2>2. facts'[id] = publications'[artifact].cert.seen[n]
    BY <1>0, <1>3, <1>7, <1>15
  <2> QED
    BY <1>0, <1>3, <2>1, <2>2 DEF Backed, Cert
<1>16. FactsHaveEvidence'
  BY <1>7, <1>8, <1>15, BackingStays, FactsAreBacked, FactsAreBackedNext DEF RecordsHold
<1>17. LatestFactsExist'
  <2>0. fact'[n] = runCert.seen[n] /\ \A m \in Nodes : m # n => fact'[m] = fact[m]
    BY <1>1 DEF UInv, TypeOK
  <2>1. ASSUME NEW m \in Nodes
        PROVE  latest'[m] \in DOMAIN facts' /\ latest'[m][3] = m /\ facts'[latest'[m]] = fact'[m]
    <3>1. CASE m = n
      BY <1>7, <2>0, <3>1
    <3>2. CASE m # n
      BY <1>7, <2>0, <3>2 DEF RecordsHold, LatestFactsExist
    <3> QED
      BY <3>1, <3>2
  <2> QED
    BY <2>1 DEF LatestFactsExist
<1>18. PublicationsHaveEvidence'
  BY <1>0, <1>1, <1>7 DEF RecordsHold, PublicationsHaveEvidence, Cert
<1>19. SatisfactionsAreKnown'
  <2>1. ASSUME NEW k \in DOMAIN publications, NEW m \in Nodes,
               publications[k].run = run, <<"satisfied", k, m>> \in DOMAIN facts'
        PROVE  status'[m] = "satisfied"
    <3>1. CASE <<"satisfied", k, m>> \in DOMAIN facts
      BY <1>4, <2>1, <3>1 DEF RecordsHold, SatisfactionsAreKnown
    <3>2. CASE <<"satisfied", k, m>> = <<"satisfied", artifact, n>>
      BY <1>4, <3>2
    <3> QED
      BY <1>7, <2>1, <3>1, <3>2
  <2> QED
    BY <1>0, <1>1, <2>1 DEF SatisfactionsAreKnown
<1>20. \A i \in MyAttempts(n) : attempts[i].status = "no_effect"
  <2>1. ASSUME NEW i \in MyAttempts(n) PROVE attempts[i].status = "no_effect"
    <3>1. i \in DOMAIN attempts /\ attempts[i].run = run /\ attempts[i].step = n
      BY DEF MyAttempts
    <3>2. ~Open(i) /\ attempts[i].status # "applied"
      BY <1>1, <3>1 DEF UInv, HistoryIsTrue, Unresolved
    <3> QED
      BY <3>1, <3>2, AttemptTypes DEF Open, UInv
  <2> QED
    BY <2>1
<1>21. StepsAreDeclared'
  <2>1. ASSUME NEW m \in Nodes
        PROVE  /\ plan[m] \in DOMAIN publications /\ publications[plan[m]].run = run
               /\ IF m \in Done' THEN remoteRef'[m] = m ELSE plan[m] = artifact
               /\ status'[m] = "applied" => IsUpdate(Cert(plan[m]), m)
               /\ IF status'[m] = "satisfied"
                  THEN /\ satisfaction'[m] = plan[m] /\ ~IsUpdate(Cert(plan[m]), m)
                       /\ <<"satisfied", plan[m], m>> \in DOMAIN facts'
                       /\ \A i \in MyAttempts(m) : attempts[i].status = "no_effect"
                  ELSE satisfaction'[m] = 0
    <3>1. CASE m = n
      <4>1. plan[n] = artifact
        BY <1>1, <1>2 DEF RecordsHold, StepsAreDeclared
      <4> QED
        BY <1>1, <1>3, <1>4, <1>7, <1>10, <1>20, <3>1, <4>1
    <3>2. CASE m # n
      BY <1>2, <1>4, <1>7, <1>10, <3>2 DEF RecordsHold, StepsAreDeclared
    <3> QED
      BY <3>1, <3>2
  <2>2. \A m \in Nodes : MyAttempts(m)' = MyAttempts(m)
    BY <1>1 DEF MyAttempts
  <2> QED
    BY <1>0, <1>1, <2>1, <2>2 DEF StepsAreDeclared, Cert
<1> QED
  BY <1>8, <1>9, <1>11, <1>12, <1>13, <1>14, <1>16, <1>17, <1>18, <1>19, <1>21 DEF RecordsHold, Keeps

-------------------------------------------------------------------------------
(* An answer is recorded                                                      *)

\* Whatever the answer, it is about the open request, built from the artifact in use.
LEMMA OutcomeDoes ==
  ASSUME UInv, RecordsHold, NEW a, Respond(a)
  PROVE  LET i == TheRequest
             n == attempts[i].step
         IN /\ i \in DOMAIN attempts /\ i \in Nat /\ i # 0 /\ Open(i) /\ source[i] = artifact
            /\ n \in Nodes /\ n \notin Done /\ attempts[i] \in Attempt
            /\ attempts' \in Seq(Attempt) /\ Len(attempts') = Len(attempts)
            /\ DOMAIN attempts' = DOMAIN attempts
            /\ \A j \in DOMAIN attempts :
                 /\ attempts'[j].run = attempts[j].run /\ attempts'[j].step = attempts[j].step
                 /\ attempts'[j].target = attempts[j].target /\ attempts'[j].seen = attempts[j].seen
                 /\ j # i => attempts'[j] = attempts[j] /\ ~Open(j)
            /\ \/ CommitApplied(i) /\ attempts'[i].status = "applied"
               \/ CommitUnknown(i) /\ attempts'[i].status = "unknown"
               \/ CommitRefused(i) /\ attempts'[i].status = "no_effect"
            /\ run > 0 /\ runState # "published" /\ UNCHANGED <<run, runCert>>
<1> DEFINE i == TheRequest
<1>1. i \in DOMAIN attempts /\ Commits(i)
  BY RespondCommits DEF Commits
<1>2. run > 0 /\ runState # "published"
  BY DEF Respond, UInv, CallsKnow, RunsAreWhole
<1> HIDE DEF i
<1>3. attempts \in Seq(Attempt)
  BY DEF UInv, TypeOK
<1>4. i \in Nat /\ i # 0
  BY <1>1, <1>3
<1>5. attempts[i].step \in Nodes
  BY <1>1, AttemptTypes DEF UInv
<1>6. Open(i) /\ source[i] = artifact
  BY <1>1, CommitDoes DEF RecordsHold, RequestsAreTraced
<1>7. /\ attempts[i].step \notin Done /\ attempts[i] \in Attempt
      /\ attempts' \in Seq(Attempt) /\ Len(attempts') = Len(attempts)
      /\ DOMAIN attempts' = DOMAIN attempts
      /\ \A j \in DOMAIN attempts :
           /\ attempts'[j].run = attempts[j].run /\ attempts'[j].step = attempts[j].step
           /\ attempts'[j].target = attempts[j].target /\ attempts'[j].seen = attempts[j].seen
           /\ j # i => attempts'[j] = attempts[j] /\ ~Open(j)
      /\ \/ CommitApplied(i) /\ attempts'[i].status = "applied"
         \/ CommitUnknown(i) /\ attempts'[i].status = "unknown"
         \/ CommitRefused(i) /\ attempts'[i].status = "no_effect"
      /\ UNCHANGED <<run, runCert>>
  BY <1>1, CommitDoes
<1> QED
  BY <1>1, <1>2, <1>4, <1>5, <1>6, <1>7 DEF i

\* An answer that confirms nothing.
LEMMA NothingConfirmedStep ==
  ASSUME UInv, RecordsHold, NEW a \in {"unknown", "refused"}, StoreOutcome(a)
  PROVE  RecordsHold' /\ Keeps
<1> DEFINE i == TheRequest
           n == attempts[i].step
<1>0. /\ Respond(a)
      /\ UNCHANGED <<publications, artifact, facts, latest, source, receipt, plan, satisfaction, remoteRef>>
  BY DEF StoreOutcome, adoptionRecords, factRecords
<1>1. /\ i \in DOMAIN attempts /\ Open(i) /\ source[i] = artifact /\ n \in Nodes /\ n \notin Done
      /\ Len(attempts') = Len(attempts) /\ DOMAIN attempts' = DOMAIN attempts
      /\ \A j \in DOMAIN attempts :
           /\ attempts'[j].run = attempts[j].run /\ attempts'[j].step = attempts[j].step
           /\ attempts'[j].target = attempts[j].target /\ attempts'[j].seen = attempts[j].seen
           /\ j # i => attempts'[j] = attempts[j] /\ ~Open(j)
      /\ \/ CommitApplied(i)
         \/ CommitUnknown(i) /\ attempts'[i].status = "unknown"
         \/ CommitRefused(i) /\ attempts'[i].status = "no_effect"
      /\ run > 0 /\ runState # "published" /\ UNCHANGED <<run, runCert>>
  BY <1>0, OutcomeDoes
<1>2. (CommitUnknown(i) \/ CommitRefused(i)) /\ ~CommitApplied(i)
  <2>1. CommitUnknown(i) \/ CommitRefused(i)
    BY <1>0 DEF Respond
  <2> QED
    BY <2>1 DEF CommitApplied, CommitUnknown, CommitRefused
<1> HIDE DEF i
<1>3. attempts'[i].status \in {"unknown", "no_effect"} /\ UNCHANGED fact
  BY <1>1, <1>2 DEF CommitUnknown, CommitRefused, factVars
<1>4. status' = [status EXCEPT ![n] = "unknown"] \/ status' = [status EXCEPT ![n] = "ready"]
  BY <1>2 DEF CommitUnknown, CommitRefused
<1>5. /\ \A m \in Nodes : m # n => status'[m] = status[m]
      /\ status'[n] \notin {"applied", "satisfied"} /\ status[n] \notin {"applied", "satisfied"}
      /\ Done' = Done
  <2>1. status \in [Nodes -> {"ready", "dispatching", "unknown", "applied", "satisfied"}] /\ n \in Nodes
    BY <1>1 DEF UInv, TypeOK
  <2> HIDE DEF n
  <2> QED
    BY <1>1, <1>4, <2>1 DEF Done
<1> HIDE DEF n
<1>6. PublicationsStay /\ FactsStay /\ PointersAdvance /\ StepsRest
  BY <1>0 DEF PublicationsStay, FactsStay, PointersAdvance, StepsRest, stepRecords
<1>7. ReceiptsStay
  BY <1>0, <1>1 DEF ReceiptsStay
<1>8. RecordsTypeOK' /\ RunHasItsInput'
  BY <1>0, <1>1 DEF RecordsHold, RecordsTypeOK, RunHasItsInput
<1>9. RequestsHaveArtifacts'
  <2>1. ASSUME NEW j \in DOMAIN attempts, attempts'[j].status = "applied"
        PROVE  attempts[j].status = "applied"
    BY <1>1, <1>3, <2>1
  <2> QED
    BY <1>0, <1>1, <2>1 DEF RecordsHold, RequestsHaveArtifacts, Establishes, Cert
<1>10. RequestsAreTraced'
  BY <1>0, <1>1, <1>3 DEF RecordsHold, RequestsAreTraced, Open
<1>11. FactsHaveEvidence'
  BY <1>0, <1>6, <1>7, BackingStays, FactsAreBacked, FactsAreBackedNext DEF RecordsHold
<1>12. LatestFactsExist' /\ PublicationsHaveEvidence'
  BY <1>0, <1>1, <1>3 DEF RecordsHold, LatestFactsExist, PublicationsHaveEvidence, Cert
<1>13. SatisfactionsAreKnown'
  BY <1>0, <1>1, <1>5 DEF RecordsHold, SatisfactionsAreKnown
<1>14. StepsAreDeclared'
  <2>1. \A m \in Nodes : MyAttempts(m)' = MyAttempts(m)
    BY <1>1 DEF MyAttempts
  <2>2. ASSUME NEW m \in Nodes, m # n, NEW j \in MyAttempts(m) PROVE attempts'[j] = attempts[j]
    BY <1>1, <2>2 DEF MyAttempts, n
  <2>3. ASSUME NEW m \in Nodes
        PROVE  /\ plan[m] \in DOMAIN publications /\ publications[plan[m]].run = run
               /\ IF m \in Done THEN remoteRef[m] = m ELSE plan[m] = artifact
               /\ status'[m] = "applied" => IsUpdate(Cert(plan[m]), m)
               /\ IF status'[m] = "satisfied"
                  THEN /\ satisfaction[m] = plan[m] /\ ~IsUpdate(Cert(plan[m]), m)
                       /\ <<"satisfied", plan[m], m>> \in DOMAIN facts
                       /\ \A j \in MyAttempts(m) : attempts'[j].status = "no_effect"
                  ELSE satisfaction[m] = 0
    <3>1. CASE m = n
      BY <1>1, <1>5, <3>1 DEF RecordsHold, StepsAreDeclared
    <3>2. CASE m # n
      BY <1>1, <1>5, <2>2, <3>2 DEF RecordsHold, StepsAreDeclared
    <3> QED
      BY <3>1, <3>2
  <2> QED
    BY <1>0, <1>1, <1>5, <2>1, <2>3 DEF StepsAreDeclared, Cert
<1> QED
  BY <1>6, <1>7, <1>8, <1>9, <1>10, <1>11, <1>12, <1>13, <1>14 DEF RecordsHold, Keeps

\* A confirmed answer: the step is completed on its object, and the receipt makes a fact.
LEMMA ConfirmationStep ==
  ASSUME UInv, RecordsHold, StoreOutcome("applied")
  PROVE  RecordsHold' /\ Keeps
<1> DEFINE i == TheRequest
           n == attempts[i].step
<1>0. /\ Respond("applied")
      /\ UNCHANGED <<publications, artifact, source, plan, satisfaction>>
      /\ \E rc \in Receipt :
           /\ Establishes(source[i], n, rc)
           /\ receipt' = [receipt EXCEPT ![i] = rc]
           /\ remoteRef' = [remoteRef EXCEPT ![n] = rc.ref]
           /\ Confirm("applied", i, {n},
                      [m \in {n} |-> [value |-> rc.value, rv |-> attempts[i].seen.rv + 1]])
  BY DEF StoreOutcome, adoptionRecords
<1>1. /\ i \in DOMAIN attempts /\ i \in Nat /\ i # 0 /\ Open(i) /\ source[i] = artifact
      /\ n \in Nodes /\ n \notin Done
      /\ attempts' \in Seq(Attempt)
      /\ Len(attempts') = Len(attempts) /\ DOMAIN attempts' = DOMAIN attempts
      /\ \A j \in DOMAIN attempts :
           /\ attempts'[j].run = attempts[j].run /\ attempts'[j].step = attempts[j].step
           /\ attempts'[j].target = attempts[j].target /\ attempts'[j].seen = attempts[j].seen
           /\ j # i => attempts'[j] = attempts[j] /\ ~Open(j)
      /\ \/ CommitApplied(i) /\ attempts'[i].status = "applied"
         \/ CommitUnknown(i)
         \/ CommitRefused(i)
      /\ run > 0 /\ runState # "published" /\ UNCHANGED <<run, runCert>>
  BY <1>0, OutcomeDoes
<1>2. CommitApplied(i) /\ attempts'[i].status = "applied"
  <2>1. CommitApplied(i)
    BY <1>0 DEF Respond
  <2> QED
    BY <1>1, <2>1 DEF CommitApplied, CommitUnknown, CommitRefused
<1> HIDE DEF i
<1>3. PICK rc \in Receipt :
        /\ Establishes(source[i], n, rc)
        /\ receipt' = [receipt EXCEPT ![i] = rc]
        /\ remoteRef' = [remoteRef EXCEPT ![n] = rc.ref]
        /\ Confirm("applied", i, {n},
                   [m \in {n} |-> [value |-> rc.value, rv |-> attempts[i].seen.rv + 1]])
  BY <1>0
<1> DEFINE o == [value |-> attempts[i].target, rv |-> attempts[i].seen.rv + 1]
<1>4. /\ status' = [status EXCEPT ![n] = "applied"] /\ fact' = [fact EXCEPT ![n] = o]
      /\ Open(i) /\ attempts[i].status # "applied"
  BY <1>1, <1>2 DEF CommitApplied, Open
<1>5. o \in Observation /\ attempts[i].step = n
  BY <1>1, AttemptTypes DEF UInv, Observation
<1> HIDE DEF n, o
<1>6. /\ \A m \in Nodes : m # n => status'[m] = status[m] /\ fact'[m] = fact[m]
      /\ status'[n] = "applied" /\ status[n] \notin {"applied", "satisfied"} /\ fact'[n] = o
      /\ Done' = Done \cup {n}
  BY <1>1, <1>4 DEF Done, UInv, TypeOK
<1>7. /\ artifact \in DOMAIN publications /\ IsUpdate(Cert(artifact), n)
      /\ rc.ref = n /\ rc.value = attempts[i].target
      /\ plan[n] = artifact
  BY <1>1, <1>3, <1>5, <1>6 DEF RecordsHold, RunHasItsInput, RequestsHaveArtifacts, Establishes, StepsAreDeclared
<1>8. <<"applied", i, n>> \notin DOMAIN facts
  <2> SUFFICES ASSUME NEW id \in DOMAIN facts, id = <<"applied", i, n>> PROVE FALSE
    OBVIOUS
  <2>1. id[1] = "applied" /\ id[2] = i /\ id[3] = n /\ id # <<"applied", 0, n>>
    BY <1>1
  <2> QED
    BY <1>4, <2>1, FactsAreBacked DEF RecordsHold, Backed
<1>9. /\ DOMAIN facts' \subseteq FactId /\ facts' \in [DOMAIN facts' -> Observation]
      /\ latest' \in [Nodes -> FactId]
      /\ \A id \in DOMAIN facts : id \in DOMAIN facts' /\ facts'[id] = facts[id]
      /\ <<"applied", i, n>> \in DOMAIN facts' /\ facts'[<<"applied", i, n>>] = o
      /\ latest'[n] = <<"applied", i, n>> /\ \A m \in Nodes \ {n} : latest'[m] = latest[m]
      /\ \A id \in DOMAIN facts' : id \in DOMAIN facts \/ id = <<"applied", i, n>>
  <2> DEFINE values == [m \in {n} |-> [value |-> rc.value, rv |-> attempts[i].seen.rv + 1]]
  <2>1. FactsAreTyped /\ Confirm("applied", i, {n}, values)
    BY <1>3 DEF RecordsHold, RecordsTypeOK, FactsAreTyped
  <2>2. values[n] = o
    BY <1>7 DEF o
  <2> HIDE DEF values
  <2>3. AreNew("applied", i, {n}, values)
    BY <1>1, <1>5, <1>8, <2>2 DEF AreNew
  <2>4. Confirmed("applied", i, {n}, values)
    BY <1>1, <2>1, <2>3, ConfirmDoes
  <2> QED
    BY <2>2, <2>4 DEF Confirmed, FactsAreTyped
<1>10. /\ \A m \in Nodes : m # n => remoteRef'[m] = remoteRef[m]
       /\ remoteRef'[n] = n
  BY <1>1, <1>3, <1>7 DEF RecordsHold, RecordsTypeOK
<1>11. /\ receipt' \in Seq(Receipt \cup {NoReceipt}) /\ Len(receipt') = Len(attempts') /\ receipt'[i] = rc
       /\ \A j \in DOMAIN attempts : j # i => receipt'[j] = receipt[j]
  <2>1. receipt \in Seq(Receipt \cup {NoReceipt}) /\ Len(receipt) = Len(attempts) /\ attempts \in Seq(Attempt)
    BY DEF RecordsHold, RecordsTypeOK, UInv, TypeOK
  <2> QED
    BY <1>1, <1>3, <2>1
<1>12. RecordsTypeOK'
  BY <1>0, <1>1, <1>3, <1>7, <1>9, <1>11 DEF RecordsHold, RecordsTypeOK
<1>13. RunHasItsInput'
  BY <1>0, <1>1 DEF RecordsHold, RunHasItsInput
<1>14. PublicationsStay /\ FactsStay /\ ReceiptsStay
  BY <1>0, <1>1, <1>9, <1>11 DEF PublicationsStay, FactsStay, ReceiptsStay
<1>15. PointersAdvance
  BY <1>1, <1>8, <1>9 DEF PointersAdvance
<1>16. StepsRest
  BY <1>0, <1>1, <1>6, <1>10 DEF StepsRest
<1>17. RequestsHaveArtifacts'
  <2>1. ASSUME NEW j \in DOMAIN attempts, attempts'[j].status = "applied"
        PROVE  Establishes(source[j], attempts[j].step, receipt'[j])
    <3>1. CASE j = i
      BY <1>3, <1>5, <1>11, <3>1
    <3>2. CASE j # i
      BY <1>1, <1>11, <2>1, <3>2 DEF RecordsHold, RequestsHaveArtifacts
    <3> QED
      BY <3>1, <3>2
  <2> QED
    BY <1>0, <1>1, <2>1 DEF RecordsHold, RequestsHaveArtifacts, Establishes, Cert
<1>18. RequestsAreTraced'
  <2>1. ASSUME NEW j \in DOMAIN attempts
        PROVE  /\ attempts'[j].status \in {"pending", "unknown"} => source[j] = artifact
               /\ attempts'[j].status = "applied" => <<"applied", j, attempts[j].step>> \in DOMAIN facts'
    <3>1. CASE j = i
      BY <1>2, <1>5, <1>9, <3>1
    <3>2. CASE j # i
      BY <1>1, <1>9, <3>2 DEF RecordsHold, RequestsAreTraced, Open
    <3> QED
      BY <3>1, <3>2
  <2> QED
    BY <1>0, <1>1, <2>1 DEF RequestsAreTraced, Open
<1>19. ASSUME NEW id, id = <<"applied", i, n>> PROVE Backed(id)'
  <2>1. id[1] = "applied" /\ id[2] = i /\ id[3] = n
    BY <1>19
  <2>2. /\ i \in DOMAIN attempts' /\ attempts'[i].status = "applied" /\ attempts'[i].step = n
        /\ receipt'[i].ref = n
    BY <1>1, <1>2, <1>5, <1>7, <1>11
  <2>3. facts'[id] = [value |-> receipt'[i].value, rv |-> attempts'[i].seen.rv + 1]
    BY <1>1, <1>7, <1>9, <1>11, <1>19 DEF o
  <2> QED
    BY <2>1, <2>2, <2>3 DEF Backed
<1>20. FactsHaveEvidence'
  BY <1>9, <1>14, <1>19, BackingStays, FactsAreBacked, FactsAreBackedNext DEF RecordsHold
<1>21. LatestFactsExist'
  <2>1. ASSUME NEW m \in Nodes
        PROVE  latest'[m] \in DOMAIN facts' /\ latest'[m][3] = m /\ facts'[latest'[m]] = fact'[m]
    <3>1. CASE m = n
      BY <1>6, <1>9, <3>1
    <3>2. CASE m # n
      BY <1>6, <1>9, <3>2 DEF RecordsHold, LatestFactsExist
    <3> QED
      BY <3>1, <3>2
  <2> QED
    BY <2>1 DEF LatestFactsExist
<1>22. PublicationsHaveEvidence'
  BY <1>0, <1>1, <1>9 DEF RecordsHold, PublicationsHaveEvidence, Cert
<1>23. SatisfactionsAreKnown'
  <2>1. ASSUME NEW k \in DOMAIN publications, NEW m \in Nodes,
               publications[k].run = run, <<"satisfied", k, m>> \in DOMAIN facts'
        PROVE  status'[m] = "satisfied"
    <3>1. <<"satisfied", k, m>> \in DOMAIN facts
      BY <1>9, <2>1
    <3>2. status[m] = "satisfied"
      BY <2>1, <3>1 DEF RecordsHold, SatisfactionsAreKnown
    <3> QED
      BY <1>6, <3>2
  <2> QED
    BY <1>0, <1>1, <2>1 DEF SatisfactionsAreKnown
<1>24. StepsAreDeclared'
  <2>1. \A m \in Nodes : MyAttempts(m)' = MyAttempts(m)
    BY <1>1 DEF MyAttempts
  <2>2. ASSUME NEW m \in Nodes, m # n, NEW j \in MyAttempts(m) PROVE attempts'[j] = attempts[j]
    BY <1>1, <1>5, <2>2 DEF MyAttempts
  <2>3. ASSUME NEW m \in Nodes
        PROVE  /\ plan[m] \in DOMAIN publications /\ publications[plan[m]].run = run
               /\ IF m \in Done' THEN remoteRef'[m] = m ELSE plan[m] = artifact
               /\ status'[m] = "applied" => IsUpdate(Cert(plan[m]), m)
               /\ IF status'[m] = "satisfied"
                  THEN /\ satisfaction[m] = plan[m] /\ ~IsUpdate(Cert(plan[m]), m)
                       /\ <<"satisfied", plan[m], m>> \in DOMAIN facts'
                       /\ \A j \in MyAttempts(m) : attempts'[j].status = "no_effect"
                  ELSE satisfaction[m] = 0
    <3>1. CASE m = n
      BY <1>1, <1>6, <1>7, <1>10, <3>1 DEF RecordsHold, StepsAreDeclared
    <3>2. CASE m # n
      BY <1>1, <1>6, <1>9, <1>10, <2>2, <3>2 DEF RecordsHold, StepsAreDeclared
    <3> QED
      BY <3>1, <3>2
  <2> QED
    BY <1>0, <1>1, <2>1, <2>3 DEF StepsAreDeclared, Cert
<1> QED
  BY <1>12, <1>13, <1>14, <1>15, <1>16, <1>17, <1>18, <1>20, <1>21, <1>22, <1>23, <1>24
     DEF RecordsHold, Keeps

-------------------------------------------------------------------------------
(* A certificate is adopted                                                   *)

\* No fact is about an artifact that does not exist yet.
LEMMA NoFactYet ==
  ASSUME RecordsHold, NEW kind \in {"satisfied", "noop"}, NEW n \in Nodes
  PROVE  <<kind, NewArtifact, n>> \notin DOMAIN facts
<1> SUFFICES ASSUME NEW id \in DOMAIN facts, id = <<kind, NewArtifact, n>> PROVE FALSE
  OBVIOUS
<1>1. id[1] = kind /\ id[2] = NewArtifact /\ id # <<"applied", 0, id[3]>>
  OBVIOUS
<1>2. NewArtifact \in DOMAIN publications
  BY <1>1, FactsAreBacked DEF RecordsHold, Backed
<1> QED
  BY <1>2 DEF NewArtifact, RecordsHold, RecordsTypeOK

\* A new artifact changes nothing for the requests there are.
LEMMA RequestsRest ==
  ASSUME RequestsHaveArtifacts, PublicationsStay, UNCHANGED <<attempts, source, receipt>>
  PROVE  RequestsHaveArtifacts'
<1>1. ASSUME NEW i \in DOMAIN attempts
      PROVE  LET k == source[i]
                 n == attempts[i].step
                 c == publications'[k].cert
             IN /\ k \in DOMAIN publications' /\ publications'[k].run = attempts[i].run
                /\ IsUpdate(c, n)
                /\ attempts[i].target = c.target[n] /\ attempts[i].seen = c.seen[n]
                /\ attempts[i].status = "applied" => receipt[i] = [ref |-> n, value |-> c.target[n]]
  <2>1. source[i] \in DOMAIN publications
    BY DEF RequestsHaveArtifacts
  <2>2. source[i] \in DOMAIN publications' /\ publications'[source[i]] = publications[source[i]]
    BY <2>1 DEF PublicationsStay
  <2> QED
    BY <2>2 DEF RequestsHaveArtifacts, Establishes, Cert
<1> QED
  BY <1>1 DEF RequestsHaveArtifacts, Establishes, Cert

LEMMA RepairStep ==
  ASSUME UInv, RecordsHold, StoreRepair
  PROVE  RecordsHold' /\ Keeps
<1>0. /\ AdoptRepair /\ publications' = Append(publications, [cert |-> check, run |-> run])
      /\ artifact' = NewArtifact
      /\ plan' = [n \in Nodes |-> IF n \in Done THEN plan[n] ELSE NewArtifact]
      /\ satisfaction' = [n \in Nodes |-> IF n \in Done THEN satisfaction[n] ELSE 0]
      /\ remoteRef' = [n \in Nodes |-> IF n \in Done THEN remoteRef[n] ELSE 0]
      /\ UNCHANGED <<facts, latest, source, receipt>>
  BY DEF StoreRepair, factRecords, attemptRecords
<1>1. /\ check \in Certificate /\ runCert' = check /\ Unresolved = {} /\ runState # "published"
      /\ Done' = Done /\ UNCHANGED <<run, attempts, fact>>
      /\ status' = [n \in Nodes |-> IF n \in Done THEN status[n] ELSE "ready"]
  BY <1>0, RepairDoes DEF AdoptRepair
<1>2. run > 0 /\ run \in Nat
  BY <1>1 DEF UInv, TypeOK, RunsAreWhole
<1>3. /\ publications' \in Seq(Publication)
      /\ NewArtifact \in Nat /\ NewArtifact \notin DOMAIN publications /\ NewArtifact \in DOMAIN publications'
      /\ publications'[NewArtifact] = [cert |-> check, run |-> run]
      /\ \A k \in DOMAIN publications : k \in DOMAIN publications' /\ publications'[k] = publications[k]
      /\ \A k \in DOMAIN publications' : k \in DOMAIN publications \/ k = NewArtifact
  BY <1>0, <1>1, <1>2, Appended DEF RecordsHold, RecordsTypeOK
<1>4. PublicationsStay /\ FactsStay /\ ReceiptsStay /\ PointersAdvance
  BY <1>0, <1>1, <1>3 DEF PublicationsStay, FactsStay, ReceiptsStay, PointersAdvance
<1>5. \A n \in Nodes : IF n \in Done
        THEN plan'[n] = plan[n] /\ satisfaction'[n] = satisfaction[n] /\ remoteRef'[n] = remoteRef[n]
             /\ status'[n] = status[n]
        ELSE plan'[n] = NewArtifact /\ satisfaction'[n] = 0 /\ status'[n] = "ready"
             /\ status[n] # "satisfied"
  BY <1>0, <1>1 DEF Done
<1>6. StepsRest
  BY <1>1, <1>5 DEF StepsRest, Done
<1>7. RecordsTypeOK'
  BY <1>0, <1>1, <1>3 DEF RecordsHold, RecordsTypeOK
<1>8. RunHasItsInput'
  BY <1>0, <1>1, <1>3 DEF RunHasItsInput
<1>9. RequestsHaveArtifacts'
  BY <1>0, <1>1, <1>4, RequestsRest DEF RecordsHold
<1>10. RequestsAreTraced'
  BY <1>0, <1>1 DEF RecordsHold, RequestsAreTraced, Open, Unresolved
<1>11. FactsHaveEvidence'
  BY <1>0, <1>4, BackingStays, FactsAreBacked, FactsAreBackedNext DEF RecordsHold
<1>12. LatestFactsExist'
  BY <1>0, <1>1 DEF RecordsHold, LatestFactsExist
<1>13. PublicationsHaveEvidence'
  <2>1. ASSUME NEW k \in DOMAIN publications'
        PROVE  LET p == publications'[k] IN
               IF p.run = 0
               THEN \A n \in Nodes : ~IsUpdate(p.cert, n) /\ <<"noop", k, n>> \in DOMAIN facts'
               ELSE p.run <= run'
    <3>1. CASE k \in DOMAIN publications
      BY <1>0, <1>1, <1>3, <3>1 DEF RecordsHold, PublicationsHaveEvidence
    <3>2. CASE k = NewArtifact
      BY <1>1, <1>2, <1>3, <3>2
    <3> QED
      BY <1>3, <3>1, <3>2
  <2> QED
    BY <2>1 DEF PublicationsHaveEvidence
<1>14. SatisfactionsAreKnown'
  <2>1. ASSUME NEW k \in DOMAIN publications', NEW m \in Nodes,
               publications'[k].run = run, <<"satisfied", k, m>> \in DOMAIN facts
        PROVE  status'[m] = "satisfied"
    <3>1. k # NewArtifact
      BY <2>1, NoFactYet
    <3>2. status[m] = "satisfied"
      BY <1>3, <2>1, <3>1 DEF RecordsHold, SatisfactionsAreKnown
    <3> QED
      BY <1>5, <3>2
  <2> QED
    BY <1>0, <1>1, <2>1 DEF SatisfactionsAreKnown
<1>15. StepsAreDeclared'
  <2>1. \A m \in Nodes : MyAttempts(m)' = MyAttempts(m)
    BY <1>1 DEF MyAttempts
  <2>2. ASSUME NEW m \in Nodes
        PROVE  /\ plan'[m] \in DOMAIN publications' /\ publications'[plan'[m]].run = run
               /\ IF m \in Done THEN remoteRef'[m] = m ELSE plan'[m] = NewArtifact
               /\ status'[m] = "applied" => IsUpdate(publications'[plan'[m]].cert, m)
               /\ IF status'[m] = "satisfied"
                  THEN /\ satisfaction'[m] = plan'[m] /\ ~IsUpdate(publications'[plan'[m]].cert, m)
                       /\ <<"satisfied", plan'[m], m>> \in DOMAIN facts
                       /\ \A j \in MyAttempts(m) : attempts[j].status = "no_effect"
                  ELSE satisfaction'[m] = 0
    <3>1. CASE m \in Done
      BY <1>2, <1>3, <1>5, <3>1 DEF RecordsHold, StepsAreDeclared, Cert
    <3>2. CASE m \notin Done
      BY <1>3, <1>5, <3>2
    <3> QED
      BY <3>1, <3>2
  <2> QED
    BY <1>0, <1>1, <2>1, <2>2 DEF StepsAreDeclared, Cert
<1> QED
  BY <1>4, <1>6, <1>7, <1>8, <1>9, <1>10, <1>11, <1>12, <1>13, <1>14, <1>15 DEF RecordsHold, Keeps

\* A certificate with something to write starts a run, whose steps rest on nothing yet.
LEMMA RunStep ==
  ASSUME UInv, RecordsHold, StorePublication, \E n \in Nodes : IsUpdate(check, n)
  PROVE  RecordsHold' /\ Keeps
<1>0. /\ PublishAdopt /\ publications' = Append(publications, [cert |-> check, run |-> run'])
      /\ artifact' = NewArtifact
      /\ plan' = [n \in Nodes |-> NewArtifact]
      /\ satisfaction' = [n \in Nodes |-> 0] /\ remoteRef' = [n \in Nodes |-> 0]
      /\ UNCHANGED <<facts, latest, source, receipt>>
  BY DEF StorePublication, factRecords, attemptRecords
<1>1. /\ check \in Certificate /\ Unresolved = {} /\ run' = run + 1 /\ Done' = {}
      /\ AdoptRun /\ UNCHANGED <<attempts, fact>>
  BY <1>0, AdoptDoes DEF AdoptNoop
<1>2. run \in Nat /\ runCert' = check /\ status' = [n \in Nodes |-> "ready"]
  BY <1>1 DEF AdoptRun, UInv, TypeOK
<1>3. /\ publications' \in Seq(Publication)
      /\ NewArtifact \in Nat /\ NewArtifact \notin DOMAIN publications /\ NewArtifact \in DOMAIN publications'
      /\ publications'[NewArtifact] = [cert |-> check, run |-> run']
      /\ \A k \in DOMAIN publications : k \in DOMAIN publications' /\ publications'[k] = publications[k]
      /\ \A k \in DOMAIN publications' : k \in DOMAIN publications \/ k = NewArtifact
  BY <1>0, <1>1, <1>2, Appended DEF RecordsHold, RecordsTypeOK
<1>4. PublicationsStay /\ FactsStay /\ ReceiptsStay /\ PointersAdvance
  BY <1>0, <1>1, <1>3 DEF PublicationsStay, FactsStay, ReceiptsStay, PointersAdvance
<1>5. StepsRest
  BY <1>1, <1>2 DEF StepsRest
<1>6. RecordsTypeOK'
  BY <1>0, <1>1, <1>3 DEF RecordsHold, RecordsTypeOK
<1>7. RunHasItsInput'
  BY <1>0, <1>2, <1>3 DEF RunHasItsInput
<1>8. RequestsHaveArtifacts'
  BY <1>0, <1>1, <1>4, RequestsRest DEF RecordsHold
<1>9. RequestsAreTraced'
  BY <1>0, <1>1 DEF RecordsHold, RequestsAreTraced, Open, Unresolved
<1>10. FactsHaveEvidence'
  BY <1>0, <1>4, BackingStays, FactsAreBacked, FactsAreBackedNext DEF RecordsHold
<1>11. LatestFactsExist'
  BY <1>0, <1>1 DEF RecordsHold, LatestFactsExist
<1>12. \A k \in DOMAIN publications : publications[k].run \in Nat /\ publications[k].run <= run
  <2>1. ASSUME NEW k \in DOMAIN publications PROVE publications[k].run \in Nat
    <3>1. publications \in Seq(Publication)
      BY DEF RecordsHold, RecordsTypeOK
    <3>2. publications[k] \in Publication
      BY <3>1
    <3> QED
      BY <3>2 DEF Publication
  <2> QED
    BY <1>2, <2>1 DEF RecordsHold, PublicationsHaveEvidence
<1>13. PublicationsHaveEvidence'
  <2>1. ASSUME NEW k \in DOMAIN publications'
        PROVE  LET p == publications'[k] IN
               IF p.run = 0
               THEN \A n \in Nodes : ~IsUpdate(p.cert, n) /\ <<"noop", k, n>> \in DOMAIN facts'
               ELSE p.run <= run'
    <3>1. CASE k \in DOMAIN publications
      BY <1>0, <1>1, <1>2, <1>3, <1>12, <3>1 DEF RecordsHold, PublicationsHaveEvidence
    <3>2. CASE k = NewArtifact
      BY <1>1, <1>2, <1>3, <3>2
    <3> QED
      BY <1>3, <3>1, <3>2
  <2> QED
    BY <2>1 DEF PublicationsHaveEvidence
<1>14. SatisfactionsAreKnown'
  <2>1. ASSUME NEW k \in DOMAIN publications', NEW m \in Nodes,
               publications'[k].run = run', <<"satisfied", k, m>> \in DOMAIN facts
        PROVE  FALSE
    <3>1. k # NewArtifact
      BY <2>1, NoFactYet
    <3>2. publications[k].run = run + 1 /\ k \in DOMAIN publications
      BY <1>1, <1>3, <2>1, <3>1
    <3> QED
      BY <1>2, <1>12, <3>2
  <2> QED
    BY <1>0, <2>1 DEF SatisfactionsAreKnown
<1>15. StepsAreDeclared'
  <2>1. \A m \in Nodes : plan'[m] = NewArtifact /\ satisfaction'[m] = 0 /\ status'[m] = "ready"
    BY <1>0, <1>2
  <2> QED
    BY <1>0, <1>1, <1>3, <2>1 DEF StepsAreDeclared
<1> QED
  BY <1>4, <1>5, <1>6, <1>7, <1>8, <1>9, <1>10, <1>11, <1>13, <1>14, <1>15 DEF RecordsHold, Keeps

\* A certificate without anything to write confirms every node as it was observed.
LEMMA NoopStep ==
  ASSUME UInv, RecordsHold, StorePublication, \A n \in Nodes : ~IsUpdate(check, n)
  PROVE  RecordsHold' /\ Keeps
<1>0. /\ PublishAdopt /\ publications' = Append(publications, [cert |-> check, run |-> 0])
      /\ Confirm("noop", NewArtifact, Nodes, check.seen)
      /\ UNCHANGED <<artifact, source, receipt, plan, satisfaction, remoteRef>>
  BY DEF StorePublication, stepRecords, attemptRecords
<1>1. /\ check \in Certificate /\ fact' = check.seen
      /\ UNCHANGED <<attempts, run, runCert, runState, status>>
  BY <1>0, AdoptDoes DEF AdoptNoop, AdoptRun
<1>2. \A n \in Nodes : check.seen[n] \in Observation
  BY <1>1 DEF Certificate
<1>3. /\ publications' \in Seq(Publication)
      /\ NewArtifact \in Nat /\ NewArtifact \notin DOMAIN publications /\ NewArtifact \in DOMAIN publications'
      /\ publications'[NewArtifact] = [cert |-> check, run |-> 0]
      /\ \A k \in DOMAIN publications : k \in DOMAIN publications' /\ publications'[k] = publications[k]
      /\ \A k \in DOMAIN publications' : k \in DOMAIN publications \/ k = NewArtifact
  BY <1>0, <1>1, Appended DEF RecordsHold, RecordsTypeOK
<1>4. \A n \in Nodes : <<"noop", NewArtifact, n>> \notin DOMAIN facts
  BY NoFactYet
<1> DEFINE k0 == NewArtifact
<1>5. k0 = NewArtifact
  OBVIOUS
<1> HIDE DEF k0
<1>6. /\ FactsAreTyped'
      /\ \A id \in DOMAIN facts : id \in DOMAIN facts' /\ facts'[id] = facts[id]
      /\ \A n \in Nodes : /\ <<"noop", k0, n>> \in DOMAIN facts' /\ facts'[<<"noop", k0, n>>] = check.seen[n]
                          /\ latest'[n] = <<"noop", k0, n>>
      /\ \A id \in DOMAIN facts' : id \in DOMAIN facts \/ \E n \in Nodes : id = <<"noop", k0, n>>
  <2> DEFINE values == check.seen
  <2>1. FactsAreTyped /\ Confirm("noop", k0, Nodes, values) /\ k0 \in Nat
    BY <1>0, <1>3, <1>5 DEF RecordsHold, RecordsTypeOK, FactsAreTyped
  <2>2. AreNew("noop", k0, Nodes, values)
    BY <1>2, <1>4, <1>5 DEF AreNew
  <2> HIDE DEF values
  <2>3. Confirmed("noop", k0, Nodes, values)
    BY <2>1, <2>2, ConfirmDoes
  <2> QED
    BY <2>3 DEF Confirmed, values
<1>7. PublicationsStay /\ FactsStay /\ ReceiptsStay
  BY <1>0, <1>1, <1>3, <1>6 DEF PublicationsStay, FactsStay, ReceiptsStay
<1>8. PointersAdvance
  BY <1>4, <1>5, <1>6 DEF PointersAdvance
<1>9. StepsRest
  BY <1>0 DEF StepsRest, stepRecords
<1>10. RecordsTypeOK'
  BY <1>0, <1>1, <1>3, <1>6 DEF RecordsHold, RecordsTypeOK, FactsAreTyped
<1>11. RunHasItsInput'
  BY <1>0, <1>1, <1>3 DEF RecordsHold, RunHasItsInput
<1>12. RequestsHaveArtifacts'
  BY <1>0, <1>1, <1>7, RequestsRest DEF RecordsHold
<1>13. RequestsAreTraced'
  BY <1>0, <1>1, <1>6 DEF RecordsHold, RequestsAreTraced, Open
<1>14. ASSUME NEW id, NEW n \in Nodes, id = <<"noop", k0, n>> PROVE Backed(id)'
  <2>1. id[1] = "noop" /\ id[2] = k0 /\ id[3] = n
    BY <1>14
  <2>2. facts'[id] = publications'[k0].cert.seen[n] /\ k0 \in DOMAIN publications'
    BY <1>3, <1>5, <1>6, <1>14
  <2> QED
    BY <2>1, <2>2 DEF Backed, Cert
<1>15. FactsHaveEvidence'
  BY <1>6, <1>7, <1>14, BackingStays, FactsAreBacked, FactsAreBackedNext DEF RecordsHold
<1>16. LatestFactsExist'
  <2>1. ASSUME NEW m \in Nodes
        PROVE  latest'[m] \in DOMAIN facts' /\ latest'[m][3] = m /\ facts'[latest'[m]] = fact'[m]
    <3>1. latest'[m] = <<"noop", k0, m>> /\ facts'[latest'[m]] = fact'[m]
      BY <1>1, <1>6
    <3> QED
      BY <1>6, <3>1
  <2> QED
    BY <2>1 DEF LatestFactsExist
<1>17. PublicationsHaveEvidence'
  <2>1. ASSUME NEW k \in DOMAIN publications'
        PROVE  LET p == publications'[k] IN
               IF p.run = 0
               THEN \A n \in Nodes : ~IsUpdate(p.cert, n) /\ <<"noop", k, n>> \in DOMAIN facts'
               ELSE p.run <= run'
    <3>1. CASE k \in DOMAIN publications
      BY <1>1, <1>3, <1>6, <3>1 DEF RecordsHold, PublicationsHaveEvidence
    <3>2. CASE k = k0
      BY <1>3, <1>5, <1>6, <3>2 DEF IsUpdate
    <3> QED
      BY <1>3, <1>5, <3>1, <3>2
  <2> QED
    BY <2>1 DEF PublicationsHaveEvidence
<1>18. SatisfactionsAreKnown'
  <2>1. ASSUME NEW k \in DOMAIN publications', NEW m \in Nodes,
               publications'[k].run = run, <<"satisfied", k, m>> \in DOMAIN facts'
        PROVE  status[m] = "satisfied"
    <3>1. <<"satisfied", k, m>> \in DOMAIN facts
      BY <1>6, <2>1
    <3>2. k # NewArtifact
      BY <3>1, NoFactYet
    <3> QED
      BY <1>3, <2>1, <3>1, <3>2 DEF RecordsHold, SatisfactionsAreKnown
  <2> QED
    BY <1>1, <2>1 DEF SatisfactionsAreKnown
<1>19. StepsAreDeclared'
  <2>1. Done' = Done /\ \A m \in Nodes : MyAttempts(m)' = MyAttempts(m)
    BY <1>1 DEF MyAttempts, Done
  <2> QED
    BY <1>0, <1>1, <1>3, <1>6, <2>1 DEF RecordsHold, StepsAreDeclared, Cert
<1> QED
  BY <1>7, <1>8, <1>9, <1>10, <1>11, <1>12, <1>13, <1>15, <1>16, <1>17, <1>18, <1>19
     DEF RecordsHold, Keeps

-------------------------------------------------------------------------------
(* What the run keeps                                                         *)

\* An attempt keeps its request, and once answered its status.
LEMMA RequestsAreKept ==
  ASSUME UInv, [Next]_vars, NEW i \in DOMAIN attempts
  PROVE  /\ i \in DOMAIN attempts'
         /\ [attempts'[i] EXCEPT !.status = ""] = [attempts[i] EXCEPT !.status = ""]
         /\ Open(i) \/ attempts'[i] = attempts[i]
<1>1. CASE UNCHANGED attempts
  BY <1>1
<1>2. CASE Record
  BY <1>2, RecordDoes, Recorded DEF UInv, TypeOK
<1>3. ASSUME NEW j \in DOMAIN attempts, Commits(j)
      PROVE  /\ i \in DOMAIN attempts'
             /\ [attempts'[i] EXCEPT !.status = ""] = [attempts[i] EXCEPT !.status = ""]
             /\ Open(i) \/ attempts'[i] = attempts[i]
  <2>1. /\ DOMAIN attempts' = DOMAIN attempts /\ attempts' \in Seq(Attempt) /\ Open(j)
        /\ attempts'[i].run = attempts[i].run /\ attempts'[i].step = attempts[i].step
        /\ attempts'[i].key = attempts[i].key /\ attempts'[i].target = attempts[i].target
        /\ attempts'[i].seen = attempts[i].seen
        /\ i # j => attempts'[i] = attempts[i]
    BY <1>3, CommitDoes
  <2>2. attempts[i] \in Attempt /\ attempts'[i] \in Attempt
    BY <2>1, AttemptTypes DEF UInv
  <2>3. [attempts'[i] EXCEPT !.status = ""] = [attempts[i] EXCEPT !.status = ""]
    BY <2>1, <2>2 DEF Attempt
  <2> QED
    BY <2>1, <2>3
<1>4. CASE Quiet
  BY <1>1, <1>4 DEF Quiet
<1>5. CASE PublishAdopt \/ AdoptRepair \/ Satisfy
  BY <1>1, <1>5 DEF PublishAdopt, AdoptRepair, Satisfy
<1>6. ASSUME NEW j, Execute(j) PROVE UNCHANGED attempts
  BY <1>6 DEF Execute
<1>7. ASSUME NEW n, NEW v, External(n, v) PROVE UNCHANGED attempts
  BY <1>7 DEF External
<1> QED
  BY <1>1, <1>2, <1>3, <1>4, <1>5, <1>6, <1>7, QuietOrLoud DEF Loud

\* A published run is not touched again: only a new one replaces it.
LEMMA PublishedRunStays ==
  ASSUME UInv, [Next]_vars, runState = "published"
  PROVE  run' # run \/ UNCHANGED <<runVars, runState, stepVars>>
<1>0. pc \in {"idle", "adopt"}
  BY DEF UInv, CallsKnow
<1> USE DEF runVars, stepVars
<1>1. ASSUME NEW new, Edit(new) PROVE UNCHANGED <<runVars, runState, stepVars>>
  BY <1>1 DEF Edit
<1>2. CASE PreflightStart \/ PreflightInspect \/ PreflightFinish \/ PreflightFails \/ PublishRead
  BY <1>2 DEF PreflightStart, PreflightInspect, PreflightFinish, PreflightFails, PublishRead
<1>3. CASE PublishAdopt
  <2>1. run \in Nat
    BY DEF UInv, TypeOK
  <2>2. CASE AdoptRun
    BY <2>1, <2>2 DEF AdoptRun
  <2> QED
    BY <1>3, <2>2, AdoptDoes DEF AdoptNoop
<1>4. CASE Resume \/ AdoptRepair
  BY <1>0, <1>4 DEF Resume, AdoptRepair
<1>5. ASSUME NEW v, Recheck(v) PROVE FALSE
  BY <1>0, <1>5 DEF Recheck
<1>6. CASE Drop
  BY <1>0, <1>6 DEF Drop
<1>7. CASE ReadBack \/ ReadBackFails \/ Record \/ Satisfy \/ ReceiptLate \/ Finish
  BY <1>0, <1>7 DEF ReadBack, ReadBackFails, Record, Satisfy, ReceiptLate, Finish
<1>8. ASSUME NEW a, Respond(a) PROVE FALSE
  BY <1>0, <1>8 DEF Respond
<1>9. ASSUME NEW i, Execute(i) PROVE UNCHANGED <<runVars, runState, stepVars>>
  BY <1>9 DEF Execute
<1>10. ASSUME NEW n, NEW v, External(n, v) PROVE UNCHANGED <<runVars, runState, stepVars>>
  BY <1>10 DEF External
<1>11. CASE UNCHANGED vars
  BY <1>11 DEF vars
<1> QED
  BY <1>1, <1>2, <1>3, <1>4, <1>5, <1>6, <1>7, <1>8, <1>9, <1>10, <1>11
     DEF Next, Call, Dispatch, Environment

\* A step satisfied without a request stays so in its run, and so does its key.
LEMMA SatisfiedStays ==
  ASSUME UInv, [Next]_vars, run' = run, NEW n \in Nodes, status[n] = "satisfied"
  PROVE  status'[n] = "satisfied" /\ key'[n] = key[n]
<1>0. n \in Done /\ run \in Nat
  BY DEF Done, UInv, TypeOK
<1>1. CASE UNCHANGED <<status, key>>
  BY <1>1
<1>2. CASE PublishAdopt
  BY <1>0, <1>1, <1>2, AdoptDoes
<1>3. CASE AdoptRepair
  BY <1>0, <1>3, RepairDoes
<1>4. CASE Record
  <2>1. PICK m \in Nodes \ Done : status' = [status EXCEPT ![m] = "dispatching"] /\ UNCHANGED key
    BY <1>4, RecordDoes
  <2> QED
    BY <1>0, <2>1 DEF UInv, TypeOK
<1>5. CASE Satisfy
  <2>1. PICK m \in Nodes \ Done : status' = [status EXCEPT ![m] = "satisfied"] /\ UNCHANGED key
    BY <1>5, SatisfyDoes
  <2> QED
    BY <1>0, <2>1 DEF UInv, TypeOK
<1>6. ASSUME NEW i \in DOMAIN attempts, Commits(i) PROVE status'[n] = "satisfied" /\ key'[n] = key[n]
  <2>1. attempts[i].step # n /\ UNCHANGED key
    BY <1>0, <1>6, CommitDoes
  <2>2. status'[n] = status[n]
    BY <1>6, <2>1 DEF Commits, CommitApplied, CommitUnknown, CommitRefused, UInv, TypeOK
  <2> QED
    BY <2>1, <2>2
<1>7. CASE Quiet
  BY <1>1, <1>7 DEF Quiet
<1>8. ASSUME NEW i, Execute(i) PROVE UNCHANGED <<status, key>>
  BY <1>8 DEF Execute, stepVars
<1>9. ASSUME NEW m, NEW v, External(m, v) PROVE UNCHANGED <<status, key>>
  BY <1>9 DEF External, stepVars
<1> QED
  BY <1>1, <1>2, <1>3, <1>4, <1>5, <1>6, <1>7, <1>8, <1>9, QuietOrLoud DEF Loud

\* A new run takes the place of a published one only, and no step goes back behind
\* the resource revision.
LEMMA RunsFollow ==
  ASSUME UInv, [Next]_vars
  PROVE  (run' # run => runState = "published") /\ rev' >= rev
<1>0. rev \in Nat
  BY DEF UInv, TypeOK
<1>1. CASE Quiet
  BY <1>0, <1>1 DEF Quiet
<1>2. CASE PublishAdopt
  <2>1. runState = "published"
    BY <1>2, AdoptDoes
  <2>2. AdoptNoop => rev' = rev + 1
    BY DEF AdoptNoop
  <2>3. AdoptNoop \/ UNCHANGED rev
    BY <1>2, AdoptDoes
  <2> QED
    BY <1>0, <2>1, <2>2, <2>3
<1>3. CASE AdoptRepair \/ Record \/ Satisfy
  BY <1>3 DEF AdoptRepair, Record, Satisfy, runVars, factVars, UInv, TypeOK
<1>4. ASSUME NEW i \in DOMAIN attempts, Commits(i) \/ Execute(i)
      PROVE  UNCHANGED run /\ rev' >= rev
  BY <1>4 DEF Commits, CommitApplied, CommitUnknown, CommitRefused, Execute, runVars, factVars, UInv, TypeOK
<1>5. ASSUME NEW n, NEW v, External(n, v) PROVE UNCHANGED run /\ rev' >= rev
  BY <1>5 DEF External, runVars, factVars, UInv, TypeOK
<1> QED
  BY <1>1, <1>2, <1>3, <1>4, <1>5, QuietOrLoud DEF Loud

\* A pointer moves only together with the resource revision.
LEMMA PointersCount ==
  ASSUME UInv, [StoredNext]_<<vars, records>>
  PROVE  latest' # latest => rev' > rev
<1>0. rev \in Nat
  BY DEF UInv, TypeOK
<1>1. CASE StorePublication
  <2>1. CASE \E n \in Nodes : IsUpdate(check, n)
    BY <1>1, <2>1 DEF StorePublication, factRecords
  <2>2. CASE \A n \in Nodes : ~IsUpdate(check, n)
    BY <1>0, <1>1, <2>2 DEF StorePublication, PublishAdopt, AdoptNoop, AdoptRun
  <2> QED
    BY <2>1, <2>2
<1>2. CASE StoreRequest \/ StoreRepair
  BY <1>2 DEF StoreRequest, StoreRepair, factRecords
<1>3. CASE StoreSatisfaction
  BY <1>0, <1>3 DEF StoreSatisfaction, Satisfy
<1>4. ASSUME NEW a, StoreOutcome(a) PROVE latest' # latest => rev' > rev
  BY <1>0, <1>4 DEF StoreOutcome, Respond, CommitApplied, factRecords
<1>5. CASE UNCHANGED records
  BY <1>5 DEF records, factRecords
<1> QED
  BY <1>1, <1>2, <1>3, <1>4, <1>5 DEF StoredNext

\* Only a certificate that has not been adopted gets a publication record.
LEMMA AdoptedOnce ==
  ASSUME AdoptionIsFirst, [StoredNext]_<<vars, records>>
  PROVE  publications' # publications => ~adopted
<1>1. CASE StorePublication \/ StoreRepair
  BY <1>1 DEF StorePublication, StoreRepair, PublishAdopt, AdoptRepair, AdoptionIsFirst
<1>2. CASE StoreRequest \/ StoreSatisfaction
  BY <1>2 DEF StoreRequest, StoreSatisfaction, adoptionRecords
<1>3. ASSUME NEW a, StoreOutcome(a) PROVE UNCHANGED publications
  BY <1>3 DEF StoreOutcome, adoptionRecords
<1>4. CASE UNCHANGED records
  BY <1>4 DEF records, adoptionRecords
<1> QED
  BY <1>1, <1>2, <1>3, <1>4 DEF StoredNext

-------------------------------------------------------------------------------
(* The invariant                                                              *)

LEMMA RecordInit == StoredInit => RecordInv
<1> SUFFICES ASSUME StoredInit PROVE RecordInv
  OBVIOUS
<1>1. /\ Init /\ publications = <<>> /\ artifact = 0
      /\ facts = [id \in {"applied"} \X {0} \X Nodes |-> fact[id[3]]]
      /\ latest = [n \in Nodes |-> <<"applied", 0, n>>]
      /\ source = <<>> /\ receipt = <<>>
      /\ plan = [n \in Nodes |-> 0] /\ satisfaction = [n \in Nodes |-> 0]
      /\ remoteRef = [n \in Nodes |-> n]
  BY DEF StoredInit
<1>2. TypeOK /\ fact \in [Nodes -> Observation]
  BY <1>1, TypeInit DEF TypeOK
<1>3. attempts = <<>> /\ run = 0 /\ pc = "idle" /\ DOMAIN attempts = {} /\ DOMAIN publications = {}
  BY <1>1 DEF Init
<1> DEFINE first == {"applied"} \X {0} \X Nodes
<1>4. /\ \A n \in Nodes : <<"applied", 0, n>> \in first /\ <<"applied", 0, n>>[3] = n
      /\ \A id \in first : id[3] \in Nodes /\ id = <<"applied", 0, id[3]>> /\ id[1] = "applied"
      /\ first \subseteq FactId
  BY DEF FactId
<1>5. facts = [id \in first |-> fact[id[3]]]
  BY <1>1
<1> HIDE DEF first
<1>6. RecordsTypeOK
  <2>1. DOMAIN facts = first /\ facts \in [first -> Observation]
    BY <1>2, <1>4, <1>5
  <2>2. latest \in [Nodes -> FactId]
    BY <1>1, <1>4
  <2> QED
    BY <1>1, <1>3, <1>4, <2>1, <2>2 DEF RecordsTypeOK
<1>7. RunHasItsInput /\ RequestsHaveArtifacts /\ RequestsAreTraced /\ StepsAreDeclared
  BY <1>3 DEF RunHasItsInput, RequestsHaveArtifacts, RequestsAreTraced, StepsAreDeclared
<1>8. FactsHaveEvidence
  BY <1>4, <1>5, FactsAreBacked DEF Backed
<1>9. LatestFactsExist
  BY <1>1, <1>4, <1>5 DEF LatestFactsExist
<1>10. PublicationsHaveEvidence /\ SatisfactionsAreKnown /\ AdoptionIsFirst
  BY <1>3 DEF PublicationsHaveEvidence, SatisfactionsAreKnown, AdoptionIsFirst
<1> QED
  BY <1>6, <1>7, <1>8, <1>9, <1>10 DEF RecordInv, RecordsHold

LEMMA ElsewhereStep ==
  ASSUME RecordsHold, Elsewhere \/ UNCHANGED vars, UNCHANGED records
  PROVE  RecordsHold' /\ Keeps
<1>1. /\ UNCHANGED <<run, runCert, status, attempts, fact>>
      /\ UNCHANGED <<publications, artifact, facts, latest, source, receipt, plan, satisfaction, remoteRef>>
  BY ElsewhereLeaves DEF records, adoptionRecords, factRecords, attemptRecords, stepRecords
<1>2. RecordsTypeOK' /\ RunHasItsInput'
  BY <1>1 DEF RecordsHold, RecordsTypeOK, RunHasItsInput
<1>3. Keeps
  BY <1>1 DEF Keeps, PublicationsStay, FactsStay, ReceiptsStay, PointersAdvance, StepsRest, stepRecords
<1>4. RequestsHaveArtifacts'
  BY <1>1, <1>3, RequestsRest DEF RecordsHold, Keeps
<1>5. RequestsAreTraced' /\ LatestFactsExist' /\ PublicationsHaveEvidence' /\ SatisfactionsAreKnown'
  BY <1>1 DEF RecordsHold, RequestsAreTraced, Open, LatestFactsExist, PublicationsHaveEvidence,
              SatisfactionsAreKnown
<1>6. FactsHaveEvidence'
  BY <1>1, <1>3, BackingStays, FactsAreBacked, FactsAreBackedNext DEF RecordsHold, Keeps
<1>7. StepsAreDeclared'
  <2>1. Done' = Done /\ \A m \in Nodes : MyAttempts(m)' = MyAttempts(m)
    BY <1>1 DEF MyAttempts, Done
  <2> QED
    BY <1>1, <2>1 DEF RecordsHold, StepsAreDeclared, Cert
<1> QED
  BY <1>2, <1>3, <1>4, <1>5, <1>6, <1>7 DEF RecordsHold

LEMMA RecordStep ==
  ASSUME UInv, RecordInv, [StoredNext]_<<vars, records>>
  PROVE  UInv' /\ RecordInv' /\ Keeps
<1>1. [Next]_vars
  BY RecordsFollow
<1>2. UInv' /\ AdoptionIsFirst'
  BY <1>1, InvStep, AdoptionStep DEF RecordInv
<1>3. RecordsHold
  BY DEF RecordInv
<1>4. RecordsHold' /\ Keeps
  <2>1. CASE StorePublication
    BY <1>3, <2>1, RunStep, NoopStep
  <2>2. CASE StoreRequest
    BY <1>3, <2>2, RequestStep
  <2>3. CASE StoreSatisfaction
    BY <1>3, <2>3, SatisfactionStep
  <2>4. CASE StoreRepair
    BY <1>3, <2>4, RepairStep
  <2>5. ASSUME NEW a \in {"applied", "unknown", "refused"}, StoreOutcome(a) PROVE RecordsHold' /\ Keeps
    BY <1>3, <2>5, ConfirmationStep, NothingConfirmedStep
  <2>6. CASE (Elsewhere \/ UNCHANGED vars) /\ UNCHANGED records
    BY <1>3, <2>6, ElsewhereStep
  <2> QED
    BY <2>1, <2>2, <2>3, <2>4, <2>5, <2>6 DEF StoredNext
<1> QED
  BY <1>2, <1>4 DEF RecordInv

LEMMA RecordsInvariant == StoredSpec => [](UInv /\ RecordInv)
<1>1. StoredInit => UInv /\ RecordInv
  BY RecordsFollow, InvInit, RecordInit
<1>2. UInv /\ RecordInv /\ [StoredNext]_<<vars, records>> => (UInv /\ RecordInv)'
  BY RecordStep
<1> QED
  BY <1>1, <1>2, PTL DEF StoredSpec

-------------------------------------------------------------------------------
(* The judge of the storage                                                   *)

\* What the two invariants say of the records is what validateStateContent demands.
LEMMA Valid ==
  ASSUME UInv, RecordInv
  PROVE  RecordsTypeOK /\ ContentIsValid
<1>1. RecordsHold
  BY DEF RecordInv
<1>2. SatisfactionsHaveProof
  <2> SUFFICES ASSUME run > 0, NEW n \in Nodes
               PROVE  LET k == satisfaction[n] IN
                      IF status[n] = "satisfied"
                      THEN /\ k \in DOMAIN publications /\ publications[k].run = run
                           /\ ~IsUpdate(Cert(k), n) /\ Cert(plan[n]).target[n] = Cert(k).target[n]
                           /\ ~IsUpdate(Cert(plan[n]), n)
                           /\ remoteRef[n] = n
                           /\ <<"satisfied", k, n>> \in DOMAIN facts
                           /\ \A i \in MyAttempts(n) : attempts[i].status = "no_effect"
                      ELSE /\ k = 0
                           /\ status[n] = "applied" => IsUpdate(Cert(plan[n]), n)
    BY DEF SatisfactionsHaveProof
  <2>1. status[n] = "satisfied" => n \in Done
    BY DEF Done
  <2> QED
    BY <1>1, <2>1 DEF RecordsHold, StepsAreDeclared
<1>3. CompletionHasEvidence
  <2> SUFFICES ASSUME runState = "published", run > 0, NEW n \in Nodes
               PROVE  /\ Unresolved = {}
                      /\ \/ status[n] = "satisfied"
                         \/ status[n] = "applied" /\ \E i \in MyAttempts(n) :
                              /\ attempts[i].key = key[n] /\ attempts[i].status = "applied"
                              /\ receipt[i].ref = remoteRef[n]
                              /\ <<"applied", i, n>> \in DOMAIN facts
    BY UpdateAssumption DEF CompletionHasEvidence, UInv, RunsAreWhole
  <2>1. n \in Done /\ Unresolved = {}
    BY DEF UInv, RunsAreWhole
  <2>2. remoteRef[n] = n
    BY <1>1, <2>1 DEF RecordsHold, StepsAreDeclared
  <2>3. CASE status[n] = "applied"
    <3>1. PICK i \in DOMAIN attempts :
            /\ attempts[i].run = run /\ attempts[i].step = n
            /\ attempts[i].key = key[n] /\ attempts[i].status = "applied"
      BY <2>3 DEF UInv, HistoryIsTrue
    <3>2. Establishes(source[i], n, receipt[i]) /\ <<"applied", i, n>> \in DOMAIN facts
      BY <1>1, <3>1 DEF RecordsHold, RequestsHaveArtifacts, RequestsAreTraced
    <3>3. i \in MyAttempts(n) /\ receipt[i].ref = n
      BY <3>1, <3>2 DEF Establishes, MyAttempts
    <3> QED
      BY <2>1, <2>2, <2>3, <3>1, <3>2, <3>3
  <2> QED
    BY <2>1, <2>3 DEF Done
<1> QED
  BY <1>1, <1>2, <1>3 DEF RecordsHold, ContentIsValid

LEMMA ValidNext ==
  ASSUME (UInv /\ RecordInv)'
  PROVE  ContentIsValid'
BY Valid, PTL

\* What the engine keeps in the storage is, at any time, what validateStateContent of
\* state.ts accepts: an artifact for every request, proof for every completed step and
\* every fact.
THEOREM RecordsAreSound == StoredSpec => [](RecordsTypeOK /\ ContentIsValid)
<1>1. UInv /\ RecordInv => RecordsTypeOK /\ ContentIsValid
  BY Valid
<1> QED
  BY <1>1, RecordsInvariant, PTL

\* validateHistory, validateStateContent and validateTransition of state.ts accept
\* every write of engine.ts: no run gets stuck on the storage's own rules.
THEOREM StorageAccepts == StoredSpec => WritesAreAccepted
<1> DEFINE Accepted == HistoryIsKept /\ ContentIsValid' /\ TransitionIsLegal
<1>1. ASSUME UInv, RecordInv, [StoredNext]_<<vars, records>> PROVE Accepted
  <2>1. [Next]_vars
    BY <1>1, RecordsFollow
  <2>2. Keeps /\ ContentIsValid'
    BY <1>1, RecordStep, ValidNext
  <2>3. RecordsAreKept
    BY <1>1, <2>2, AdoptedOnce DEF RecordInv, Keeps, PublicationsStay, FactsStay, RecordsAreKept
  <2>4. AttemptsAreKept
    BY <1>1, <2>1, <2>2, RequestsAreKept DEF Keeps, ReceiptsStay, AttemptsAreKept
  <2>5. RunsAreKept
    BY <1>1, <2>1, <2>2, PublishedRunStays, SatisfiedStays DEF Keeps, StepsRest, RunsAreKept
  <2>6. TransitionIsLegal
    BY <1>1, <2>1, <2>2, RunsFollow, PointersCount DEF Keeps, PointersAdvance, TransitionIsLegal
  <2> QED
    BY <2>2, <2>3, <2>4, <2>5, <2>6 DEF HistoryIsKept
<1>2. UInv /\ RecordInv /\ [StoredNext]_<<vars, records>> => [stored' # stored => Accepted]_<<vars, records>>
  BY <1>1
<1> QED
  BY <1>2, RecordsInvariant, PTL DEF StoredSpec, WritesAreAccepted
===============================================================================
