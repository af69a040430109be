----------------------------- MODULE UpdateStorage -----------------------------
(***************************************************************************)
(* What the publishing of changes leaves in the storage, and the judge in  *)
(* front of it: validateWrite of state.ts throws inside the transaction    *)
(* when a write is one it finds illegal.  This module composes the actions *)
(* of UpdateRun with the records they write beside what UpdateRun needs to *)
(* go on (publications, facts, receipts, what a step rests on), and states *)
(* what validateHistory, validateStateContent and validateTransition       *)
(* demand of the result.                                                   *)
(*                                                                         *)
(* Data: the artifact of an adopted certificate is named by the place of   *)
(* its publication record; artifacts never adopted are not pointed to.  An *)
(* id is made of what it names, so a fact id says its source.  The remote  *)
(* object bound to node n is called n: an update creates no binding.       *)
(***************************************************************************)
EXTENDS UpdateRun

VARIABLES
  publications,   \* the adopted certificates, each with its run, 0 for a noop
  artifact,       \* artifactId of the current run
  facts, latest,  \* remoteFacts and latestFactByNode
  source,         \* of each attempt: the artifact its request was built from
  receipt,        \* of each attempt: its confirmed outcome
  plan,           \* of each step: the artifact that declares it
  satisfaction,   \* of each step: the artifact that satisfied it, 0 if none
  remoteRef       \* of each step: the object it was completed on, 0 if none

adoptionRecords == <<publications, artifact>>
factRecords     == <<facts, latest>>
attemptRecords  == <<source, receipt>>
stepRecords     == <<plan, satisfaction, remoteRef>>
records == <<adoptionRecords, factRecords, attemptRecords, stepRecords>>
\* All that the engine keeps in the storage.
stored == <<draftVars, pubVars, checkVars, factVars, runVars, runState, stepVars, attempts,
            late, records>>

Publication == [cert : Certificate, run : Nat]
FactId == {"applied", "satisfied", "noop"} \X Nat \X Nodes
Receipt == [ref : Nodes, value : Values]
NoReceipt == [ref |-> 0]

RecordsTypeOK ==
  /\ publications \in Seq(Publication) /\ artifact \in Nat
  /\ DOMAIN facts \subseteq FactId /\ facts \in [DOMAIN facts -> Observation]
  /\ latest \in [Nodes -> FactId]
  /\ source \in Seq(Nat) /\ Len(source) = Len(attempts)
  /\ receipt \in Seq(Receipt \cup {NoReceipt}) /\ Len(receipt) = Len(attempts)
  /\ plan \in [Nodes -> Nat] /\ satisfaction \in [Nodes -> Nat]
  /\ remoteRef \in [Nodes -> Nodes \cup {0}]

\* The initial run and its attempts are those of ManagedRun; they count as 0.
StoredInit ==
  /\ Init
  /\ publications = <<>> /\ artifact = 0
  /\ facts = [id \in {"applied"} \X {0} \X Nodes |-> fact[id[3]]]
  /\ latest = [n \in Nodes |-> <<"applied", 0, n>>]
  /\ source = <<>> /\ receipt = <<>>
  /\ plan = [n \in Nodes |-> 0] /\ satisfaction = [n \in Nodes |-> 0]
  /\ remoteRef = [n \in Nodes |-> n]

Cert(k) == publications[k].cert
NewArtifact == Len(publications) + 1

-------------------------------------------------------------------------------
(* The writes *)

\* Facts of the nodes ns are stored under kind and k, and become the latest.  The
\* code refuses an id in use (FACT_IMMUTABLE); here it would be overwritten, so
\* that HistoryIsKept says that this refusal is never reached.
Confirm(kind, k, ns, values) ==
  /\ LET new == {kind} \X {k} \X ns IN
       facts' = [id \in DOMAIN facts \cup new |-> IF id \in new THEN values[id[3]] ELSE facts[id]]
  /\ latest' = [n \in Nodes |-> IF n \in ns THEN <<kind, k, n>> ELSE latest[n]]

\* updateOutcome: the receipt names the object and has the value of the artifact
\* its request was built from.  Any other counts as unknown.
Establishes(k, n, rc) ==
  /\ IsUpdate(Cert(k), n)
  /\ rc = [ref |-> n, value |-> Cert(k).target[n]]

\* adoptUpdate
StorePublication ==
  /\ PublishAdopt
  /\ IF \E n \in Nodes : IsUpdate(check, n)
     THEN /\ publications' = Append(publications, [cert |-> check, run |-> run'])
          /\ artifact' = NewArtifact
          /\ plan' = [n \in Nodes |-> NewArtifact]
          /\ satisfaction' = [n \in Nodes |-> 0] /\ remoteRef' = [n \in Nodes |-> 0]
          /\ UNCHANGED factRecords
     ELSE /\ publications' = Append(publications, [cert |-> check, run |-> 0])
          /\ Confirm("noop", NewArtifact, Nodes, check.seen)
          /\ UNCHANGED <<artifact, stepRecords>>
  /\ UNCHANGED attemptRecords

\* updateRequest, from the artifact of the run
StoreRequest ==
  /\ Record
  /\ source' = Append(source, artifact) /\ receipt' = Append(receipt, NoReceipt)
  /\ UNCHANGED <<adoptionRecords, factRecords, stepRecords>>

\* satisfyNoop
StoreSatisfaction ==
  /\ Satisfy
  /\ LET n == NextStep IN
       /\ Confirm("satisfied", artifact, {n}, Cert(artifact).seen)
       /\ satisfaction' = [satisfaction EXCEPT ![n] = artifact]
       /\ remoteRef' = [remoteRef EXCEPT ![n] = n]
  /\ UNCHANGED <<adoptionRecords, attemptRecords, plan>>

\* The answer: one that establishes the target is recorded with its fact; of any
\* other, and of a receipt that does not, only the status is.
StoreOutcome(a) ==
  /\ Respond(a)
  /\ LET i == TheRequest
         n == attempts[i].step
     IN IF a = "applied"
        THEN \E rc \in Receipt :
               /\ Establishes(source[i], n, rc)
               /\ receipt' = [receipt EXCEPT ![i] = rc]
               /\ remoteRef' = [remoteRef EXCEPT ![n] = rc.ref]
               /\ Confirm("applied", i, {n},
                          [m \in {n} |-> [value |-> rc.value, rv |-> attempts[i].seen.rv + 1]])
        ELSE UNCHANGED <<receipt, remoteRef, factRecords>>
  /\ UNCHANGED <<adoptionRecords, source, plan, satisfaction>>

\* Mutant: a repair declares the completed steps anew, too.
StoreRepairOfAll ==
  /\ AdoptRepair
  /\ publications' = Append(publications, [cert |-> check, run |-> run])
  /\ artifact' = NewArtifact
  /\ plan' = [n \in Nodes |-> NewArtifact]
  /\ UNCHANGED <<factRecords, attemptRecords, satisfaction, remoteRef>>

\* A repair declares the steps that are not completed anew.
StoreRepair ==
  /\ AdoptRepair
  /\ publications' = Append(publications, [cert |-> check, run |-> run])
  /\ artifact' = NewArtifact
  /\ plan' = [n \in Nodes |-> IF n \in Done THEN plan[n] ELSE NewArtifact]
  /\ satisfaction' = [n \in Nodes |-> IF n \in Done THEN satisfaction[n] ELSE 0]
  /\ remoteRef' = [n \in Nodes |-> IF n \in Done THEN remoteRef[n] ELSE 0]
  /\ UNCHANGED <<factRecords, attemptRecords>>

\* The other steps write none of these records.
Elsewhere ==
  \/ \E new \in [Nodes -> Values \cup {Undeclared}] : Edit(new)
  \/ PreflightStart \/ PreflightInspect \/ PreflightFinish \/ PreflightFails
  \/ PublishRead
  \/ Resume \/ (\E v \in {"passed", "failed"} : Recheck(v))
  \/ Drop
  \/ ReadBack \/ ReadBackFails \/ ReceiptLate \/ Finish
  \/ Environment

StoredNext ==
  \/ StorePublication \/ StoreRequest \/ StoreSatisfaction \/ StoreRepair
  \/ (\E a \in {"applied", "unknown", "refused"} : StoreOutcome(a))
  \/ Elsewhere /\ UNCHANGED records

StoredSpec == StoredInit /\ [][StoredNext]_<<vars, records>>

-------------------------------------------------------------------------------
(* validateStateContent.  What it says of identities, pointers between one   *)
(* run and the Draft, targets and bindings holds by the shape of the model;  *)
(* so does the recompilation of an artifact, which uses only what the        *)
(* artifact itself pins.  Runs before the current one are not kept: they     *)
(* were published, and a published run is immutable.                         *)

RunHasItsInput ==
  run > 0 => artifact \in DOMAIN publications /\ publications[artifact] = [cert |-> runCert, run |-> run]

\* validateUpdateAttempt, and the receipt of an applied request
RequestsHaveArtifacts ==
  \A i \in DOMAIN attempts :
    LET k == source[i]
        n == attempts[i].step
    IN /\ k \in DOMAIN publications /\ publications[k].run = attempts[i].run
       /\ IsUpdate(Cert(k), n)
       /\ attempts[i].target = Cert(k).target[n] /\ attempts[i].seen = Cert(k).seen[n]
       /\ attempts[i].status = "applied" => Establishes(k, n, receipt[i])

\* validateSatisfiedSlot
SatisfactionsHaveProof ==
  run > 0 => \A n \in Nodes :
    LET k == satisfaction[n] IN
    IF status[n] = "satisfied"
    THEN /\ k \in DOMAIN publications /\ publications[k].run = run
         /\ ~IsUpdate(Cert(k), n) /\ Cert(plan[n]).target[n] = Cert(k).target[n]
         /\ ~IsUpdate(Cert(plan[n]), n)
         /\ remoteRef[n] = n
         /\ <<"satisfied", k, n>> \in DOMAIN facts
         /\ \A i \in MyAttempts(n) : attempts[i].status = "no_effect"
    ELSE /\ k = 0
         /\ status[n] = "applied" => IsUpdate(Cert(plan[n]), n)

\* A published run has nothing open, and every step its evidence: a satisfaction, or
\* the attempt under its key, confirmed on its object, with the fact it made.
CompletionHasEvidence ==
  runState = "published" /\ run > 0 =>
    /\ Unresolved = {}
    /\ \A n \in Nodes :
         \/ status[n] = "satisfied"
         \/ status[n] = "applied" /\ \E i \in MyAttempts(n) :
              /\ attempts[i].key = key[n] /\ attempts[i].status = "applied"
              /\ receipt[i].ref = remoteRef[n]
              /\ <<"applied", i, n>> \in DOMAIN facts

\* A fact is what the receipt of its attempt, or the observation of its artifact says.
FactsHaveEvidence ==
  \A id \in DOMAIN facts :
    LET k == id[2]
        n == id[3]
    IN \/ id = <<"applied", 0, n>>
       \/ /\ id[1] = "applied" /\ k \in DOMAIN attempts
          /\ attempts[k].status = "applied" /\ attempts[k].step = n
          /\ receipt[k].ref = n
          /\ facts[id] = [value |-> receipt[k].value, rv |-> attempts[k].seen.rv + 1]
       \/ /\ id[1] \in {"satisfied", "noop"} /\ k \in DOMAIN publications
          /\ facts[id] = Cert(k).seen[n]

\* The pointer of a node is to a fact of that node: the one the engine works with.
LatestFactsExist ==
  \A n \in Nodes : /\ latest[n] \in DOMAIN facts /\ latest[n][3] = n
                   /\ facts[latest[n]] = fact[n]

\* A noop publication has nothing to write, and a fact for each observation.
PublicationsHaveEvidence ==
  \A k \in DOMAIN publications :
    LET p == publications[k] IN
    IF p.run = 0
    THEN \A n \in Nodes : ~IsUpdate(p.cert, n) /\ <<"noop", k, n>> \in DOMAIN facts
    ELSE p.run <= run

ContentIsValid ==
  /\ RunHasItsInput
  /\ RequestsHaveArtifacts
  /\ SatisfactionsHaveProof
  /\ CompletionHasEvidence
  /\ FactsHaveEvidence /\ LatestFactsExist
  /\ PublicationsHaveEvidence

-------------------------------------------------------------------------------
(* validateHistory *)

\* Publications (with their artifacts) and facts are immutable, and a certificate
\* gets one publication record.
RecordsAreKept ==
  /\ \A k \in DOMAIN publications : k \in DOMAIN publications' /\ publications'[k] = publications[k]
  /\ publications' # publications => ~adopted
  /\ \A id \in DOMAIN facts : id \in DOMAIN facts' /\ facts'[id] = facts[id]

\* An attempt keeps its request for ever, and everything once it is settled.
AttemptsAreKept ==
  \A i \in DOMAIN attempts :
    /\ i \in DOMAIN attempts' /\ source'[i] = source[i]
    /\ [attempts'[i] EXCEPT !.status = ""] = [attempts[i] EXCEPT !.status = ""]
    /\ Open(i) \/ (attempts'[i] = attempts[i] /\ receipt'[i] = receipt[i])

\* A published run is immutable, and so is a satisfied step.
RunsAreKept ==
  run' = run =>
    /\ runState = "published" => UNCHANGED <<runVars, runState, stepVars, artifact, stepRecords>>
    /\ \A n \in Nodes : status[n] = "satisfied" =>
         /\ status'[n] = status[n] /\ key'[n] = key[n]
         /\ plan'[n] = plan[n] /\ satisfaction'[n] = satisfaction[n] /\ remoteRef'[n] = remoteRef[n]

HistoryIsKept == RecordsAreKept /\ AttemptsAreKept /\ RunsAreKept

\* validateTransition: a run starts where the last one ended, the resource revision
\* never falls and rises with every change of a pointer, and a pointer moves only to
\* a fact that did not exist before.
TransitionIsLegal ==
  /\ run' # run => runState = "published"
  /\ rev' >= rev
  /\ \A n \in Nodes : latest'[n] = latest[n] \/ latest'[n] \notin DOMAIN facts
  /\ latest' # latest => rev' > rev

-------------------------------------------------------------------------------
(* Properties *)

\* No call on a published Draft writes what the storage refuses: such a write would
\* throw in the middle of a run, again at every resume, and leave the Draft stuck.
\* The three parts are those of validateWrite (state.ts).
WritesAreAccepted ==
  [][stored' # stored => HistoryIsKept /\ ContentIsValid' /\ TransitionIsLegal]_<<vars, records>>
===============================================================================
