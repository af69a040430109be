---------------------------- MODULE ManagedRunProofs ----------------------------
(***************************************************************************)
(* Proofs about ManagedRun for any number of workers, steps, values, edits *)
(* and attempts.  IInv is the inductive invariant; its parts say what the   *)
(* engine relies on without checking it.                                    *)
(***************************************************************************)
EXTENDS ManagedRun, TLAPS, SequenceTheorems

\* The run has an artifact from its claim on, and nothing was sent before.
RunHasIntent ==
  /\ runState # "none" => runIntent \in Intents
  /\ runState = "none" => attempts = <<>>

\* What a worker has in hand is a recorded attempt, and the answer it is about to
\* commit is true of the remote side.
HandsAreTrue ==
  \A w \in Workers :
    /\ pc[w] \in {"send", "sent", "commit", "asking", "settle"} => cur[w] \in DOMAIN attempts
    /\ pc[w] \notin {"commit", "settle"} => answer[w] = "none"
    /\ answer[w] = "applied" => KeyMade(cur[w])
    /\ answer[w] = "refused" => cur[w] \in barred
    /\ pc[w] \notin {"idle", "checking"} => runState # "none"

\* The remote side knows recorded attempts only, and keeps its word on the
\* refused ones.
RemoteIsKnown ==
  /\ wire \subseteq DOMAIN attempts
  /\ made \subseteq DOMAIN attempts
  /\ made \cap barred = {}
  /\ \A i \in lateFacts : i \in DOMAIN attempts /\ KeyMade(i)

\* At most one request is unresolved, the last; it belongs to an unapplied step
\* and is what the adopted artifact asks for.
OneRequestOpen ==
  \A i \in DOMAIN attempts :
    Open(i) => /\ i = Len(attempts)
               /\ attempts[i].step \notin Applied

\* A status in the history says what happened remotely, and the bindings are
\* the applied attempts.
HistoryIsTrue ==
  /\ \A i \in DOMAIN attempts :
       /\ attempts[i].status = "no_effect" => i \in barred
       /\ attempts[i].status = "applied" => i \in made /\ binding[attempts[i].step] = i
  /\ \A s \in Steps :
       /\ s \in Applied <=> binding[s] # 0
       /\ binding[s] # 0 => /\ binding[s] \in DOMAIN attempts
                            /\ attempts[binding[s]].step = s
                            /\ attempts[binding[s]].status = "applied"
                            /\ Input(binding[s]) = runIntent[s]

\* The keys in use are not newer than the run's revision, and the current key of
\* a step stands for the current payload.
KeysAreCurrent ==
  /\ \A s \in Steps : stepKey[s] <= revision
  /\ \A i \in DOMAIN attempts :
       LET s == attempts[i].step IN
         /\ attempts[i].key <= revision
         /\ attempts[i].key = stepKey[s] => Input(i) = runIntent[s]
         /\ Open(i) => attempts[i].key = stepKey[s]

\* The lease protects resume between reconciliation and adoption, and ends with
\* the publication.
LeaseProtects ==
  /\ \A w \in Workers :
       holder = w /\ pc[w] \in {"recheck", "rechecking", "adopt", "block"} => Unresolved = {}
  /\ runState = "published" => holder = NoWorker /\ Applied = Steps

\* A check of the current version has the current intent, and a check that passed
\* was accepted by the rules.
Fresh(c) ==
  c # NoCheck => /\ c.version <= version
                 /\ c.version = version => c.intent = intent
                 /\ c.status = "passed" => \A s \in Steps : c.intent[s] \notin Rejected

\* So are the stored check, the checks being computed, and the adopted artifact.
ArtifactsAreFresh ==
  /\ Fresh(check)
  /\ \A w \in Workers : Fresh(round[w])
  /\ runVersion <= version
  /\ runState # "none" => /\ runVersion = version => runIntent = intent
                          /\ \A s \in Steps : runIntent[s] \notin Rejected

\* A published Draft is not edited any more, so its run stays its run.
PublishedIsCurrent == runState = "published" => runVersion = version

\* The plan is worked through in order.
PlanOrder == \A i \in DOMAIN attempts : 1..(attempts[i].step - 1) \subseteq Applied

IInv ==
  /\ TypeOK /\ RunHasIntent /\ HandsAreTrue /\ RemoteIsKnown
  /\ OneRequestOpen /\ HistoryIsTrue /\ KeysAreCurrent /\ LeaseProtects
  /\ BlockedMeansResolved /\ PlanOrder
  /\ ArtifactsAreFresh /\ OnlyCheckedInputIsSent /\ PublishedIsCurrent

-------------------------------------------------------------------------------
(* Lemmas about the state *)

\* Recording an attempt appends it and leaves the older ones alone.
LEMMA Appended ==
  ASSUME NEW s \in Seq(Attempt), NEW e \in Attempt
  PROVE  /\ Append(s, e) \in Seq(Attempt)
         /\ Len(Append(s, e)) = Len(s) + 1
         /\ DOMAIN Append(s, e) = 1..(Len(s) + 1)
         /\ Append(s, e)[Len(s) + 1] = e
         /\ \A i \in DOMAIN s : Append(s, e)[i] = s[i]
BY AppendProperties

\* Committing an outcome changes the status of one attempt.
LEMMA Settled ==
  ASSUME NEW s \in Seq(Attempt), NEW i \in DOMAIN s, NEW st \in AttemptStates
  PROVE  LET t == [s EXCEPT ![i].status = st] IN
           /\ t \in Seq(Attempt) /\ Len(t) = Len(s) /\ DOMAIN t = DOMAIN s
           /\ \A j \in DOMAIN s : /\ t[j] \in Attempt
                                  /\ t[j].step = s[j].step
                                  /\ t[j].key = s[j].key
                                  /\ t[j].input = s[j].input
                                  /\ t[j].status = IF j = i THEN st ELSE s[j].status
<1> DEFINE e == [s[i] EXCEPT !.status = st]
<1>1. s[i] \in Attempt  BY ElementOfSeq
<1>2. e \in Attempt  BY <1>1 DEF Attempt
<1>3. [s EXCEPT ![i] = e] \in Seq(Attempt)
      /\ Len([s EXCEPT ![i] = e]) = Len(s)
      /\ \A j \in 1..Len(s) : [s EXCEPT ![i] = e][j] = IF j = i THEN e ELSE s[j]
  BY <1>2, ExceptSeq
<1>4. e.step = s[i].step /\ e.key = s[i].key /\ e.input = s[i].input /\ e.status = st
  BY <1>1 DEF Attempt
<1>5. \A j \in DOMAIN s : s[j] \in Attempt  BY ElementOfSeq
<1>6. QED  BY <1>2, <1>3, <1>4, <1>5

-------------------------------------------------------------------------------
(* Type correctness *)

LEMMA TypeInit == Init => TypeOK
BY RunAssumption DEF Init, TypeOK, NoCheck, PCs, Answers, Intents

\* The attempts are records numbered from 1.
LEMMA AttemptsTyped ==
  ASSUME TypeOK
  PROVE  /\ Len(attempts) \in Nat
         /\ DOMAIN attempts = 1..Len(attempts)
         /\ \A i \in DOMAIN attempts : /\ i \in Nat
                                       /\ attempts[i] \in Attempt
                                       /\ attempts[i].step \in Steps
                                       /\ attempts[i].key \in Nat
                                       /\ attempts[i].input \in Values
                                       /\ attempts[i].status \in AttemptStates
<1>1. attempts \in Seq(Attempt)  BY DEF TypeOK
<1>2. DOMAIN attempts = 1..Len(attempts) /\ Len(attempts) \in Nat  BY <1>1
<1>3. \A i \in DOMAIN attempts : i \in Nat /\ attempts[i] \in Attempt
  BY <1>1, <1>2, ElementOfSeq
<1>4. QED  BY <1>2, <1>3 DEF Attempt

\* What a call leaves behind is well typed.
WorkersTyped ==
  /\ holder \in Workers \cup {NoWorker}
  /\ pc \in [Workers -> PCs]
  /\ cur \in [Workers -> Nat]
  /\ answer \in [Workers -> Answers]
  /\ round \in [Workers -> Check \cup {NoCheck}]

LEMMA LeaveTyped ==
  ASSUME TypeOK, NEW w \in Workers, Leave(w)
  PROVE  WorkersTyped'
BY DEF TypeOK, WorkersTyped, Leave, Forget, PCs, Answers

LEMMA GotoTyped ==
  ASSUME TypeOK, NEW w \in Workers, NEW label \in PCs, Goto(w, label), Forget(w)
  PROVE  WorkersTyped'
BY DEF TypeOK, WorkersTyped, Goto, Forget, Answers

\* Every step keeps the types, given that a worker with an answer has an attempt.
LEMMA TypeStep ==
  ASSUME TypeOK, RunHasIntent, HandsAreTrue, [Next]_vars
  PROVE  TypeOK'
<1> USE DEF TypeOK, Goto, Leave, Forget
<1>0. DOMAIN attempts \subseteq Nat /\ \A w \in Workers : cur[w] \in Nat
  OBVIOUS
<1>1. ASSUME NEW w \in Workers, NEW new \in Intents, Edit(w, new) PROVE TypeOK'
  BY <1>1 DEF Edit, runVars, stepVars, factVars, workerVars, remoteVars
<1>2. ASSUME NEW w \in Workers, NEW v \in Verdicts, PreflightStart(w, v) PROVE TypeOK'
  BY <1>2 DEF PreflightStart, StartRound, Check, Verdicts, PCs, draftVars, runVars, stepVars, factVars, remoteVars
<1>3. ASSUME NEW w \in Workers, PreflightFinish(w) PROVE TypeOK'
  BY <1>3 DEF PreflightFinish, Granted, RoundIsCurrent, Check, NoCheck, PCs, Answers,
              draftVars, runVars, stepVars, factVars, remoteVars
<1>4. ASSUME NEW w \in Workers, PublishClaim(w) PROVE TypeOK'
  BY <1>4 DEF PublishClaim, Certified, Check, Intents, NoCheck, PCs, draftVars, stepVars, factVars, remoteVars
<1>5. ASSUME NEW w \in Workers, Resume(w) PROVE TypeOK'
  <2>1. cur' \in [Workers -> Nat]  BY <1>0, <1>5 DEF Resume, Unresolved
  <2>2. answer' \in [Workers -> Answers]  BY <1>5 DEF Resume, Answers
  <2>3. pc' \in [Workers -> PCs]  BY <1>5 DEF Resume, Continue, PCs
  <2>4. QED
    BY <1>5, <2>1, <2>2, <2>3 DEF Resume, durable, draftVars, runVars, stepVars, factVars, remoteVars
<1>6. ASSUME NEW w \in Workers, Record(w) PROVE TypeOK'
  <2>1. PICK s \in Steps :
          /\ attempts' = Append(attempts, [step |-> s, key |-> stepKey[s],
                                           input |-> runIntent[s], status |-> "pending"])
          /\ stepStatus' = [stepStatus EXCEPT ![s] = "dispatching"]
    BY <1>6 DEF Record
  <2>2. runState # "none"  BY <1>6 DEF Record, HandsAreTrue
  <2>3. [step |-> s, key |-> stepKey[s], input |-> runIntent[s], status |-> "pending"] \in Attempt
    BY <2>2 DEF RunHasIntent, Intents, Attempt, AttemptStates
  <2>4. attempts' \in Seq(Attempt)  BY <2>1, <2>3, Appended
  <2>5. stepStatus' \in [Steps -> {"ready", "dispatching", "unknown", "applied"}]  BY <2>1
  <2>6. Len(attempts) \in Nat  OBVIOUS
  <2>7. QED  BY <1>6, <2>4, <2>5, <2>6 DEF Record, PCs, draftVars, factVars, remoteVars
<1>7. ASSUME NEW w \in Workers, Send(w) PROVE TypeOK'
  BY <1>7 DEF Send, PCs, durable, draftVars, runVars, stepVars, factVars
<1>20. ASSUME NEW w \in Workers, SkipSend(w) PROVE TypeOK'
  BY <1>20 DEF SkipSend, PCs, Answers, durable, draftVars, runVars, stepVars, factVars, remoteVars
<1>8. ASSUME NEW w \in Workers, NEW a \in {"applied", "refused", "unknown"},
             ApplyReturns(w, a) \/ ReconcileReturns(w, a)
      PROVE  TypeOK'
  <2>1. Answer(w, a)  BY <1>8 DEF ApplyReturns, ReconcileReturns
  <2>2. answer' \in [Workers -> Answers]  BY <2>1 DEF Answer, Answers
  <2>3. barred' \subseteq Nat /\ wire' \subseteq Nat
    <3>1. wire \subseteq Nat /\ barred \subseteq Nat /\ cur[w] \in Nat  OBVIOUS
    <3> HIDE DEF TypeOK
    <3>2. QED  BY <2>1, <3>1 DEF Answer
  <2>4. pc' \in [Workers -> PCs] /\ holder' = holder  BY <1>8 DEF ApplyReturns, ReconcileReturns, PCs
  <2>5. UNCHANGED <<durable, lateFacts, cur, round, made>>  BY <1>8 DEF ApplyReturns, ReconcileReturns
  <2>6. QED  BY <2>2, <2>3, <2>4, <2>5 DEF durable, draftVars, runVars, stepVars, factVars
<1>9. ASSUME NEW w \in Workers, Commit(w) PROVE TypeOK'
  <2> DEFINE i == cur[w]
  <2>1. i \in DOMAIN attempts  BY <1>9 DEF Commit, HandsAreTrue
  <2>2. attempts[i] \in Attempt /\ attempts[i].step \in Steps
    BY <2>1, AttemptsTyped
  <2>3. \A st \in AttemptStates : [attempts EXCEPT ![i].status = st] \in Seq(Attempt)
    BY <2>1, Settled
  <2>4. CASE CommitApplied(w)
    <3>1. attempts' \in Seq(Attempt)  BY <2>4, <2>3 DEF CommitApplied, AttemptStates
    <3>2. stepStatus' \in [Steps -> {"ready", "dispatching", "unknown", "applied"}]
      BY <2>4, <2>2 DEF CommitApplied
    <3>3. binding' \in [Steps -> Nat] /\ resourceRevision' \in Nat
      BY <2>4, <2>2 DEF CommitApplied
    <3>4. WorkersTyped'  BY <2>4, GotoTyped DEF CommitApplied, Continue, PCs
    <3>5. runState' = "running"  BY <2>4 DEF CommitApplied
    <3>6. QED  BY <1>9, <3>1, <3>2, <3>3, <3>4, <3>5 DEF Commit, WorkersTyped, draftVars, remoteVars
  <2>5. CASE CommitUnknown(w)
    <3>1. attempts' \in Seq(Attempt)  BY <2>5, <2>3 DEF CommitUnknown, AttemptStates
    <3>2. stepStatus' \in [Steps -> {"ready", "dispatching", "unknown", "applied"}]
      BY <2>5, <2>2 DEF CommitUnknown
    <3>3. WorkersTyped'  BY <2>5, LeaveTyped DEF CommitUnknown
    <3>4. runState' = "unknown" /\ UNCHANGED factVars  BY <2>5 DEF CommitUnknown
    <3>5. QED  BY <1>9, <3>1, <3>2, <3>3, <3>4 DEF Commit, WorkersTyped, draftVars, factVars, remoteVars
  <2>6. CASE CommitRefused(w)
    <3>1. attempts' \in Seq(Attempt)  BY <2>6, <2>3 DEF CommitRefused, AttemptStates
    <3>2. stepStatus' \in [Steps -> {"ready", "dispatching", "unknown", "applied"}]
      BY <2>6, <2>2 DEF CommitRefused
    <3>3. WorkersTyped'  BY <2>6, LeaveTyped, GotoTyped DEF CommitRefused, Continue, PCs
    <3>4. runState' = "blocked" /\ UNCHANGED factVars  BY <2>6 DEF CommitRefused
    <3>5. QED  BY <1>9, <3>1, <3>2, <3>3, <3>4 DEF Commit, WorkersTyped, draftVars, factVars, remoteVars
  <2>7. QED  BY <1>9, <2>4, <2>5, <2>6 DEF Commit
<1>10. ASSUME NEW w \in Workers, CommitFails(w) \/ DispatchThrows(w) PROVE TypeOK'
  <2>1. Interrupted(w)  BY <1>10 DEF CommitFails, DispatchThrows
  <2>2. WorkersTyped'  BY <2>1, LeaveTyped DEF Interrupted
  <2>3. lateFacts' \subseteq Nat
    <3>1. lateFacts \subseteq Nat /\ cur[w] \in Nat  OBVIOUS
    <3> HIDE DEF TypeOK
    <3>2. QED  BY <1>10, <3>1 DEF CommitFails, DispatchThrows
  <2>4. runState' \in {runState, "unknown", "blocked"}  BY <2>1 DEF Interrupted
  <2>5. QED  BY <2>1, <2>2, <2>3, <2>4 DEF Interrupted, WorkersTyped, draftVars, stepVars, factVars, remoteVars
<1>11. ASSUME NEW w \in Workers, Finish(w) \/ Block(w) PROVE TypeOK'
  <2>1. WorkersTyped'  BY <1>11, LeaveTyped DEF Finish, Block
  <2>2. QED  BY <1>11, <2>1 DEF Finish, Block, WorkersTyped, draftVars, stepVars, factVars, remoteVars
<1>12. ASSUME NEW w \in Workers, NEW v \in Verdicts, RecheckStart(w, v) PROVE TypeOK'
  BY <1>12 DEF RecheckStart, StartRound, Check, Verdicts, PCs, draftVars, runVars, stepVars, factVars, remoteVars
<1>13. ASSUME NEW w \in Workers, RecheckFinish(w) PROVE TypeOK'
  BY <1>13 DEF RecheckFinish, Granted, RoundIsCurrent, Check, NoCheck, PCs,
               draftVars, runVars, stepVars, factVars, remoteVars
<1>14. ASSUME NEW w \in Workers, AdoptRepair(w) PROVE TypeOK'
  <2>1. check.intent \in Intents /\ check.version \in Nat
    BY <1>14 DEF AdoptRepair, Check, NoCheck
  <2>2. stepKey' \in [Steps -> Nat]  BY <1>14 DEF AdoptRepair, RepairedKey
  <2>3. QED  BY <1>14, <2>1, <2>2 DEF AdoptRepair, Intents, PCs, Answers, draftVars, factVars, remoteVars
<1>15. ASSUME NEW w \in Workers, ResumeThrows(w) \/ Crash(w) PROVE TypeOK'
  <2>1. WorkersTyped'
    BY <1>15, LeaveTyped, GotoTyped DEF ResumeThrows, Crash, PCs
  <2>2. UNCHANGED <<durable, lateFacts, remoteVars>>  BY <1>15 DEF ResumeThrows, Crash
  <2>3. QED  BY <2>1, <2>2 DEF WorkersTyped, durable, draftVars, runVars, stepVars, factVars, remoteVars
<1>16. CASE Expire
  BY <1>16 DEF Expire, durable, draftVars, runVars, stepVars, factVars, workerVars, remoteVars
<1>17. ASSUME NEW i \in DOMAIN attempts, Execute(i) PROVE TypeOK'
  BY <1>17 DEF Execute, durable, draftVars, runVars, stepVars, factVars, workerVars
<1>18. CASE UNCHANGED vars
  BY <1>18 DEF vars, durable, draftVars, runVars, stepVars, factVars, workerVars, remoteVars
<1> HIDE DEF TypeOK, Goto, Leave, Forget
<1>21. ASSUME NEW w \in Workers, Call(w) PROVE TypeOK'
  BY <1>21, <1>1, <1>2, <1>3, <1>4, <1>5 DEF Call
<1>22. ASSUME NEW w \in Workers, Dispatch(w) PROVE TypeOK'
  BY <1>22, <1>6, <1>7, <1>20, <1>8, <1>9, <1>10, <1>11 DEF Dispatch
<1>23. ASSUME NEW w \in Workers, Repair(w) PROVE TypeOK'
  BY <1>23, <1>12, <1>13, <1>11, <1>14, <1>15 DEF Repair
<1>24. QED
  BY <1>21, <1>22, <1>23, <1>15, <1>16, <1>17, <1>18 DEF Next

-------------------------------------------------------------------------------
(* The history of the run *)

\* A request that has its effect and is still open is the one that took effect:
\* what was refused cannot, and what is applied belongs to an applied step.
LEMMA OpenEffectIsOwn ==
  ASSUME IInv, NEW i \in DOMAIN attempts, Open(i), KeyMade(i)
  PROVE  i \in made
<1>1. PICK j \in made : SameRequest(i, j)  BY DEF KeyMade
<1>2. j \in DOMAIN attempts /\ j \notin barred  BY DEF IInv, RemoteIsKnown
<1>3. attempts[j].status # "no_effect"  BY <1>2 DEF IInv, HistoryIsTrue
<1>4. j # 0 /\ attempts[j].step \in Steps /\ attempts[j].status \in AttemptStates
  BY <1>2, AttemptsTyped DEF IInv
<1>5. CASE attempts[j].status = "applied"
  <2>1. attempts[j].step \in Applied  BY <1>2, <1>4, <1>5 DEF IInv, HistoryIsTrue
  <2>2. attempts[i].step \notin Applied  BY DEF IInv, OneRequestOpen
  <2>3. QED  BY <1>1, <2>1, <2>2 DEF SameRequest
<1>6. CASE Open(j)
  BY <1>2, <1>6 DEF IInv, OneRequestOpen
<1>7. QED  BY <1>3, <1>4, <1>5, <1>6 DEF AttemptStates, Open

\* What a worker that commits knows.
LEMMA InHand ==
  ASSUME IInv, NEW w \in Workers, Commit(w)
  PROVE  /\ cur[w] \in DOMAIN attempts /\ Open(cur[w])
         /\ cur[w] = Len(attempts)
         /\ attempts[cur[w]].step \in Steps \ Applied
         /\ answer[w] = "applied" => cur[w] \in made
         /\ answer[w] = "refused" => cur[w] \in barred
         /\ runState # "none" /\ runState # "published"
<1>1. cur[w] \in DOMAIN attempts /\ Open(cur[w]) /\ holder = w
  BY DEF Commit, IInv, HandsAreTrue
<1>2. cur[w] = Len(attempts) /\ attempts[cur[w]].step \in Steps \ Applied
  BY <1>1, AttemptsTyped DEF IInv, OneRequestOpen
<1>3. answer[w] = "applied" => cur[w] \in made
  BY <1>1, OpenEffectIsOwn DEF IInv, HandsAreTrue
<1>4. answer[w] = "refused" => cur[w] \in barred  BY DEF IInv, HandsAreTrue
<1>5. runState # "none"  BY DEF Commit, IInv, HandsAreTrue
<1>6. runState # "published"  BY <1>1, RunAssumption DEF IInv, LeaseProtects
<1>7. QED  BY <1>1, <1>2, <1>3, <1>4, <1>5, <1>6

\* The attempts after a commit.
AfterCommit(i, st) ==
  /\ Len(attempts') = Len(attempts)
  /\ DOMAIN attempts' = DOMAIN attempts
  /\ \A j \in DOMAIN attempts :
       /\ attempts'[j].step = attempts[j].step
       /\ attempts'[j].key = attempts[j].key
       /\ attempts'[j].input = attempts[j].input
       /\ attempts'[j].status = IF j = i THEN st ELSE attempts[j].status

LEMMA CommitSettles ==
  ASSUME TypeOK, NEW i \in DOMAIN attempts, NEW st \in AttemptStates,
         attempts' = [attempts EXCEPT ![i].status = st]
  PROVE  AfterCommit(i, st)
<1>1. attempts \in Seq(Attempt)  BY DEF TypeOK
<1>2. QED  BY <1>1, Settled DEF AfterCommit

\* The attempts after a request is recorded for step s.
AfterRecord(s) ==
  LET n == Len(attempts) + 1 IN
    /\ Len(attempts') = n
    /\ DOMAIN attempts' = DOMAIN attempts \cup {n}
    /\ n \notin DOMAIN attempts
    /\ \A j \in DOMAIN attempts : attempts'[j] = attempts[j]
    /\ attempts'[n].step = s
    /\ attempts'[n].key = stepKey[s]
    /\ attempts'[n].input = runIntent[s]
    /\ attempts'[n].status = "pending"

LEMMA RecordAppends ==
  ASSUME IInv, NEW w \in Workers, Record(w)
  PROVE  \E s \in Steps : /\ IsNext(s) /\ AfterRecord(s)
                          /\ stepStatus' = [stepStatus EXCEPT ![s] = "dispatching"]
<1>1. PICK s \in Steps :
        /\ IsNext(s)
        /\ attempts' = Append(attempts, [step |-> s, key |-> stepKey[s],
                                         input |-> runIntent[s], status |-> "pending"])
        /\ stepStatus' = [stepStatus EXCEPT ![s] = "dispatching"]
  BY DEF Record
<1> DEFINE e == [step |-> s, key |-> stepKey[s], input |-> runIntent[s], status |-> "pending"]
<1>2. runState # "none"  BY DEF Record, IInv, HandsAreTrue
<1>3. e \in Attempt
  BY <1>2 DEF IInv, TypeOK, RunHasIntent, Intents, Attempt, AttemptStates
<1>4. attempts \in Seq(Attempt)  BY DEF IInv, TypeOK
<1>5. Len(attempts) \in Nat /\ DOMAIN attempts = 1..Len(attempts)  BY <1>4
<1>6. attempts' = Append(attempts, e)  BY <1>1
<1>7. /\ Len(attempts') = Len(attempts) + 1
      /\ DOMAIN attempts' = 1..(Len(attempts) + 1)
      /\ attempts'[Len(attempts) + 1] = e
      /\ \A j \in DOMAIN attempts : attempts'[j] = attempts[j]
  BY <1>3, <1>4, <1>6, Appended
<1>8. AfterRecord(s)  BY <1>5, <1>7 DEF AfterRecord
<1>9. QED  BY <1>1, <1>8

HistoryInv ==
  /\ RunHasIntent /\ RemoteIsKnown /\ OneRequestOpen /\ HistoryIsTrue
  /\ KeysAreCurrent /\ BlockedMeansResolved /\ PlanOrder

\* What HistoryInv is about.
historyVars == <<runState, runIntent, revision, stepVars, attempts, binding, lateFacts,
                 wire, made, barred>>

LEMMA HistoryUnchanged ==
  ASSUME HistoryInv, UNCHANGED historyVars
  PROVE  HistoryInv'
BY DEF HistoryInv, historyVars, stepVars, RunHasIntent, RemoteIsKnown, OneRequestOpen, HistoryIsTrue,
       KeysAreCurrent, BlockedMeansResolved, PlanOrder, KeyMade, SameRequest, Open, Unresolved,
       Applied, Input

\* The transactions that leave the run alone, and the calls that only look.
LEMMA QuietSteps ==
  ASSUME NEW w \in Workers,
         \/ \E new \in Intents : Edit(w, new)
         \/ \E v \in Verdicts : PreflightStart(w, v) \/ RecheckStart(w, v)
         \/ PreflightFinish(w) \/ Resume(w) \/ SkipSend(w) \/ RecheckFinish(w)
         \/ ResumeThrows(w) \/ Crash(w) \/ Expire
  PROVE  UNCHANGED historyVars
BY DEF historyVars, Edit, PreflightStart, PreflightFinish, Resume, SkipSend, RecheckStart,
       RecheckFinish, ResumeThrows, Crash, Expire, durable, runVars, stepVars, factVars, remoteVars

\* Committing an applied receipt.
LEMMA AppliedStep ==
  ASSUME IInv, NEW w \in Workers, Commit(w), answer[w] = "applied", CommitApplied(w)
  PROVE  HistoryInv'
<1> DEFINE i == cur[w]
           s == attempts[i].step
<1>1. /\ i \in DOMAIN attempts /\ Open(i) /\ i = Len(attempts)
      /\ s \in Steps \ Applied /\ i \in made /\ runState # "none"
  BY InHand
<1>2. AfterCommit(i, "applied")
  BY <1>1, CommitSettles DEF IInv, CommitApplied, AttemptStates
<1>3. /\ UNCHANGED <<runIntent, revision, stepKey, lateFacts, wire, made, barred>>
      /\ runState' = "running"
  BY DEF Commit, CommitApplied, remoteVars
<1>4. \A t \in Steps : binding'[t] = IF t = s THEN i ELSE binding[t]
  BY <1>1 DEF CommitApplied, IInv, TypeOK
<1>5. \A t \in Steps : t \in Applied' <=> t \in Applied \/ t = s
  BY <1>1 DEF CommitApplied, IInv, TypeOK, Applied
<1>6. \A j \in DOMAIN attempts : /\ j \in Nat /\ j # 0 /\ attempts[j].step \in Steps
                                 /\ attempts[j].status \in AttemptStates
  BY AttemptsTyped DEF IInv
<1>7. RunHasIntent'  BY <1>1, <1>3 DEF IInv, RunHasIntent
<1>8. RemoteIsKnown'
  BY <1>2, <1>3 DEF IInv, RemoteIsKnown, AfterCommit, KeyMade, SameRequest
<1>9. \A j \in DOMAIN attempts' : ~Open(j)'
  BY <1>1, <1>2 DEF IInv, OneRequestOpen, AfterCommit, Open
<1>10. OneRequestOpen' /\ BlockedMeansResolved'
  BY <1>9 DEF OneRequestOpen, BlockedMeansResolved, Unresolved
<1>11. HistoryIsTrue'
  <2>1. \A j \in DOMAIN attempts : attempts[j].status = "applied" => attempts[j].step # s
    BY <1>1, <1>6 DEF IInv, HistoryIsTrue
  <2>2. ASSUME NEW j \in DOMAIN attempts'
        PROVE  /\ attempts'[j].status = "no_effect" => j \in barred'
               /\ attempts'[j].status = "applied" => j \in made' /\ binding'[attempts'[j].step] = j
    BY <1>1, <1>2, <1>3, <1>4, <1>6, <2>1 DEF IInv, HistoryIsTrue, AfterCommit
  <2>3. ASSUME NEW t \in Steps
        PROVE  /\ t \in Applied' <=> binding'[t] # 0
               /\ binding'[t] # 0 => /\ binding'[t] \in DOMAIN attempts'
                                     /\ attempts'[binding'[t]].step = t
                                     /\ attempts'[binding'[t]].status = "applied"
                                     /\ Input(binding[t])' = runIntent'[t]
    <3>1. CASE t = s
      <4>1. Input(i) = runIntent[s]  BY <1>1 DEF IInv, KeysAreCurrent
      <4>2. QED  BY <1>1, <1>2, <1>3, <1>4, <1>5, <1>6, <3>1, <4>1 DEF AfterCommit, Input
    <3>2. CASE t # s
      BY <1>1, <1>2, <1>3, <1>4, <1>5, <1>6, <3>2 DEF IInv, HistoryIsTrue, AfterCommit, Input
    <3>3. QED  BY <3>1, <3>2
  <2>4. QED  BY <2>2, <2>3 DEF HistoryIsTrue
<1>12. KeysAreCurrent'
  BY <1>2, <1>3, <1>6, <1>9 DEF IInv, KeysAreCurrent, AfterCommit, Input
<1>13. PlanOrder'
  <2>1. \A j \in DOMAIN attempts : 1..(attempts[j].step - 1) \subseteq Steps
    BY <1>6, RunAssumption DEF Steps
  <2>2. \A j \in DOMAIN attempts : 1..(attempts[j].step - 1) \subseteq Applied'
    BY <1>5, <2>1 DEF IInv, PlanOrder
  <2>3. QED  BY <1>2, <2>2 DEF PlanOrder, AfterCommit
<1>14. QED  BY <1>7, <1>8, <1>10, <1>11, <1>12, <1>13 DEF HistoryInv

\* Committing that the outcome is unknown, or that there was no effect.
LEMMA NotAppliedStep ==
  ASSUME IInv, NEW w \in Workers, Commit(w),
         \/ answer[w] = "unknown" /\ CommitUnknown(w)
         \/ answer[w] = "refused" /\ CommitRefused(w)
  PROVE  HistoryInv'
<1> DEFINE i == cur[w]
           s == attempts[i].step
           st == IF answer[w] = "refused" THEN "no_effect" ELSE "unknown"
<1>1. /\ i \in DOMAIN attempts /\ Open(i) /\ i = Len(attempts)
      /\ s \in Steps \ Applied /\ runState # "none"
      /\ st = "no_effect" => i \in barred
  BY InHand
<1>2. AfterCommit(i, st)
  BY <1>1, CommitSettles DEF IInv, CommitUnknown, CommitRefused, AttemptStates
<1>3. /\ UNCHANGED <<runIntent, revision, stepKey, binding, lateFacts, wire, made, barred>>
      /\ runState' = IF st = "no_effect" THEN "blocked" ELSE "unknown"
  BY DEF Commit, CommitUnknown, CommitRefused, factVars, remoteVars
<1>4. \A t \in Steps : t \in Applied' <=> t \in Applied
  BY <1>1 DEF CommitUnknown, CommitRefused, IInv, TypeOK, Applied
<1>5. \A j \in DOMAIN attempts : /\ j \in Nat /\ j # 0 /\ attempts[j].step \in Steps
                                 /\ attempts[j].status \in AttemptStates
  BY AttemptsTyped DEF IInv
<1>6. RunHasIntent'  BY <1>1, <1>3 DEF IInv, RunHasIntent
<1>7. RemoteIsKnown'
  BY <1>2, <1>3 DEF IInv, RemoteIsKnown, AfterCommit, KeyMade, SameRequest
<1>8. \A j \in DOMAIN attempts : Open(j)' => Open(j) /\ (st = "no_effect" => j # i)
  BY <1>1, <1>2 DEF AfterCommit, Open
<1>9. OneRequestOpen'
  BY <1>1, <1>2, <1>4, <1>5, <1>8 DEF IInv, OneRequestOpen, AfterCommit
<1>10. BlockedMeansResolved'
  BY <1>1, <1>2, <1>3, <1>8 DEF IInv, OneRequestOpen, BlockedMeansResolved, Unresolved, AfterCommit
<1>11. HistoryIsTrue'
  <2>1. ASSUME NEW j \in DOMAIN attempts'
        PROVE  /\ attempts'[j].status = "no_effect" => j \in barred'
               /\ attempts'[j].status = "applied" => j \in made' /\ binding'[attempts'[j].step] = j
    BY <1>1, <1>2, <1>3, <1>5 DEF IInv, HistoryIsTrue, AfterCommit
  <2>2. ASSUME NEW t \in Steps
        PROVE  /\ t \in Applied' <=> binding'[t] # 0
               /\ binding'[t] # 0 => /\ binding'[t] \in DOMAIN attempts'
                                     /\ attempts'[binding'[t]].step = t
                                     /\ attempts'[binding'[t]].status = "applied"
                                     /\ Input(binding[t])' = runIntent'[t]
    BY <1>1, <1>2, <1>3, <1>4, <1>5 DEF IInv, HistoryIsTrue, AfterCommit, Input, Open
  <2>3. QED  BY <2>1, <2>2 DEF HistoryIsTrue
<1>12. KeysAreCurrent'
  BY <1>2, <1>3, <1>5, <1>8 DEF IInv, KeysAreCurrent, AfterCommit, Input
<1>13. PlanOrder'
  <2>1. \A j \in DOMAIN attempts : 1..(attempts[j].step - 1) \subseteq Steps
    BY <1>5, RunAssumption DEF Steps
  <2>2. QED  BY <1>2, <1>4, <2>1 DEF IInv, PlanOrder, AfterCommit
<1>14. QED  BY <1>6, <1>7, <1>9, <1>10, <1>11, <1>12, <1>13 DEF HistoryInv

\* Recording a request.
LEMMA RecordStep ==
  ASSUME IInv, NEW w \in Workers, Record(w)
  PROVE  HistoryInv'
<1>1. PICK s \in Steps : /\ IsNext(s) /\ AfterRecord(s)
                         /\ stepStatus' = [stepStatus EXCEPT ![s] = "dispatching"]
  BY RecordAppends
<1> DEFINE n == Len(attempts) + 1
<1>2. /\ UNCHANGED <<runIntent, revision, stepKey, binding, lateFacts, wire, made, barred>>
      /\ runState' = "running" /\ runState # "none"
      /\ Unresolved = {}
  BY DEF Record, IInv, HandsAreTrue, factVars, remoteVars
<1>3. s \notin Applied /\ 1..(s - 1) \subseteq Applied  BY <1>1 DEF IsNext
<1>4. \A t \in Steps : t \in Applied' <=> t \in Applied
  BY <1>1, <1>3 DEF IInv, TypeOK, Applied
<1>5. /\ n \in Nat /\ n # 0
      /\ \A j \in DOMAIN attempts : /\ j \in Nat /\ j # n /\ j # 0 /\ attempts[j].step \in Steps
                                    /\ attempts[j].status \in AttemptStates
  BY AttemptsTyped DEF IInv
<1>6. \A j \in DOMAIN attempts : ~Open(j) /\ ~Open(j)'
  BY <1>1, <1>2 DEF Unresolved, AfterRecord, Open
<1>7. RunHasIntent'  BY <1>2 DEF IInv, RunHasIntent
<1>8. RemoteIsKnown'
  BY <1>1, <1>2 DEF IInv, RemoteIsKnown, AfterRecord, KeyMade, SameRequest
<1>9. OneRequestOpen'
  BY <1>1, <1>3, <1>4, <1>6 DEF OneRequestOpen, AfterRecord
<1>10. BlockedMeansResolved'  BY <1>2 DEF BlockedMeansResolved
<1>11. HistoryIsTrue'
  <2>1. ASSUME NEW j \in DOMAIN attempts'
        PROVE  /\ attempts'[j].status = "no_effect" => j \in barred'
               /\ attempts'[j].status = "applied" => j \in made' /\ binding'[attempts'[j].step] = j
    BY <1>1, <1>2 DEF IInv, HistoryIsTrue, AfterRecord
  <2>2. ASSUME NEW t \in Steps
        PROVE  /\ t \in Applied' <=> binding'[t] # 0
               /\ binding'[t] # 0 => /\ binding'[t] \in DOMAIN attempts'
                                     /\ attempts'[binding'[t]].step = t
                                     /\ attempts'[binding'[t]].status = "applied"
                                     /\ Input(binding[t])' = runIntent'[t]
    BY <1>1, <1>2, <1>4 DEF IInv, HistoryIsTrue, AfterRecord, Input
  <2>3. QED  BY <2>1, <2>2 DEF HistoryIsTrue
<1>12. KeysAreCurrent'
  BY <1>1, <1>2, <1>6 DEF IInv, KeysAreCurrent, AfterRecord, Input
<1>13. PlanOrder'
  <2>1. \A j \in DOMAIN attempts : 1..(attempts[j].step - 1) \subseteq Steps
    BY <1>5, RunAssumption DEF Steps
  <2>2. 1..(s - 1) \subseteq Steps  BY RunAssumption DEF Steps
  <2>3. QED  BY <1>1, <1>3, <1>4, <2>1, <2>2 DEF IInv, PlanOrder, AfterRecord
<1>14. QED  BY <1>7, <1>8, <1>9, <1>10, <1>11, <1>12, <1>13 DEF HistoryInv

\* Adopting a repaired plan: what is applied keeps its value, what was attempted
\* with another value gets a key nobody has used.
LEMMA AdoptStep ==
  ASSUME IInv, NEW w \in Workers, AdoptRepair(w)
  PROVE  HistoryInv'
<1>1. Unresolved = {} /\ runState # "none"
  BY DEF AdoptRepair, IInv, LeaseProtects, HandsAreTrue
<1>2. \A t \in Applied : runIntent'[t] = runIntent[t]
  BY <1>1 DEF AdoptRepair, Protects
<1>3. runIntent' \in Intents  BY DEF AdoptRepair, IInv, TypeOK, Check, NoCheck
<1>4. \A t \in Steps : t \in Applied' <=> t \in Applied
  BY DEF AdoptRepair, IInv, TypeOK, Applied
<1>5. /\ UNCHANGED <<attempts, binding, lateFacts, wire, made, barred>>
      /\ runState' = "blocked" /\ revision' = revision + 1 /\ revision \in Nat
  BY DEF AdoptRepair, factVars, remoteVars, IInv, TypeOK
<1>6. \A t \in Steps : stepKey'[t] =
        IF t \notin Applied /\ Attempted(t) /\ runIntent'[t] # runIntent[t]
        THEN revision + 1 ELSE stepKey[t]
  BY DEF AdoptRepair, RepairedKey
<1>7. /\ stepKey \in [Steps -> Nat]
      /\ \A j \in DOMAIN attempts : attempts[j].step \in Steps /\ attempts[j].key \in Nat
  BY AttemptsTyped DEF IInv, TypeOK
<1>8. \A j \in DOMAIN attempts : ~Open(j) /\ ~Open(j)'
  BY <1>1, <1>5 DEF Unresolved, Open
<1>9. RunHasIntent'  BY <1>3, <1>5 DEF RunHasIntent
<1>10. RemoteIsKnown'  BY <1>5 DEF IInv, RemoteIsKnown, KeyMade, SameRequest
<1>11. OneRequestOpen' /\ BlockedMeansResolved'
  BY <1>5, <1>8 DEF OneRequestOpen, BlockedMeansResolved, Unresolved
<1>12. HistoryIsTrue'
  BY <1>2, <1>4, <1>5 DEF IInv, HistoryIsTrue, Input
<1>13. KeysAreCurrent'
  <2>1. \A t \in Steps : stepKey'[t] <= revision'
    BY <1>5, <1>6, <1>7 DEF IInv, KeysAreCurrent
  <2>2. ASSUME NEW j \in DOMAIN attempts
        PROVE  LET t == attempts[j].step IN
                 /\ attempts[j].key <= revision'
                 /\ attempts[j].key = stepKey'[t] => Input(j) = runIntent'[t]
    <3> DEFINE t == attempts[j].step
    <3>1. t \in Steps /\ attempts[j].key \in Nat /\ attempts[j].key <= revision
      BY <1>7 DEF IInv, KeysAreCurrent
    <3>2. Attempted(t)  BY DEF Attempted
    <3>3. CASE stepKey'[t] = stepKey[t]
      <4>1. runIntent'[t] = runIntent[t]
        BY <1>2, <1>5, <1>6, <1>7, <3>1, <3>2, <3>3 DEF IInv, KeysAreCurrent
      <4>2. QED  BY <1>5, <3>1, <3>3, <4>1 DEF IInv, KeysAreCurrent
    <3>4. CASE stepKey'[t] # stepKey[t]
      BY <1>5, <1>6, <3>1, <3>4
    <3>5. QED  BY <3>3, <3>4
  <2>3. QED  BY <1>5, <1>8, <2>1, <2>2 DEF KeysAreCurrent, Input
<1>14. PlanOrder'
  <2>1. \A j \in DOMAIN attempts : 1..(attempts[j].step - 1) \subseteq Steps
    BY <1>7, RunAssumption DEF Steps
  <2>2. QED  BY <1>4, <1>5, <2>1 DEF IInv, PlanOrder
<1>15. QED  BY <1>9, <1>10, <1>11, <1>12, <1>13, <1>14 DEF HistoryInv

\* A request takes effect.
LEMMA ExecuteStep ==
  ASSUME IInv, NEW i \in DOMAIN attempts, Execute(i)
  PROVE  HistoryInv'
<1>1. /\ UNCHANGED <<runState, runIntent, revision, stepVars, attempts, binding, lateFacts, barred>>
      /\ made' = made \cup {i} /\ wire' \subseteq wire /\ i \notin barred
  BY DEF Execute, durable, runVars, stepVars, factVars
<1>2. RemoteIsKnown'
  BY <1>1 DEF IInv, RemoteIsKnown, KeyMade, SameRequest
<1>3. HistoryIsTrue'
  BY <1>1 DEF IInv, HistoryIsTrue, Applied, Input, stepVars
<1>4. QED
  BY <1>1, <1>2, <1>3 DEF IInv, HistoryInv, stepVars, RunHasIntent, OneRequestOpen, KeysAreCurrent,
     BlockedMeansResolved, PlanOrder, Open, Unresolved, Applied, Input

\* A request is sent; an adapter answers.
LEMMA SendStep ==
  ASSUME IInv, NEW w \in Workers, Send(w)
  PROVE  HistoryInv'
<1>1. /\ UNCHANGED <<runState, runIntent, revision, stepVars, attempts, binding, lateFacts, made, barred>>
      /\ wire' = wire \cup {cur[w]} /\ cur[w] \in DOMAIN attempts
  BY DEF Send, durable, runVars, stepVars, factVars, IInv, HandsAreTrue
<1>2. RemoteIsKnown'  BY <1>1 DEF IInv, RemoteIsKnown, KeyMade, SameRequest
<1>3. QED
  BY <1>1, <1>2 DEF IInv, HistoryInv, stepVars, RunHasIntent, OneRequestOpen, HistoryIsTrue,
     KeysAreCurrent, BlockedMeansResolved, PlanOrder, Open, Unresolved, Applied, Input

LEMMA AnswerStep ==
  ASSUME IInv, NEW w \in Workers, NEW a \in {"applied", "refused", "unknown"},
         ApplyReturns(w, a) \/ ReconcileReturns(w, a)
  PROVE  HistoryInv'
<1>1. UNCHANGED <<runState, runIntent, revision, stepVars, attempts, binding, lateFacts, made>>
  BY DEF ApplyReturns, ReconcileReturns, durable, runVars, stepVars, factVars
<1>2. cur[w] \in DOMAIN attempts /\ Answer(w, a)
  BY DEF ApplyReturns, ReconcileReturns, IInv, HandsAreTrue
<1>3. cur[w] \in made => KeyMade(cur[w])  BY DEF KeyMade, SameRequest
<1>4. /\ wire' \subseteq wire /\ barred \subseteq barred'
      /\ \A j \in barred' : j \in barred \/ (j = cur[w] /\ j \notin made)
  <2>1. CASE a = "refused"
    <3>1. cur[w] \notin made /\ barred' = barred \cup {cur[w]} /\ wire' = wire \ {cur[w]}
      BY <1>2, <1>3, <2>1 DEF Answer
    <3>2. QED  BY <3>1
  <2>2. CASE a # "refused"
    <3>1. barred' = barred /\ wire' = wire  BY <1>2, <2>2 DEF Answer
    <3>2. QED  BY <3>1
  <2>3. QED  BY <2>1, <2>2
<1>5. RemoteIsKnown'
  BY <1>1, <1>2, <1>4 DEF IInv, RemoteIsKnown, KeyMade, SameRequest
<1>6. HistoryIsTrue'
  BY <1>1, <1>4 DEF IInv, HistoryIsTrue, Applied, Input, stepVars
<1>7. QED
  BY <1>1, <1>5, <1>6 DEF IInv, HistoryInv, stepVars, RunHasIntent, OneRequestOpen, KeysAreCurrent,
     BlockedMeansResolved, PlanOrder, Open, Unresolved, Applied, Input

\* The run is claimed: nothing has been sent yet.
LEMMA ClaimStep ==
  ASSUME IInv, NEW w \in Workers, PublishClaim(w)
  PROVE  HistoryInv'
<1>1. /\ UNCHANGED <<revision, stepVars, attempts, binding, lateFacts, wire, made, barred>>
      /\ runState' = "running" /\ runIntent' = check.intent /\ runState = "none"
  BY DEF PublishClaim, factVars, remoteVars
<1>2. attempts = <<>>  BY <1>1 DEF IInv, RunHasIntent
<1>3. DOMAIN attempts = {}  BY <1>2
<1>4. runIntent' \in Intents  BY <1>1 DEF PublishClaim, Certified, IInv, TypeOK, Check, NoCheck
<1>5. HistoryIsTrue'
  BY <1>1, <1>3 DEF IInv, HistoryIsTrue, Applied, stepVars
<1>6. KeysAreCurrent'  BY <1>1, <1>3 DEF IInv, KeysAreCurrent, stepVars
<1>7. QED
  BY <1>1, <1>3, <1>4, <1>5, <1>6 DEF IInv, HistoryInv, stepVars, RunHasIntent, RemoteIsKnown,
     OneRequestOpen, BlockedMeansResolved, PlanOrder

\* The run's state changes, and a late receipt may be kept.
LEMMA MarkStep ==
  ASSUME IInv, NEW w \in Workers,
         CommitFails(w) \/ DispatchThrows(w) \/ Finish(w) \/ Block(w)
  PROVE  HistoryInv'
<1>1. /\ UNCHANGED <<runIntent, revision, stepVars, attempts, binding, wire, made, barred>>
      /\ runState' # "none" \/ runState' = runState
  BY DEF CommitFails, DispatchThrows, Finish, Block, Interrupted, stepVars, factVars, remoteVars
<1>2. runState # "none"
  BY DEF CommitFails, DispatchThrows, Finish, Block, IInv, HandsAreTrue
<1>3. \A i \in lateFacts' : i \in lateFacts \/ \E v \in Workers :
        i = cur[v] /\ cur[v] \in DOMAIN attempts /\ KeyMade(cur[v])
  BY DEF CommitFails, DispatchThrows, Finish, Block, IInv, HandsAreTrue
<1>4. RemoteIsKnown'
  BY <1>1, <1>3 DEF IInv, RemoteIsKnown, KeyMade, SameRequest
<1>5. runState' = "blocked" => Unresolved = {}
  BY DEF CommitFails, DispatchThrows, Finish, Block, Interrupted, IInv, BlockedMeansResolved, LeaseProtects
<1>6. BlockedMeansResolved'
  BY <1>1, <1>5 DEF BlockedMeansResolved, Unresolved, Open
<1>7. QED
  BY <1>1, <1>2, <1>4, <1>6 DEF IInv, HistoryInv, stepVars, RunHasIntent, OneRequestOpen, HistoryIsTrue,
     KeysAreCurrent, PlanOrder, Open, Applied, Input

LEMMA HistoryStep ==
  ASSUME IInv, [Next]_vars
  PROVE  HistoryInv'
<1>0. HistoryInv  BY DEF IInv, HistoryInv
<1>1. ASSUME NEW w \in Workers, Call(w) PROVE HistoryInv'
  BY <1>0, <1>1, QuietSteps, HistoryUnchanged, ClaimStep DEF Call
<1>2. ASSUME NEW w \in Workers, Dispatch(w) PROVE HistoryInv'
  <2>1. CASE Commit(w)
    BY <2>1, AppliedStep, NotAppliedStep DEF Commit
  <2>2. CASE SkipSend(w)
    BY <1>0, <2>2, QuietSteps, HistoryUnchanged
  <2>3. QED
    BY <1>2, <2>1, <2>2, RecordStep, SendStep, AnswerStep, MarkStep DEF Dispatch
<1>3. ASSUME NEW w \in Workers, Repair(w) PROVE HistoryInv'
  BY <1>0, <1>3, QuietSteps, HistoryUnchanged, MarkStep, AdoptStep DEF Repair
<1>4. ASSUME NEW w \in Workers, Crash(w) PROVE HistoryInv'
  BY <1>0, <1>4, QuietSteps, HistoryUnchanged
<1>5. CASE Expire
  <2>1. UNCHANGED historyVars
    BY <1>5 DEF Expire, historyVars, durable, runVars, stepVars, factVars, remoteVars
  <2>2. QED  BY <1>0, <2>1, HistoryUnchanged
<1>6. CASE UNCHANGED vars
  <2>1. UNCHANGED historyVars
    BY <1>6 DEF vars, historyVars, durable, runVars, stepVars, factVars, remoteVars
  <2>2. QED  BY <1>0, <2>1, HistoryUnchanged
<1>7. QED
  BY <1>1, <1>2, <1>3, <1>4, <1>5, <1>6, ExecuteStep DEF Next

-------------------------------------------------------------------------------
(* The workers *)

\* An attempt keeps its request, and effects and refusals are not taken back.
RemoteGrows ==
  /\ DOMAIN attempts \subseteq DOMAIN attempts'
  /\ \A j \in DOMAIN attempts : /\ attempts'[j].step = attempts[j].step
                                /\ attempts'[j].key = attempts[j].key
  /\ made \subseteq made' /\ barred \subseteq barred'
  /\ runState # "none" => runState' # "none"

LEMMA Growth ==
  ASSUME IInv, [Next]_vars
  PROVE  RemoteGrows
<1>1. ASSUME UNCHANGED historyVars PROVE RemoteGrows
  BY <1>1 DEF RemoteGrows, historyVars
<1>2. ASSUME NEW w \in Workers, Commit(w) PROVE RemoteGrows
  <2>1. cur[w] \in DOMAIN attempts  BY <1>2, InHand
  <2>2. PICK st \in AttemptStates : attempts' = [attempts EXCEPT ![cur[w]].status = st]
    BY <1>2 DEF Commit, CommitApplied, CommitUnknown, CommitRefused, AttemptStates
  <2>3. AfterCommit(cur[w], st)  BY <2>1, <2>2, CommitSettles DEF IInv
  <2>4. runState' # "none" /\ UNCHANGED <<made, barred>>
    BY <1>2 DEF Commit, CommitApplied, CommitUnknown, CommitRefused, remoteVars
  <2>5. QED  BY <2>3, <2>4 DEF RemoteGrows, AfterCommit
<1>3. ASSUME NEW w \in Workers, Record(w) PROVE RemoteGrows
  <2>1. PICK s \in Steps : AfterRecord(s)  BY <1>3, RecordAppends
  <2>2. runState' # "none" /\ UNCHANGED <<made, barred>>  BY <1>3 DEF Record, remoteVars
  <2>3. QED  BY <2>1, <2>2 DEF RemoteGrows, AfterRecord
<1>4. ASSUME NEW w \in Workers,
             \/ PublishClaim(w) \/ Send(w) \/ CommitFails(w) \/ DispatchThrows(w) \/ Finish(w)
             \/ Block(w) \/ AdoptRepair(w)
             \/ \E a \in {"applied", "refused", "unknown"} : ApplyReturns(w, a) \/ ReconcileReturns(w, a)
      PROVE  RemoteGrows
  <2>1. attempts' = attempts /\ made' = made /\ (runState # "none" => runState' # "none")
    BY <1>4 DEF PublishClaim, Send, CommitFails, DispatchThrows, Finish, Block, AdoptRepair,
       ApplyReturns, ReconcileReturns, Interrupted, remoteVars, durable, runVars
  <2>2. barred \subseteq barred'
    BY <1>4 DEF PublishClaim, Send, CommitFails, DispatchThrows, Finish, Block, AdoptRepair,
       ApplyReturns, ReconcileReturns, Interrupted, Answer, remoteVars
  <2>3. QED  BY <2>1, <2>2 DEF RemoteGrows
<1>5. ASSUME NEW i \in DOMAIN attempts, Execute(i) PROVE RemoteGrows
  BY <1>5 DEF Execute, RemoteGrows, durable, runVars
<1>6. ASSUME NEW w \in Workers, Call(w) PROVE RemoteGrows
  BY <1>1, <1>4, <1>6, QuietSteps DEF Call
<1>7. ASSUME NEW w \in Workers, Dispatch(w) PROVE RemoteGrows
  BY <1>1, <1>2, <1>3, <1>4, <1>7, QuietSteps DEF Dispatch
<1>8. ASSUME NEW w \in Workers, Repair(w) PROVE RemoteGrows
  BY <1>1, <1>4, <1>8, QuietSteps DEF Repair
<1>9. ASSUME NEW w \in Workers, Crash(w) PROVE RemoteGrows
  BY <1>1, <1>9, QuietSteps
<1>10. CASE Expire \/ UNCHANGED vars
  <2>1. UNCHANGED historyVars
    BY <1>10 DEF Expire, vars, historyVars, durable, runVars, stepVars, factVars, remoteVars
  <2>2. QED  BY <1>1, <2>1
<1>11. QED
  BY <1>5, <1>6, <1>7, <1>8, <1>9, <1>10 DEF Next

\* What a worker knows stays true while it does nothing.
Hand(w) ==
  /\ pc[w] \in {"send", "sent", "commit", "asking", "settle"} => cur[w] \in DOMAIN attempts
  /\ pc[w] \notin {"commit", "settle"} => answer[w] = "none"
  /\ answer[w] = "applied" => KeyMade(cur[w])
  /\ answer[w] = "refused" => cur[w] \in barred
  /\ pc[w] \notin {"idle", "checking"} => runState # "none"

LEMMA HandKept ==
  ASSUME IInv, RemoteGrows, NEW w \in Workers,
         \/ UNCHANGED <<pc[w], cur[w], answer[w]>>
         \/ /\ pc[w] \in {"idle", "checking"} <=> pc'[w] \in {"idle", "checking"}
            /\ pc[w] \in {"send", "sent", "commit", "asking", "settle"}
                 <=> pc'[w] \in {"send", "sent", "commit", "asking", "settle"}
            /\ pc[w] \in {"commit", "settle"} <=> pc'[w] \in {"commit", "settle"}
            /\ UNCHANGED <<cur[w], answer[w]>>
  PROVE  Hand(w)'
<1>1. Hand(w)  BY DEF IInv, HandsAreTrue, Hand
<1>2. answer[w] = "none" \/ cur[w] \in DOMAIN attempts
  BY <1>1 DEF Hand
<1>3. cur[w] \in DOMAIN attempts /\ KeyMade(cur[w]) => KeyMade(cur[w])'
  BY DEF IInv, RemoteIsKnown, RemoteGrows, KeyMade, SameRequest
<1>4. QED  BY <1>1, <1>2, <1>3 DEF Hand, RemoteGrows

\* A worker whose call ends knows nothing.
LEMMA HandLeft ==
  ASSUME TypeOK, NEW w \in Workers, pc' = [pc EXCEPT ![w] = "idle"], Forget(w)
  PROVE  Hand(w)'
BY DEF TypeOK, Forget, Hand

\* A worker that goes on within its call, with nothing in hand.
LEMMA HandForgotten ==
  ASSUME TypeOK, NEW w \in Workers, NEW label \in {"loop", "recheck", "rechecking", "adopt", "block"},
         pc' = [pc EXCEPT ![w] = label], answer'[w] = "none", runState' # "none"
  PROVE  Hand(w)'
BY DEF TypeOK, Hand

\* Only its own steps change what a worker has in hand.
OnlyMoves(w) == \A v \in Workers \ {w} : UNCHANGED <<pc[v], cur[v], answer[v]>>

LEMMA HandsOfOthers ==
  ASSUME IInv, RemoteGrows, NEW w \in Workers, OnlyMoves(w), Hand(w)'
  PROVE  HandsAreTrue'
<1>1. \A v \in Workers \ {w} : Hand(v)'  BY HandKept DEF OnlyMoves
<1>2. QED  BY <1>1 DEF HandsAreTrue, Hand

LEMMA HandsUnchanged ==
  ASSUME IInv, RemoteGrows, UNCHANGED <<pc, cur, answer>>
  PROVE  HandsAreTrue'
<1>1. \A v \in Workers : Hand(v)'  BY HandKept
<1>2. QED  BY <1>1 DEF HandsAreTrue, Hand

LEMMA HandsStep ==
  ASSUME IInv, [Next]_vars
  PROVE  HandsAreTrue'
<1>0. RemoteGrows /\ TypeOK  BY Growth DEF IInv
<1>1. ASSUME NEW w \in Workers, OnlyMoves(w), Hand(w)' PROVE HandsAreTrue'
  BY <1>0, <1>1, HandsOfOthers
<1>2. ASSUME NEW w \in Workers, Call(w) PROVE HandsAreTrue'
  <2>1. CASE \E new \in Intents : Edit(w, new)
    BY <1>0, <2>1, HandsUnchanged DEF Edit, workerVars
  <2>2. ASSUME NEW v \in Verdicts, PreflightStart(w, v) PROVE HandsAreTrue'
    <3>1. OnlyMoves(w)  BY <1>0, <2>2 DEF PreflightStart, Goto, OnlyMoves, TypeOK
    <3>2. Hand(w)'  BY <1>0, <2>2 DEF PreflightStart, Goto, Hand, TypeOK, IInv, HandsAreTrue
    <3>3. QED  BY <1>1, <3>1, <3>2
  <2>3. CASE PreflightFinish(w)
    <3>1. OnlyMoves(w)  BY <1>0, <2>3 DEF PreflightFinish, Goto, Forget, OnlyMoves, TypeOK
    <3>2. Hand(w)'  BY <1>0, <2>3, HandLeft DEF PreflightFinish, Goto
    <3>3. QED  BY <1>1, <3>1, <3>2
  <2>4. CASE PublishClaim(w)
    <3>1. OnlyMoves(w)  BY <1>0, <2>4 DEF PublishClaim, OnlyMoves, TypeOK
    <3>2. answer'[w] = "none" /\ runState' # "none"
      BY <2>4 DEF PublishClaim, IInv, HandsAreTrue
    <3>3. Hand(w)'  BY <1>0, <2>4, <3>2, HandForgotten DEF PublishClaim
    <3>4. QED  BY <1>1, <3>1, <3>3
  <2>5. CASE Resume(w)
    <3>1. OnlyMoves(w)  BY <1>0, <2>5 DEF Resume, OnlyMoves, TypeOK
    <3>2. UNCHANGED <<runState, attempts, made, barred>> /\ runState # "none" /\ answer[w] = "none"
      BY <2>5 DEF Resume, durable, runVars, remoteVars, IInv, HandsAreTrue
    <3>3. CASE Unresolved = {} /\ pc' = [pc EXCEPT ![w] = Continue] /\ UNCHANGED <<cur, answer>>
      <4>1. Continue \in {"loop", "recheck"}  BY DEF Continue
      <4>2. answer'[w] = "none" /\ runState' # "none"  BY <3>2, <3>3
      <4>3. Hand(w)'  BY <1>0, <3>3, <4>1, <4>2, HandForgotten
      <4>4. QED  BY <1>1, <3>1, <4>3
    <3>4. ASSUME NEW i \in Unresolved,
                 cur' = [cur EXCEPT ![w] = i],
                 pc' = [pc EXCEPT ![w] = IF i \in lateFacts THEN "settle" ELSE "asking"],
                 answer' = [answer EXCEPT ![w] = IF i \in lateFacts THEN "applied" ELSE @]
          PROVE  Hand(w)'
      <4>1. i \in DOMAIN attempts /\ (i \in lateFacts => KeyMade(i))
        BY <3>4 DEF Unresolved, IInv, RemoteIsKnown
      <4>2. /\ cur'[w] = i
            /\ pc'[w] = IF i \in lateFacts THEN "settle" ELSE "asking"
            /\ answer'[w] = IF i \in lateFacts THEN "applied" ELSE "none"
        BY <1>0, <3>2, <3>4 DEF TypeOK
      <4>3. KeyMade(i) => KeyMade(cur[w])'  BY <3>2, <4>2 DEF KeyMade, SameRequest
      <4>4. QED  BY <3>2, <4>1, <4>2, <4>3 DEF Hand
    <3>5. QED  BY <1>1, <2>5, <3>1, <3>3, <3>4 DEF Resume
  <2>6. QED  BY <1>2, <2>1, <2>2, <2>3, <2>4, <2>5 DEF Call
<1>3. ASSUME NEW w \in Workers, Dispatch(w) PROVE HandsAreTrue'
  <2>1. CASE Record(w)
    <3>1. OnlyMoves(w)  BY <1>0, <2>1 DEF Record, Goto, OnlyMoves, TypeOK
    <3>2. PICK s \in Steps : AfterRecord(s)  BY <2>1, RecordAppends
    <3>3. /\ cur'[w] = Len(attempts) + 1 /\ pc'[w] = "send" /\ answer'[w] = "none"
          /\ runState' # "none"
      BY <1>0, <2>1 DEF Record, Goto, TypeOK, IInv, HandsAreTrue
    <3>4. Hand(w)'  BY <3>2, <3>3 DEF Hand, AfterRecord
    <3>5. QED  BY <1>1, <3>1, <3>4
  <2>2. CASE Send(w)
    <3>1. OnlyMoves(w)  BY <1>0, <2>2 DEF Send, Goto, OnlyMoves, TypeOK
    <3>2. Hand(w)'
      BY <1>0, <2>2 DEF Send, Goto, Hand, TypeOK, IInv, HandsAreTrue, durable, runVars
    <3>3. QED  BY <1>1, <3>1, <3>2
  <2>3. CASE SkipSend(w)
    <3>1. OnlyMoves(w)  BY <1>0, <2>3 DEF SkipSend, Goto, OnlyMoves, TypeOK
    <3>2. Hand(w)'
      BY <1>0, <2>3 DEF SkipSend, Goto, Hand, TypeOK, IInv, HandsAreTrue, durable, runVars
    <3>3. QED  BY <1>1, <3>1, <3>2
  <2>4. ASSUME NEW a \in {"applied", "refused", "unknown"}, ApplyReturns(w, a) \/ ReconcileReturns(w, a)
        PROVE  HandsAreTrue'
    <3>1. OnlyMoves(w)
      BY <1>0, <2>4 DEF ApplyReturns, ReconcileReturns, Answer, Goto, OnlyMoves, TypeOK
    <3>2. /\ pc'[w] \in {"commit", "settle"} /\ cur'[w] = cur[w] /\ answer'[w] = a
          /\ cur[w] \in DOMAIN attempts /\ UNCHANGED <<attempts, made, runState>>
          /\ runState # "none"
      BY <1>0, <2>4 DEF ApplyReturns, ReconcileReturns, Answer, Goto, TypeOK, IInv, HandsAreTrue,
         durable, runVars
    <3>3. Answer(w, a)  BY <2>4 DEF ApplyReturns, ReconcileReturns
    <3>4. (a = "applied" => KeyMade(cur[w])) /\ (a = "refused" => cur[w] \in barred')
      BY <3>3 DEF Answer
    <3>5. KeyMade(cur[w]) => KeyMade(cur[w])'  BY <3>2 DEF KeyMade, SameRequest
    <3>6. Hand(w)'  BY <3>2, <3>4, <3>5 DEF Hand
    <3>7. QED  BY <1>1, <3>1, <3>6
  <2>5. CASE Commit(w)
    <3>1. CASE CommitApplied(w)
      <4>1. OnlyMoves(w)  BY <1>0, <3>1 DEF CommitApplied, Goto, Forget, OnlyMoves, TypeOK
      <4>2. answer'[w] = "none" /\ runState' # "none"
        BY <1>0, <3>1 DEF CommitApplied, Forget, TypeOK
      <4>3. Hand(w)'
        BY <1>0, <3>1, <4>2, HandForgotten DEF CommitApplied, Goto, Continue
      <4>4. QED  BY <1>1, <4>1, <4>3
    <3>2. CASE CommitUnknown(w)
      <4>1. OnlyMoves(w)  BY <1>0, <3>2 DEF CommitUnknown, Leave, Forget, OnlyMoves, TypeOK
      <4>2. Hand(w)'  BY <1>0, <3>2, HandLeft DEF CommitUnknown, Leave
      <4>3. QED  BY <1>1, <4>1, <4>2
    <3>3. CASE CommitRefused(w)
      <4>1. OnlyMoves(w)  BY <1>0, <3>3 DEF CommitRefused, Leave, Goto, Forget, OnlyMoves, TypeOK
      <4>2. answer'[w] = "none" /\ runState' # "none"
        BY <1>0, <3>3 DEF CommitRefused, Leave, Forget, TypeOK
      <4>3. Hand(w)'
        BY <1>0, <3>3, <4>2, HandForgotten, HandLeft DEF CommitRefused, Leave, Goto, Continue
      <4>4. QED  BY <1>1, <4>1, <4>3
    <3>4. QED  BY <2>5, <3>1, <3>2, <3>3 DEF Commit
  <2>6. CASE CommitFails(w) \/ DispatchThrows(w) \/ Finish(w)
    <3>1. Leave(w)  BY <2>6 DEF CommitFails, DispatchThrows, Finish, Interrupted
    <3>2. OnlyMoves(w)  BY <1>0, <3>1 DEF Leave, Forget, OnlyMoves, TypeOK
    <3>3. Hand(w)'  BY <1>0, <3>1, HandLeft DEF Leave
    <3>4. QED  BY <1>1, <3>2, <3>3
  <2>7. QED  BY <1>3, <2>1, <2>2, <2>3, <2>4, <2>5, <2>6 DEF Dispatch
<1>4. ASSUME NEW w \in Workers, Repair(w) PROVE HandsAreTrue'
  <2>1. ASSUME NEW v \in Verdicts, RecheckStart(w, v) PROVE HandsAreTrue'
    <3>1. OnlyMoves(w)  BY <1>0, <2>1 DEF RecheckStart, Goto, OnlyMoves, TypeOK
    <3>2. answer'[w] = "none" /\ runState' # "none"
      BY <2>1 DEF RecheckStart, IInv, HandsAreTrue, runVars
    <3>3. Hand(w)'  BY <1>0, <2>1, <3>2, HandForgotten DEF RecheckStart, Goto
    <3>4. QED  BY <1>1, <3>1, <3>3
  <2>2. CASE RecheckFinish(w)
    <3>1. OnlyMoves(w)  BY <1>0, <2>2 DEF RecheckFinish, Goto, OnlyMoves, TypeOK
    <3>2. answer'[w] = "none" /\ runState' # "none"
      BY <2>2 DEF RecheckFinish, IInv, HandsAreTrue, runVars
    <3>3. Hand(w)'  BY <1>0, <2>2, <3>2, HandForgotten DEF RecheckFinish, Goto
    <3>4. QED  BY <1>1, <3>1, <3>3
  <2>3. CASE AdoptRepair(w)
    <3>1. OnlyMoves(w)  BY <1>0, <2>3 DEF AdoptRepair, Goto, Forget, OnlyMoves, TypeOK
    <3>2. answer'[w] = "none" /\ runState' # "none"
      BY <1>0, <2>3 DEF AdoptRepair, Forget, TypeOK
    <3>3. Hand(w)'  BY <1>0, <2>3, <3>2, HandForgotten DEF AdoptRepair, Goto
    <3>4. QED  BY <1>1, <3>1, <3>3
  <2>4. CASE Block(w) \/ ResumeThrows(w)
    <3>1. Leave(w)  BY <2>4 DEF Block, ResumeThrows
    <3>2. OnlyMoves(w)  BY <1>0, <3>1 DEF Leave, Forget, OnlyMoves, TypeOK
    <3>3. Hand(w)'  BY <1>0, <3>1, HandLeft DEF Leave
    <3>4. QED  BY <1>1, <3>2, <3>3
  <2>5. QED  BY <1>4, <2>1, <2>2, <2>3, <2>4 DEF Repair
<1>5. ASSUME NEW w \in Workers, Crash(w) PROVE HandsAreTrue'
  <2>1. OnlyMoves(w)  BY <1>0, <1>5 DEF Crash, Goto, Forget, OnlyMoves, TypeOK
  <2>2. Hand(w)'  BY <1>0, <1>5, HandLeft DEF Crash, Goto
  <2>3. QED  BY <1>1, <2>1, <2>2
<1>6. CASE Expire \/ UNCHANGED vars \/ \E i \in DOMAIN attempts : Execute(i)
  BY <1>0, <1>6, HandsUnchanged DEF Expire, Execute, vars, workerVars
<1>7. QED
  BY <1>2, <1>3, <1>4, <1>5, <1>6 DEF Next

-------------------------------------------------------------------------------
(* The lease *)

Repairing == {"recheck", "rechecking", "adopt", "block"}

\* Nobody repairs a run with an unresolved request, and nobody holds the lease
\* of a published run as far as the run is concerned.
LEMMA LeaseStep ==
  ASSUME IInv, [Next]_vars
  PROVE  LeaseProtects'
<1>0. /\ TypeOK /\ pc \in [Workers -> PCs] /\ NoWorker \notin Workers
      /\ \A v \in Workers : holder = v /\ pc[v] \in Repairing => Unresolved = {}
      /\ runState = "published" => holder = NoWorker /\ Applied = Steps
  BY RunAssumption DEF IInv, TypeOK, LeaseProtects, Repairing
<1>1. ASSUME UNCHANGED <<attempts, holder, runState, stepStatus>>,
             \A v \in Workers : holder = v /\ pc'[v] \in Repairing => pc[v] \in Repairing
      PROVE  LeaseProtects'
  BY <1>0, <1>1 DEF LeaseProtects, Repairing, Unresolved, Open, Applied
<1>2. ASSUME NEW w \in Workers, Leave(w), UNCHANGED <<attempts, stepStatus>>,
             runState' = "published" => \/ runState = "published"
                                        \/ holder = w /\ Applied = Steps
      PROVE  LeaseProtects'
  <2>1. /\ pc' = [pc EXCEPT ![w] = "idle"]
        /\ holder' = IF holder = w THEN NoWorker ELSE holder
    BY <1>2 DEF Leave
  <2>2. \A v \in Workers : holder' = v => v # w /\ holder = v /\ pc'[v] = pc[v]
    BY <1>0, <2>1
  <2>3. Unresolved' = Unresolved /\ Applied' = Applied
    BY <1>2 DEF Unresolved, Open, Applied
  <2>4. runState' = "published" => holder' = NoWorker /\ Applied' = Steps
    BY <1>0, <1>2, <2>1, <2>3
  <2>5. QED  BY <1>0, <2>2, <2>3, <2>4 DEF LeaseProtects, Repairing
<1>3. ASSUME NEW w \in Workers, Call(w) PROVE LeaseProtects'
  <2>1. CASE \E new \in Intents : Edit(w, new)
    BY <1>1, <2>1 DEF Edit, runVars, stepVars, workerVars
  <2>2. CASE \E v \in Verdicts : PreflightStart(w, v)
    BY <1>0, <1>1, <2>2 DEF PreflightStart, Goto, runVars, stepVars, Repairing
  <2>3. CASE PreflightFinish(w)
    BY <1>0, <1>1, <2>3 DEF PreflightFinish, Goto, runVars, stepVars, Repairing
  <2>4. CASE PublishClaim(w)
    BY <1>0, <2>4 DEF PublishClaim, LeaseProtects, Repairing
  <2>5. CASE Resume(w)
    <3>1. holder' = w /\ runState' # "published" /\ UNCHANGED attempts
      BY <2>5 DEF Resume, durable, runVars
    <3>2. pc'[w] \in Repairing => Unresolved = {}
      BY <1>0, <2>5 DEF Resume, Repairing
    <3>3. QED  BY <1>0, <3>1, <3>2 DEF LeaseProtects, Repairing, Unresolved, Open
  <2>6. QED  BY <1>3, <2>1, <2>2, <2>3, <2>4, <2>5 DEF Call
<1>4. ASSUME NEW w \in Workers, Dispatch(w) PROVE LeaseProtects'
  <2>1. CASE Record(w)
    BY <1>0, <2>1 DEF Record, Goto, LeaseProtects
  <2>2. CASE Send(w)
    BY <1>0, <1>1, <2>2 DEF Send, Goto, durable, runVars, stepVars, Repairing
  <2>3. CASE SkipSend(w)
    BY <1>0, <1>1, <2>3 DEF SkipSend, Goto, durable, runVars, stepVars, Repairing
  <2>4. ASSUME NEW a \in {"applied", "refused", "unknown"}, ApplyReturns(w, a) \/ ReconcileReturns(w, a)
        PROVE  LeaseProtects'
    BY <1>0, <1>1, <2>4 DEF ApplyReturns, ReconcileReturns, Goto, durable, runVars, stepVars, Repairing
  <2>5. CASE Commit(w)
    <3> DEFINE i == cur[w]
    <3>1. i \in DOMAIN attempts /\ i = Len(attempts) /\ holder = w
      BY <2>5, InHand DEF Commit
    <3>2. runState' # "published" /\ holder' \in {w, NoWorker}
      BY <2>5, <3>1 DEF Commit, CommitApplied, CommitUnknown, CommitRefused, Leave, Goto
    <3>3. CASE CommitUnknown(w)
      BY <1>0, <3>1, <3>2, <3>3 DEF CommitUnknown, Leave, LeaseProtects
    <3>4. CASE CommitApplied(w) \/ CommitRefused(w)
      <4>1. PICK st \in {"applied", "no_effect"} : attempts' = [attempts EXCEPT ![i].status = st]
        BY <3>4 DEF CommitApplied, CommitRefused
      <4>2. AfterCommit(i, st)
        BY <1>0, <3>1, <4>1, CommitSettles DEF AttemptStates
      <4>3. \A j \in DOMAIN attempts : Open(j) => j = i
        BY <3>1 DEF IInv, OneRequestOpen
      <4>4. Unresolved' = {}
        BY <4>2, <4>3 DEF Unresolved, Open, AfterCommit
      <4>5. QED  BY <3>2, <4>4 DEF LeaseProtects
    <3>5. QED  BY <2>5, <3>3, <3>4 DEF Commit
  <2>6. CASE CommitFails(w) \/ DispatchThrows(w)
    <3>1. Interrupted(w)  BY <2>6 DEF CommitFails, DispatchThrows
    <3>2. /\ Leave(w) /\ UNCHANGED <<attempts, stepStatus>>
          /\ runState' = "published" => runState = "published"
      BY <3>1 DEF Interrupted, stepVars
    <3>3. QED  BY <1>2, <3>2
  <2>7. CASE Finish(w)
    BY <1>2, <2>7 DEF Finish, stepVars
  <2>8. QED  BY <1>4, <2>1, <2>2, <2>3, <2>4, <2>5, <2>6, <2>7 DEF Dispatch
<1>5. ASSUME NEW w \in Workers, Repair(w) PROVE LeaseProtects'
  <2>1. CASE \E v \in Verdicts : RecheckStart(w, v)
    BY <1>0, <1>1, <2>1 DEF RecheckStart, Goto, runVars, stepVars, Repairing
  <2>2. CASE RecheckFinish(w)
    BY <1>0, <1>1, <2>2 DEF RecheckFinish, Goto, runVars, stepVars, Repairing
  <2>3. CASE Block(w)
    BY <1>2, <2>3 DEF Block, stepVars
  <2>4. CASE ResumeThrows(w)
    BY <1>2, <2>4 DEF ResumeThrows, durable, runVars, stepVars
  <2>5. CASE AdoptRepair(w)
    BY <1>0, <2>5 DEF AdoptRepair, Goto, LeaseProtects
  <2>6. QED  BY <1>5, <2>1, <2>2, <2>3, <2>4, <2>5 DEF Repair
<1>6. ASSUME NEW w \in Workers, Crash(w) PROVE LeaseProtects'
  BY <1>0, <1>1, <1>6 DEF Crash, Goto, durable, runVars, stepVars, Repairing
<1>7. CASE Expire
  BY <1>0, <1>7 DEF Expire, LeaseProtects, durable, runVars, stepVars, Applied
<1>8. CASE UNCHANGED vars \/ \E i \in DOMAIN attempts : Execute(i)
  BY <1>1, <1>8 DEF Execute, vars, durable, runVars, stepVars, workerVars
<1>9. QED
  BY <1>3, <1>4, <1>5, <1>6, <1>7, <1>8 DEF Next

-------------------------------------------------------------------------------
(* Versions and rules *)

\* A round starts from what the Draft is, and passes only what is acceptable.
LEMMA RoundStarts ==
  ASSUME IInv, NEW w \in Workers, NEW v \in Verdicts, StartRound(w, v), UNCHANGED <<version, intent>>
  PROVE  Fresh(check)' /\ \A u \in Workers : Fresh(round[u])'
<1>1. Fresh(NoCheck)'  BY DEF Fresh
<1>2. version \in Nat  BY DEF IInv, TypeOK
<1>3. ASSUME NEW u \in Workers PROVE Fresh(round[u])'
  <2>1. CASE u # w  BY <1>1, <2>1 DEF StartRound
  <2>2. CASE u = w
    <3>1. round'[u] = [status |-> v, version |-> version,
                       revision |-> resourceRevision, intent |-> intent]
      BY <2>2 DEF StartRound
    <3>2. v = "passed" => \A s \in Steps : intent[s] \notin Rejected
      BY DEF StartRound, Acceptable
    <3>3. QED  BY <1>2, <3>1, <3>2 DEF Fresh
  <2>3. QED  BY <2>1, <2>2
<1>4. check' = NoCheck  BY DEF StartRound
<1>5. QED  BY <1>1, <1>3, <1>4

\* A worker that forgets drops its round; the other rounds stay.
LEMMA RoundForgotten ==
  ASSUME IInv, NEW w \in Workers, Forget(w), UNCHANGED <<version, intent>>
  PROVE  \A u \in Workers : Fresh(round[u])'
BY DEF Forget, Fresh, IInv, TypeOK, ArtifactsAreFresh

\* The steps that neither store an artifact nor change the Draft.
LEMMA ArtifactsKept ==
  ASSUME IInv, UNCHANGED <<version, intent, check, runVersion, runIntent>>,
         runState # "none" \/ UNCHANGED runState,
         UNCHANGED round \/ \E w \in Workers : Forget(w)
  PROVE  ArtifactsAreFresh'
<1>1. \A u \in Workers : Fresh(round[u])'
  BY RoundForgotten DEF Fresh, IInv, ArtifactsAreFresh
<1>2. QED  BY <1>1 DEF IInv, ArtifactsAreFresh, Fresh

LEMMA ArtifactsStep ==
  ASSUME IInv, [Next]_vars
  PROVE  ArtifactsAreFresh'
<1>0. /\ TypeOK /\ version \in Nat /\ runVersion \in Nat /\ runVersion <= version
      /\ Fresh(check) /\ \A u \in Workers : Fresh(round[u])
      /\ check = NoCheck \/ (check \in Check /\ check # NoCheck)
      /\ \A u \in Workers : round[u] = NoCheck \/ (round[u] \in Check /\ round[u] # NoCheck)
  BY DEF IInv, TypeOK, ArtifactsAreFresh, Check, NoCheck
<1>1. ASSUME NEW w \in Workers, Call(w) PROVE ArtifactsAreFresh'
  <2>1. ASSUME NEW new \in Intents, Edit(w, new) PROVE ArtifactsAreFresh'
    <3>1. /\ version' = version + 1 /\ check' = NoCheck
          /\ UNCHANGED <<round, runVersion, runIntent, runState>>
      BY <2>1 DEF Edit, runVars, workerVars
    <3>2. ASSUME NEW u \in Workers PROVE Fresh(round[u])'
      <4>1. round[u] # NoCheck => round[u].version \in Nat /\ round[u].version <= version
        BY <1>0 DEF Fresh, Check
      <4>2. QED  BY <1>0, <3>1, <4>1 DEF Fresh
    <3>3. QED  BY <1>0, <3>1, <3>2 DEF IInv, ArtifactsAreFresh, Fresh
  <2>2. ASSUME NEW v \in Verdicts, PreflightStart(w, v) PROVE ArtifactsAreFresh'
    <3>1. StartRound(w, v) /\ UNCHANGED <<version, intent, runVersion, runIntent, runState>>
      BY <2>2 DEF PreflightStart, draftVars, runVars
    <3>2. QED  BY <3>1, RoundStarts DEF IInv, ArtifactsAreFresh
  <2>3. CASE PreflightFinish(w)
    <3>1. /\ check' \in {check, round[w], NoCheck}
          /\ Forget(w) /\ UNCHANGED <<version, intent, runVersion, runIntent, runState>>
      BY <2>3 DEF PreflightFinish, Granted, draftVars, runVars
    <3>2. Fresh(check)'  BY <1>0, <3>1 DEF Fresh
    <3>3. QED  BY <3>1, <3>2, RoundForgotten DEF IInv, ArtifactsAreFresh
  <2>4. CASE PublishClaim(w)
    <3>1. /\ UNCHANGED <<version, intent, check, round>>
          /\ runVersion' = version /\ runIntent' = check.intent
          /\ check.status = "passed" /\ check.intent = intent
      BY <2>4 DEF PublishClaim, Certified, draftVars
    <3>2. \A s \in Steps : check.intent[s] \notin Rejected
      BY <1>0, <3>1 DEF Fresh, NoCheck
    <3>3. QED  BY <1>0, <3>1, <3>2 DEF ArtifactsAreFresh, Fresh
  <2>5. CASE Resume(w)
    BY <2>5, ArtifactsKept DEF Resume, durable, draftVars, runVars
  <2>6. QED  BY <1>1, <2>1, <2>2, <2>3, <2>4, <2>5 DEF Call
<1>2. ASSUME NEW w \in Workers, Dispatch(w) PROVE ArtifactsAreFresh'
  <2>1. UNCHANGED <<version, intent, check, runVersion, runIntent>>
    BY <1>2 DEF Dispatch, Record, Send, SkipSend, ApplyReturns, ReconcileReturns, Commit, CommitFails,
       DispatchThrows, Interrupted, Finish, durable, draftVars, runVars
  <2>2. UNCHANGED round \/ Forget(w)
    BY <1>2 DEF Dispatch, Record, Send, SkipSend, ApplyReturns, ReconcileReturns, Commit, CommitApplied,
       CommitUnknown, CommitRefused, CommitFails, DispatchThrows, Interrupted, Finish, Leave
  <2>3. runState # "none"
    BY <1>2 DEF Dispatch, Record, Send, SkipSend, ApplyReturns, ReconcileReturns, Commit, CommitFails,
       DispatchThrows, Finish, IInv, HandsAreTrue
  <2>4. QED  BY <2>1, <2>2, <2>3, ArtifactsKept
<1>3. ASSUME NEW w \in Workers, Repair(w) PROVE ArtifactsAreFresh'
  <2>1. ASSUME NEW v \in Verdicts, RecheckStart(w, v) PROVE ArtifactsAreFresh'
    <3>1. StartRound(w, v) /\ UNCHANGED <<version, intent, runVersion, runIntent, runState>>
      BY <2>1 DEF RecheckStart, draftVars, runVars
    <3>2. QED  BY <3>1, RoundStarts DEF IInv, ArtifactsAreFresh
  <2>2. CASE RecheckFinish(w)
    <3>1. /\ check' \in {round[w], NoCheck}
          /\ UNCHANGED <<version, intent, runVersion, runIntent, runState, round>>
      BY <2>2 DEF RecheckFinish, Granted, draftVars, runVars
    <3>2. QED  BY <1>0, <3>1 DEF IInv, ArtifactsAreFresh, Fresh
  <2>3. CASE AdoptRepair(w)
    <3>1. /\ UNCHANGED <<version, intent, check>> /\ Forget(w)
          /\ runVersion' = version /\ runIntent' = check.intent
          /\ check.status = "passed" /\ check.version = version
      BY <2>3 DEF AdoptRepair, draftVars
    <3>2. check.intent = intent /\ \A s \in Steps : check.intent[s] \notin Rejected
      BY <1>0, <3>1 DEF Fresh, NoCheck
    <3>3. QED  BY <1>0, <3>1, <3>2, RoundForgotten DEF ArtifactsAreFresh, Fresh
  <2>4. CASE Block(w) \/ ResumeThrows(w)
    <3>1. /\ UNCHANGED <<version, intent, check, runVersion, runIntent>> /\ Forget(w)
          /\ runState # "none"
      BY <2>4 DEF Block, ResumeThrows, Leave, durable, draftVars, runVars, IInv, HandsAreTrue
    <3>2. QED  BY <3>1, ArtifactsKept
  <2>5. QED  BY <1>3, <2>1, <2>2, <2>3, <2>4 DEF Repair
<1>4. ASSUME NEW w \in Workers, Crash(w) PROVE ArtifactsAreFresh'
  BY <1>4, ArtifactsKept DEF Crash, durable, draftVars, runVars
<1>5. CASE Expire \/ UNCHANGED vars \/ \E i \in DOMAIN attempts : Execute(i)
  BY <1>5, ArtifactsKept DEF Expire, Execute, vars, durable, draftVars, runVars, workerVars
<1>6. QED  BY <1>1, <1>2, <1>3, <1>4, <1>5 DEF Next

\* What a step may do to the history: nothing, settle an attempt, or record one.
LEMMA HistoryMoves ==
  ASSUME IInv, [Next]_vars
  PROVE  \/ UNCHANGED attempts
         \/ \E i \in DOMAIN attempts, st \in AttemptStates : Open(i) /\ AfterCommit(i, st)
         \/ runState # "none" /\ \E s \in Steps : AfterRecord(s)
<1>1. ASSUME NEW w \in Workers, Record(w)
      PROVE  runState # "none" /\ \E s \in Steps : AfterRecord(s)
  <2>1. runState # "none"  BY <1>1 DEF Record, IInv, HandsAreTrue
  <2>2. QED  BY <1>1, <2>1, RecordAppends
<1>2. ASSUME NEW w \in Workers, Commit(w)
      PROVE  \E i \in DOMAIN attempts, st \in AttemptStates : Open(i) /\ AfterCommit(i, st)
  <2>1. cur[w] \in DOMAIN attempts /\ Open(cur[w])  BY <1>2, InHand
  <2>2. PICK st \in AttemptStates : attempts' = [attempts EXCEPT ![cur[w]].status = st]
    BY <1>2 DEF Commit, CommitApplied, CommitUnknown, CommitRefused, AttemptStates
  <2>3. AfterCommit(cur[w], st)  BY <2>1, <2>2, CommitSettles DEF IInv
  <2>4. QED  BY <2>1, <2>3
<1>3. ASSUME NEW w \in Workers, Dispatch(w), ~Record(w), ~Commit(w) PROVE UNCHANGED attempts
  BY <1>3 DEF Dispatch, Send, SkipSend, ApplyReturns, ReconcileReturns, CommitFails,
     DispatchThrows, Interrupted, Finish, durable
<1>4. ASSUME NEW w \in Workers, Call(w) \/ Repair(w) \/ Crash(w) PROVE UNCHANGED attempts
  BY <1>4 DEF Call, Edit, PreflightStart, PreflightFinish, PublishClaim, Resume,
     Repair, RecheckStart, RecheckFinish, Block, AdoptRepair, ResumeThrows, Crash, durable
<1>5. CASE Expire \/ UNCHANGED vars \/ \E i \in DOMAIN attempts : Execute(i)
  BY <1>5 DEF Expire, Execute, vars, durable
<1>6. QED  BY <1>1, <1>2, <1>3, <1>4, <1>5 DEF Next

\* What is sent is what the adopted artifact asks for.
LEMMA InputStep ==
  ASSUME IInv, [Next]_vars
  PROVE  OnlyCheckedInputIsSent'
<1>1. CASE UNCHANGED attempts
  BY <1>1 DEF IInv, OnlyCheckedInputIsSent, Input
<1>2. CASE \E i \in DOMAIN attempts, st \in AttemptStates : AfterCommit(i, st)
  BY <1>2 DEF IInv, OnlyCheckedInputIsSent, AfterCommit, Input
<1>3. ASSUME runState # "none", NEW s \in Steps, AfterRecord(s) PROVE OnlyCheckedInputIsSent'
  <2>1. runIntent[s] \notin Rejected  BY <1>3 DEF IInv, ArtifactsAreFresh
  <2>2. QED  BY <1>3, <2>1 DEF IInv, OnlyCheckedInputIsSent, AfterRecord, Input
<1>4. QED  BY <1>1, <1>2, <1>3, HistoryMoves

\* A new request under a key already used repeats the request of that key.
LEMMA KeyStep ==
  ASSUME IInv, [Next]_vars, KeyIdentifiesRequest
  PROVE  KeyIdentifiesRequest'
<1>1. CASE UNCHANGED attempts
  BY <1>1 DEF KeyIdentifiesRequest, SameRequest, Input
<1>2. CASE \E i \in DOMAIN attempts, st \in AttemptStates : AfterCommit(i, st)
  BY <1>2 DEF KeyIdentifiesRequest, SameRequest, AfterCommit, Input
<1>3. ASSUME NEW s \in Steps, AfterRecord(s) PROVE KeyIdentifiesRequest'
  <2> DEFINE n == Len(attempts) + 1
  <2>1. \A i \in DOMAIN attempts :
          attempts[i].step = s /\ attempts[i].key = stepKey[s] => attempts[i].input = runIntent[s]
    BY DEF IInv, KeysAreCurrent, Input
  <2> DEFINE Same(i, j) == attempts'[i].step = attempts'[j].step /\ attempts'[i].key = attempts'[j].key
  <2>2. \A i \in DOMAIN attempts : Same(i, n) => attempts'[i].input = attempts'[n].input
    BY <1>3, <2>1 DEF AfterRecord
  <2>3. \A i, j \in DOMAIN attempts : Same(i, j) => attempts'[i].input = attempts'[j].input
    BY <1>3 DEF KeyIdentifiesRequest, SameRequest, AfterRecord, Input
  <2>4. DOMAIN attempts' = DOMAIN attempts \cup {n}  BY <1>3 DEF AfterRecord
  <2>5. \A i, j \in DOMAIN attempts' : Same(i, j) => attempts'[i].input = attempts'[j].input
    BY <2>2, <2>3, <2>4
  <2>6. QED  BY <2>5 DEF KeyIdentifiesRequest, SameRequest, Input
<1>4. QED  BY <1>1, <1>2, <1>3, HistoryMoves

\* Only Finish publishes, and nothing edits or adopts after it.
LEMMA PublishedStep ==
  ASSUME IInv, [Next]_vars
  PROVE  PublishedIsCurrent'
<1>1. ASSUME UNCHANGED <<version, runVersion>>,
             runState' = "published" => runState = "published" \/ version = runVersion
      PROVE  PublishedIsCurrent'
  BY <1>1 DEF IInv, PublishedIsCurrent
<1>2. ASSUME NEW w \in Workers, Call(w) PROVE PublishedIsCurrent'
  <2>1. CASE \E new \in Intents : Edit(w, new)
    BY <2>1 DEF Edit, PublishedIsCurrent, runVars
  <2>2. CASE PublishClaim(w)
    BY <2>2 DEF PublishClaim, PublishedIsCurrent
  <2>3. CASE \/ PreflightFinish(w) \/ Resume(w)
             \/ \E v \in Verdicts : PreflightStart(w, v)
    BY <1>1, <2>3 DEF PreflightStart, PreflightFinish, Resume, durable, draftVars, runVars
  <2>4. QED  BY <1>2, <2>1, <2>2, <2>3 DEF Call
<1>3. ASSUME NEW w \in Workers, Dispatch(w) PROVE PublishedIsCurrent'
  <2>1. UNCHANGED <<version, runVersion>>
    BY <1>3 DEF Dispatch, Record, Send, SkipSend, ApplyReturns, ReconcileReturns, Commit, CommitFails,
       DispatchThrows, Interrupted, Finish, durable, draftVars, runVars
  <2>2. CASE Finish(w)
    BY <1>1, <2>1, <2>2 DEF Finish
  <2>3. CASE Commit(w)
    BY <1>1, <2>1, <2>3 DEF Commit, CommitApplied, CommitUnknown, CommitRefused
  <2>4. CASE ~Finish(w) /\ ~Commit(w)
    BY <1>1, <1>3, <2>1, <2>4 DEF Dispatch, Record, Send, SkipSend, ApplyReturns, ReconcileReturns,
       CommitFails, DispatchThrows, Interrupted, durable, runVars
  <2>5. QED  BY <2>2, <2>3, <2>4
<1>4. ASSUME NEW w \in Workers, Repair(w) PROVE PublishedIsCurrent'
  <2>1. CASE AdoptRepair(w) \/ Block(w)
    BY <2>1 DEF AdoptRepair, Block, PublishedIsCurrent
  <2>2. CASE ~AdoptRepair(w) /\ ~Block(w)
    BY <1>1, <1>4, <2>2 DEF Repair, RecheckStart, RecheckFinish, ResumeThrows, durable, draftVars, runVars
  <2>3. QED  BY <2>1, <2>2
<1>5. ASSUME NEW w \in Workers, Crash(w) PROVE PublishedIsCurrent'
  BY <1>1, <1>5 DEF Crash, durable, draftVars, runVars
<1>6. CASE Expire \/ UNCHANGED vars \/ \E i \in DOMAIN attempts : Execute(i)
  BY <1>1, <1>6 DEF Expire, Execute, vars, durable, draftVars, runVars
<1>7. QED  BY <1>2, <1>3, <1>4, <1>5, <1>6 DEF Next

-------------------------------------------------------------------------------
(* The invariant *)

LEMMA InvInit == Init => IInv
<1> SUFFICES ASSUME Init PROVE IInv
  OBVIOUS
<1>1. TypeOK  BY TypeInit
<1>2. attempts = <<>> /\ DOMAIN attempts = {}  BY DEF Init
<1>3. RunHasIntent /\ HandsAreTrue /\ LeaseProtects /\ BlockedMeansResolved /\ PublishedIsCurrent
  BY DEF Init, RunHasIntent, HandsAreTrue, LeaseProtects, BlockedMeansResolved, PublishedIsCurrent
<1>4. RemoteIsKnown  BY DEF Init, RemoteIsKnown
<1>5. OneRequestOpen /\ PlanOrder /\ OnlyCheckedInputIsSent
  BY <1>2 DEF OneRequestOpen, PlanOrder, OnlyCheckedInputIsSent
<1>6. HistoryIsTrue  BY <1>2 DEF Init, HistoryIsTrue, Applied
<1>7. KeysAreCurrent  BY <1>2 DEF Init, KeysAreCurrent
<1>8. ArtifactsAreFresh  BY DEF Init, ArtifactsAreFresh, Fresh
<1>9. QED  BY <1>1, <1>3, <1>4, <1>5, <1>6, <1>7, <1>8 DEF IInv

LEMMA InvStep == IInv /\ [Next]_vars => IInv'
<1> SUFFICES ASSUME IInv, [Next]_vars PROVE IInv'
  OBVIOUS
<1>1. TypeOK'  BY TypeStep DEF IInv
<1>2. HandsAreTrue' /\ HistoryInv' /\ LeaseProtects'  BY HandsStep, HistoryStep, LeaseStep
<1>3. ArtifactsAreFresh' /\ OnlyCheckedInputIsSent' /\ PublishedIsCurrent'
  BY ArtifactsStep, InputStep, PublishedStep
<1>4. QED  BY <1>1, <1>2, <1>3 DEF IInv, HistoryInv

\* Every reachable state of the engine, with any number of workers, satisfies IInv.
THEOREM Invariance == Spec => []IInv
BY InvInit, InvStep, PTL DEF Spec

\* A request that took effect is applied in the run, or it is the open one.
LEMMA MadeIsKnown ==
  ASSUME IInv, NEW i \in made
  PROVE  /\ i \in DOMAIN attempts /\ attempts[i].step \in Steps
         /\ attempts[i].status # "no_effect"
         /\ \/ /\ Open(i) /\ i = Len(attempts) /\ attempts[i].step \notin Applied
            \/ /\ ~Open(i) /\ binding[attempts[i].step] = i
               /\ i # 0 /\ attempts[i].step \in Applied
<1>1. i \in DOMAIN attempts /\ i \notin barred  BY DEF IInv, RemoteIsKnown
<1>2. i # 0 /\ attempts[i].step \in Steps /\ attempts[i].status \in AttemptStates
  BY <1>1, AttemptsTyped DEF IInv
<1>3. attempts[i].status # "no_effect"  BY <1>1 DEF IInv, HistoryIsTrue
<1>4. CASE Open(i)  BY <1>1, <1>2, <1>3, <1>4 DEF IInv, OneRequestOpen
<1>5. CASE ~Open(i)
  <2>1. attempts[i].status = "applied"  BY <1>2, <1>3, <1>5 DEF Open, AttemptStates
  <2>2. binding[attempts[i].step] = i  BY <1>1, <2>1 DEF IInv, HistoryIsTrue
  <2>3. attempts[i].step \in Applied  BY <1>2, <2>2 DEF IInv, HistoryIsTrue
  <2>4. QED  BY <1>1, <1>2, <1>3, <1>5, <2>2, <2>3
<1>6. QED  BY <1>4, <1>5

-------------------------------------------------------------------------------
(* Theorems *)

\* Every variable keeps its type, over all interleavings of the calls of engine.ts.
THEOREM Typing == Spec => []TypeOK
<1>1. IInv => TypeOK  BY DEF IInv
<1>2. QED  BY <1>1, Invariance, PTL

\* No node is ever created twice, whatever is lost, late, retried or repaired:
\* dispatchSteps and resume of engine.ts never have two requests of one step out.
THEOREM NoDuplicateCreation == Spec => []AtMostOneEffect
<1>1. IInv => AtMostOneEffect  BY MadeIsKnown DEF AtMostOneEffect
<1>2. QED  BY <1>1, Invariance, PTL

\* Every remote effect is bound to its node or still waits to be reconciled, so
\* none is orphaned by commitOutcome or by a repair.
THEOREM NothingIsOrphaned == Spec => []EveryEffectIsAccountedFor
<1>1. IInv => EveryEffectIsAccountedFor  BY MadeIsKnown DEF EveryEffectIsAccountedFor
<1>2. QED  BY <1>1, Invariance, PTL

\* A published Draft has every node created with what the Draft asks for.
THEOREM PublicationIsCorrect == Spec => []PublishedMatchesIntent
<1>1. ASSUME IInv, runState = "published", NEW s \in Steps
      PROVE  /\ binding[s] \in made /\ attempts[binding[s]].step = s
             /\ Input(binding[s]) = intent[s]
  <2>1. s \in Applied /\ runVersion = version
    BY <1>1 DEF IInv, LeaseProtects, PublishedIsCurrent
  <2>2. runIntent = intent  BY <1>1, <2>1 DEF IInv, ArtifactsAreFresh
  <2>3. /\ binding[s] \in DOMAIN attempts /\ attempts[binding[s]].step = s
        /\ attempts[binding[s]].status = "applied" /\ Input(binding[s]) = runIntent[s]
    BY <1>1, <2>1 DEF IInv, HistoryIsTrue
  <2>4. QED  BY <1>1, <2>2, <2>3 DEF IInv, HistoryIsTrue
<1>2. IInv => PublishedMatchesIntent  BY <1>1 DEF PublishedMatchesIntent
<1>3. QED  BY <1>2, Invariance, PTL

\* A run in state "blocked" hides no request that may still take effect.
THEOREM BlockedIsSafeToRepair == Spec => []BlockedMeansResolved
<1>1. IInv => BlockedMeansResolved  BY DEF IInv
<1>2. QED  BY <1>1, Invariance, PTL

\* An effect on a step means that the steps before it are applied.
THEOREM ParentsComeFirst == Spec => []EffectsFollowThePlan
<1>1. IInv => EffectsFollowThePlan
  BY MadeIsKnown DEF IInv, PlanOrder, EffectsFollowThePlan
<1>2. QED  BY <1>1, Invariance, PTL

\* A value some rule rejects is never sent, although rules run outside the lease.
THEOREM RulesAreNotBypassed == Spec => []OnlyCheckedInputIsSent
<1>1. IInv => OnlyCheckedInputIsSent  BY DEF IInv
<1>2. QED  BY <1>1, Invariance, PTL

\* An idempotency key never stands for two different requests: AdoptRepair gives a
\* changed payload a new key, over any number of edits and refusals.
THEOREM KeysAreNeverReused == Spec => []KeyIdentifiesRequest
<1>1. Init => KeyIdentifiesRequest  BY DEF Init, KeyIdentifiesRequest
<1>2. IInv /\ [Next]_vars /\ KeyIdentifiesRequest => KeyIdentifiesRequest'  BY KeyStep
<1>3. QED  BY <1>1, <1>2, Invariance, PTL DEF Spec

\* What validateHistory (state.ts) demands of a write holds of every step: an attempt
\* keeps its request, a resolved one its status, a binding stays, and a published
\* run is frozen.
THEOREM HistoryOnlyGrows == Spec => HistoryIsImmutable
<1> DEFINE Kept ==
      /\ Len(attempts') >= Len(attempts)
      /\ \A i \in DOMAIN attempts :
           /\ attempts'[i].step = attempts[i].step /\ attempts'[i].key = attempts[i].key
           /\ attempts'[i].input = attempts[i].input
           /\ ~Open(i) => attempts'[i].status = attempts[i].status
<1>1. ASSUME IInv, [Next]_vars PROVE Kept
  <2>1. Len(attempts) \in Nat /\ \A i \in DOMAIN attempts : attempts[i] \in Attempt
    BY <1>1, AttemptsTyped DEF IInv
  <2>2. CASE UNCHANGED attempts  BY <2>1, <2>2
  <2>3. ASSUME NEW i \in DOMAIN attempts, NEW st \in AttemptStates, Open(i), AfterCommit(i, st)
        PROVE  Kept
    BY <2>1, <2>3 DEF AfterCommit, Open
  <2>4. ASSUME NEW s \in Steps, AfterRecord(s) PROVE Kept
    BY <2>1, <2>4 DEF AfterRecord
  <2>5. QED  BY <1>1, <2>2, <2>3, <2>4, HistoryMoves
<1>2. ASSUME IInv, [Next]_vars PROVE \A s \in Steps : binding[s] # 0 => binding'[s] = binding[s]
  <2>1. ASSUME NEW w \in Workers, Commit(w)
        PROVE  \A s \in Steps : binding[s] # 0 => binding'[s] = binding[s]
    <3>1. attempts[cur[w]].step \in Steps \ Applied  BY <1>2, <2>1, InHand
    <3>2. binding[attempts[cur[w]].step] = 0  BY <1>2, <3>1 DEF IInv, HistoryIsTrue
    <3>3. binding' \in {binding, [binding EXCEPT ![attempts[cur[w]].step] = cur[w]]}
      BY <2>1 DEF Commit, CommitApplied, CommitUnknown, CommitRefused, factVars
    <3>4. QED  BY <1>2, <3>2, <3>3 DEF IInv, TypeOK
  <2>2. ASSUME NEW w \in Workers, Dispatch(w), ~Commit(w) PROVE UNCHANGED binding
    BY <2>2 DEF Dispatch, Record, Send, SkipSend, ApplyReturns, ReconcileReturns, CommitFails,
       DispatchThrows, Interrupted, Finish, durable, factVars
  <2>3. ASSUME NEW w \in Workers, Call(w) \/ Repair(w) \/ Crash(w) PROVE UNCHANGED binding
    BY <2>3 DEF Call, Edit, PreflightStart, PreflightFinish, PublishClaim, Resume,
       Repair, RecheckStart, RecheckFinish, Block, AdoptRepair, ResumeThrows, Crash, durable, factVars
  <2>4. CASE Expire \/ UNCHANGED vars \/ \E i \in DOMAIN attempts : Execute(i)
    BY <2>4 DEF Expire, Execute, vars, durable, factVars
  <2>5. QED  BY <1>2, <2>1, <2>2, <2>3, <2>4 DEF Next
<1>3. ASSUME IInv, [Next]_vars, runState = "published"
      PROVE  UNCHANGED <<runVars, stepVars, attempts, factVars, draftVars>>
  <2>1. holder = NoWorker  BY <1>3 DEF IInv, LeaseProtects
  <2>2. ASSUME NEW w \in Workers, Call(w)
        PROVE  UNCHANGED <<runVars, stepVars, attempts, factVars, draftVars>>
    BY <1>3, <2>2 DEF Call, Edit, PreflightStart, PreflightFinish, PublishClaim, Resume
  <2>3. ASSUME NEW w \in Workers, Dispatch(w) \/ Repair(w) \/ Crash(w)
        PROVE  UNCHANGED <<runVars, stepVars, attempts, factVars, draftVars>>
    <3>1. holder # w  BY <2>1, RunAssumption
    <3>2. QED
      BY <1>3, <2>3, <3>1 DEF Dispatch, Record, Send, SkipSend, ApplyReturns, ReconcileReturns, Commit,
         CommitFails, DispatchThrows, Interrupted, Finish, Repair, RecheckStart, RecheckFinish, Block,
         AdoptRepair, ResumeThrows, Crash, durable, runVars
  <2>4. CASE Expire \/ UNCHANGED vars \/ \E i \in DOMAIN attempts : Execute(i)
    BY <2>4 DEF Expire, Execute, vars, durable
  <2>5. QED  BY <1>3, <2>2, <2>3, <2>4 DEF Next
<1>4. IInv /\ [Next]_vars =>
        [/\ Len(attempts') >= Len(attempts)
         /\ \A i \in DOMAIN attempts :
              /\ attempts'[i].step = attempts[i].step /\ attempts'[i].key = attempts[i].key
              /\ attempts'[i].input = attempts[i].input
              /\ ~Open(i) => attempts'[i].status = attempts[i].status
         /\ \A s \in Steps : binding[s] # 0 => binding'[s] = binding[s]
         /\ runState = "published" => UNCHANGED <<runVars, stepVars, attempts, factVars, draftVars>>]_vars
  BY <1>1, <1>2, <1>3
<1>5. QED  BY <1>4, Invariance, PTL DEF Spec, HistoryIsImmutable
-------------------------------------------------------------------------------
(* ManagedRun implements PublishOnce, and a worker without the lease writes  *)
(* nothing: what a step does, proved from IInv.                              *)

\* What the abstract publication sees of the remote side.
Made == [s \in Steps |-> IF Effect(s) = {} THEN NoValue ELSE Input(CHOOSE i \in Effect(s) : TRUE)]

\* A node that exists has the value of the one request that made it.
LEMMA MadeBy ==
  ASSUME IInv, NEW i \in made
  PROVE  /\ attempts[i].step \in Steps
         /\ Effect(attempts[i].step) = {i}
         /\ Made[attempts[i].step] = Input(i)
<1> DEFINE s == attempts[i].step
<1>1. s \in Steps  BY MadeIsKnown
<1>2. \A j \in made : attempts[j].step = s => j = i  BY MadeIsKnown
<1>3. Effect(s) = {i}  BY <1>2 DEF Effect
<1>4. (CHOOSE j \in Effect(s) : TRUE) = i  BY <1>3
<1>5. Made[s] = Input(i)  BY <1>1, <1>3, <1>4 DEF Made
<1>6. QED  BY <1>1, <1>3, <1>5

\* Nothing else changes what the abstract publication sees but a new effect.
LEMMA MadeKept ==
  ASSUME IInv, UNCHANGED made,
         \A i \in DOMAIN attempts : /\ attempts'[i].step = attempts[i].step
                                    /\ attempts'[i].input = attempts[i].input
  PROVE  Made' = Made
<1>1. made \subseteq DOMAIN attempts  BY DEF IInv, RemoteIsKnown
<1>2. ASSUME NEW s \in Steps PROVE Effect(s)' = Effect(s)
  BY <1>1 DEF Effect
<1>3. ASSUME NEW s \in Steps, Effect(s) # {}
      PROVE  Input(CHOOSE i \in Effect(s) : TRUE)' = Input(CHOOSE i \in Effect(s) : TRUE)
  <2> DEFINE e == CHOOSE i \in Effect(s) : TRUE
  <2>1. e \in Effect(s)  BY <1>3
  <2>2. e' = e  BY <1>2
  <2>3. e \in DOMAIN attempts  BY <1>1, <2>1 DEF Effect
  <2>4. QED  BY <2>2, <2>3 DEF Input
<1>4. QED  BY <1>2, <1>3 DEF Made

\* Recorded requests keep what they ask for.
LEMMA RequestsKept ==
  ASSUME IInv, [Next]_vars
  PROVE  \A i \in DOMAIN attempts : /\ attempts'[i].step = attempts[i].step
                                    /\ attempts'[i].input = attempts[i].input
BY HistoryMoves DEF AfterCommit, AfterRecord

-------------------------------------------------------------------------------
(* The steps that the abstract publication takes *)

LEMMA ClaimAdopts ==
  ASSUME IInv, NEW w \in Workers, PublishClaim(w)
  PROVE  Publication!Adopt
<1>1. made = {}
  BY DEF PublishClaim, IInv, RunHasIntent, RemoteIsKnown
<1>2. Made = [s \in Steps |-> NoValue] /\ Made' = Made
  BY <1>1 DEF Made, Effect, PublishClaim, remoteVars
<1>3. runIntent' = intent /\ intent' = intent
  BY DEF PublishClaim, Certified, draftVars
<1>4. runState # "published" /\ runState' # "published"  BY DEF PublishClaim
<1>5. QED  BY <1>2, <1>3, <1>4 DEF Publication!Adopt, Made

LEMMA RepairAdopts ==
  ASSUME IInv, [Next]_vars, NEW w \in Workers, AdoptRepair(w)
  PROVE  Publication!Adopt
<1>1. Unresolved = {} /\ runState # "none" /\ runState # "published"
  BY RunAssumption DEF AdoptRepair, IInv, LeaseProtects, HandsAreTrue
<1>2. check.intent = intent /\ runIntent' = intent /\ intent' = intent
  BY DEF AdoptRepair, IInv, ArtifactsAreFresh, Fresh, NoCheck, draftVars
<1>3. ASSUME NEW n \in Steps PROVE Made[n] \in {NoValue, intent[n]}
  <2>1. CASE Effect(n) = {}  BY <2>1 DEF Made
  <2>2. CASE Effect(n) # {}
    <3>1. PICK i \in made : attempts[i].step = n  BY <2>2 DEF Effect
    <3>2. ~Open(i) /\ binding[n] = i /\ n \in Applied
      BY <1>1, <3>1, MadeIsKnown DEF Unresolved
    <3>3. i # 0  BY <3>1, MadeIsKnown, AttemptsTyped DEF IInv
    <3>4. Input(i) = runIntent[n]  BY <3>2, <3>3 DEF IInv, HistoryIsTrue
    <3>5. intent[n] = runIntent[n]  BY <1>1, <1>2, <3>2 DEF AdoptRepair, Protects
    <3>6. QED  BY <3>1, <3>4, <3>5, MadeBy
  <2>3. QED  BY <2>1, <2>2
<1>4. runState' # "published"  BY DEF AdoptRepair
<1>5. UNCHANGED made  BY DEF AdoptRepair, remoteVars
<1>6. Made' = Made  BY <1>5, MadeKept, RequestsKept
<1>7. QED  BY <1>1, <1>2, <1>3, <1>4, <1>6 DEF Publication!Adopt, Made

\* A request that takes effect makes a node that did not exist, as the adopted
\* intent wants it, however old the request is.
LEMMA ExecuteMakes ==
  ASSUME IInv, NEW i \in DOMAIN attempts, Execute(i)
  PROVE  \E n \in Steps : Publication!Make(n)
<1> DEFINE s == attempts[i].step
<1>1. i \notin barred /\ i \notin made
  BY DEF Execute, KeyMade, SameRequest
<1>2. attempts[i].status \in AttemptStates /\ s \in Steps  BY AttemptsTyped DEF IInv
<1>3. Open(i)  BY <1>1, <1>2 DEF IInv, HistoryIsTrue, Open, AttemptStates
<1>4. i = Len(attempts) /\ s \notin Applied  BY <1>3 DEF IInv, OneRequestOpen
<1>5. Input(i) = runIntent[s]  BY <1>3 DEF IInv, KeysAreCurrent
<1>6. runState # "none" /\ runState # "published"
  BY <1>2, <1>4 DEF IInv, RunHasIntent, LeaseProtects
<1>7. runIntent[s] \in Values /\ runIntent[s] # NoValue
  BY <1>2, <1>6, RunAssumption DEF IInv, RunHasIntent, Intents
<1>8. Effect(s) = {}  BY <1>1, <1>4, MadeIsKnown DEF Effect
<1>9. /\ Effect(s)' = {i}
      /\ \A t \in Steps \ {s} : Effect(t)' = Effect(t)
  BY <1>8 DEF Execute, Effect, durable
<1>10. Made'[s] = runIntent[s]
  <2>1. (CHOOSE j \in Effect(s)' : TRUE) = i  BY <1>9
  <2>2. attempts' = attempts /\ s' = s  BY DEF Execute, durable
  <2>3. QED  BY <1>2, <1>5, <1>9, <2>1, <2>2 DEF Made, Input, Effect
<1>11. ASSUME NEW t \in Steps \ {s} PROVE Made'[t] = Made[t]
  <2>1. Effect(t)' = Effect(t)  BY <1>9
  <2>2. (CHOOSE j \in Effect(t) : TRUE)' = (CHOOSE j \in Effect(t) : TRUE)  BY <2>1
  <2>3. attempts' = attempts  BY DEF Execute, durable
  <2>4. Input(CHOOSE j \in Effect(t) : TRUE)' = Input(CHOOSE j \in Effect(t) : TRUE)
    BY <2>2, <2>3 DEF Input
  <2>5. QED  BY <2>1, <2>4 DEF Made
<1>12. Made[s] = NoValue  BY <1>2, <1>8 DEF Made
<1>13. Made' = [Made EXCEPT ![s] = runIntent[s]]
  BY <1>2, <1>10, <1>11 DEF Made
<1>14. UNCHANGED <<intent, runIntent, runState>>
  BY DEF Execute, durable, draftVars, runVars
<1>15. Publication!Make(s)
  BY <1>2, <1>6, <1>7, <1>12, <1>13, <1>14 DEF Publication!Make, Made
<1>16. QED  BY <1>2, <1>15

LEMMA FinishPublishes ==
  ASSUME IInv, [Next]_vars, NEW w \in Workers, Finish(w)
  PROVE  Publication!Finish
<1>1. Applied = Steps /\ version = runVersion /\ runState # "published" /\ runState # "none"
  BY RunAssumption DEF Finish, IInv, LeaseProtects, HandsAreTrue
<1>2. runIntent = intent  BY <1>1 DEF IInv, ArtifactsAreFresh
<1>3. ASSUME NEW s \in Steps PROVE Made[s] = intent[s]
  <2>1. /\ binding[s] \in DOMAIN attempts /\ attempts[binding[s]].step = s
        /\ attempts[binding[s]].status = "applied" /\ Input(binding[s]) = runIntent[s]
    BY <1>1 DEF IInv, HistoryIsTrue
  <2>2. binding[s] \in made  BY <2>1 DEF IInv, HistoryIsTrue
  <2>3. QED  BY <1>2, <2>1, <2>2, MadeBy
<1>4. Made = intent  BY <1>3 DEF Made, IInv, TypeOK, Intents
<1>5. UNCHANGED made  BY DEF Finish, remoteVars
<1>6. Made' = Made  BY <1>5, MadeKept, RequestsKept
<1>7. UNCHANGED <<intent, runIntent>> /\ runState' = "published"  BY DEF Finish, draftVars
<1>8. QED  BY <1>1, <1>4, <1>6, <1>7 DEF Publication!Finish, Made

LEMMA EditEdits ==
  ASSUME IInv, [Next]_vars, NEW w \in Workers, NEW new \in Intents, Edit(w, new)
  PROVE  Publication!Edit
<1>1. UNCHANGED made  BY DEF Edit, remoteVars
<1>2. Made' = Made  BY <1>1, MadeKept, RequestsKept
<1>3. QED  BY <1>2 DEF Edit, Intents, runVars, Publication!Edit, Made

-------------------------------------------------------------------------------
(* The steps it does not see *)

Unseen == UNCHANGED <<intent, runIntent, made>> /\ (runState' = "published" <=> runState = "published")

LEMMA UnseenStep ==
  ASSUME IInv, [Next]_vars, Unseen
  PROVE  UNCHANGED Publication!vars
<1>1. Made' = Made  BY MadeKept, RequestsKept DEF Unseen
<1>2. (runState' = "published") = (runState = "published")  BY DEF Unseen
<1>3. QED  BY <1>1, <1>2 DEF Unseen, Publication!vars, Made

LEMMA DispatchIsUnseen ==
  ASSUME IInv, NEW w \in Workers, Dispatch(w), ~Finish(w)
  PROVE  Unseen
<1> USE DEF Unseen, durable, draftVars, runVars, remoteVars
<1>1. CASE Record(w)
  <2>1. runState # "published"
    BY <1>1, RunAssumption DEF Record, IInv, LeaseProtects
  <2>2. QED  BY <1>1, <2>1 DEF Record
<1>2. CASE Commit(w)
  <2>1. runState # "published"  BY <1>2, InHand
  <2>2. QED  BY <1>2, <2>1 DEF Commit, CommitApplied, CommitUnknown, CommitRefused
<1>3. CASE Send(w) \/ SkipSend(w)
  BY <1>3 DEF Send, SkipSend
<1>4. ASSUME NEW a \in {"applied", "refused", "unknown"}, ApplyReturns(w, a) \/ ReconcileReturns(w, a)
      PROVE  Unseen
  BY <1>4 DEF ApplyReturns, ReconcileReturns
<1>5. CASE CommitFails(w) \/ DispatchThrows(w)
  BY <1>5 DEF CommitFails, DispatchThrows, Interrupted
<1>6. QED  BY <1>1, <1>2, <1>3, <1>4, <1>5 DEF Dispatch

LEMMA RepairIsUnseen ==
  ASSUME IInv, NEW w \in Workers, Repair(w), ~AdoptRepair(w)
  PROVE  Unseen
<1> USE DEF Unseen, durable, draftVars, runVars, remoteVars
<1>1. CASE Block(w)
  <2>1. runState # "published"
    BY <1>1, RunAssumption DEF Block, IInv, LeaseProtects
  <2>2. QED  BY <1>1, <2>1 DEF Block
<1>2. CASE RecheckFinish(w) \/ ResumeThrows(w)
  BY <1>2 DEF RecheckFinish, ResumeThrows
<1>3. ASSUME NEW v \in Verdicts, RecheckStart(w, v) PROVE Unseen
  BY <1>3 DEF RecheckStart
<1>4. QED  BY <1>1, <1>2, <1>3 DEF Repair

-------------------------------------------------------------------------------

LEMMA StepMaps ==
  ASSUME IInv, [Next]_vars
  PROVE  [Publication!Next]_Publication!vars
<1>1. ASSUME NEW w \in Workers, Call(w) PROVE [Publication!Next]_Publication!vars
  <2>1. ASSUME NEW new \in Intents, Edit(w, new) PROVE Publication!Next
    BY <2>1, EditEdits DEF Publication!Next
  <2>2. CASE PublishClaim(w)  BY <2>2, ClaimAdopts DEF Publication!Next
  <2>3. ASSUME NEW v \in Verdicts, PreflightStart(w, v) PROVE Unseen
    BY <2>3 DEF PreflightStart, Unseen, draftVars, runVars, remoteVars
  <2>4. CASE PreflightFinish(w) \/ Resume(w)
    <3>1. Unseen
      BY <2>4 DEF PreflightFinish, Resume, Unseen, durable, draftVars, runVars, remoteVars
    <3>2. QED  BY <3>1, UnseenStep
  <2>5. QED  BY <1>1, <2>1, <2>2, <2>3, <2>4, UnseenStep DEF Call
<1>2. ASSUME NEW w \in Workers, Dispatch(w) PROVE [Publication!Next]_Publication!vars
  BY <1>2, FinishPublishes, DispatchIsUnseen, UnseenStep DEF Publication!Next
<1>3. ASSUME NEW w \in Workers, Repair(w) PROVE [Publication!Next]_Publication!vars
  BY <1>3, RepairAdopts, RepairIsUnseen, UnseenStep DEF Publication!Next
<1>4. ASSUME NEW i \in DOMAIN attempts, Execute(i) PROVE [Publication!Next]_Publication!vars
  BY <1>4, ExecuteMakes DEF Publication!Next
<1>5. ASSUME NEW w \in Workers, Crash(w) PROVE [Publication!Next]_Publication!vars
  <2>1. Unseen  BY <1>5 DEF Crash, Unseen, durable, draftVars, runVars, remoteVars
  <2>2. QED  BY <2>1, UnseenStep
<1>6. CASE Expire \/ UNCHANGED vars
  <2>1. Unseen  BY <1>6 DEF Expire, vars, Unseen, durable, draftVars, runVars, remoteVars
  <2>2. QED  BY <2>1, UnseenStep
<1>7. QED  BY <1>1, <1>2, <1>3, <1>4, <1>5, <1>6 DEF Next

\* The engine publishes once: its interleavings of calls, crashes, lost leases, late
\* effects and repairs do nothing that PublishOnce does not allow.
THEOREM ImplementsPublishOnce == Spec => PublicationSpec
<1>1. ASSUME Init PROVE Publication!Init
  <2>1. made = {}  BY <1>1 DEF Init
  <2>2. Made = [s \in Steps |-> NoValue]  BY <2>1 DEF Made, Effect
  <2>3. QED  BY <1>1, <2>2 DEF Init, Intents, Publication!Init, Made
<1>2. IInv /\ [Next]_vars => [Publication!Next]_Publication!vars  BY StepMaps
<1>3. QED  BY <1>1, <1>2, Invariance, PTL DEF Spec, PublicationSpec, Publication!Spec

-------------------------------------------------------------------------------
(* Writes and the lease *)

\* Every transaction of a worker looks at the lease: a paused worker that lost it to
\* another one changes nothing durable (transact of storage.ts, seen from engine.ts).
THEOREM LostLeaseWritesNothing == Spec => StaleWorkerNeverWrites
<1> DEFINE Moved(w) == <<pc[w], cur[w], answer[w]>>' # <<pc[w], cur[w], answer[w]>>
           Lawful == durable' # durable => \A w \in Workers : Moved(w) => holder \in {w, NoWorker}
<1>1. ASSUME TypeOK, [Next]_vars PROVE Lawful
  <2>1. ASSUME NEW w \in Workers, OnlyMoves(w), holder \in {w, NoWorker} PROVE Lawful
    BY <2>1 DEF OnlyMoves
  <2>2. ASSUME NEW w \in Workers, Call(w) PROVE Lawful
    BY <2>2 DEF Call, Edit, PreflightStart, PreflightFinish, PublishClaim, Resume
  <2>3. ASSUME NEW w \in Workers, Record(w) \/ Commit(w) \/ Finish(w) \/ RecheckFinish(w)
                                  \/ Block(w) \/ AdoptRepair(w)
        PROVE  Lawful
    <3>1. OnlyMoves(w)
      BY <1>1, <2>3 DEF OnlyMoves, TypeOK, Record, Commit, CommitApplied, CommitUnknown, CommitRefused,
         Finish, RecheckFinish, Block, AdoptRepair, Goto, Leave, Forget
    <3>2. holder = w  BY <2>3 DEF Record, Commit, Finish, RecheckFinish, Block, AdoptRepair
    <3>3. QED  BY <2>1, <3>1, <3>2
  <2>4. ASSUME NEW w \in Workers, NEW v \in Verdicts, RecheckStart(w, v) PROVE Lawful
    <3>1. OnlyMoves(w) /\ holder = w
      BY <1>1, <2>4 DEF OnlyMoves, TypeOK, RecheckStart, Goto
    <3>2. QED  BY <2>1, <3>1
  <2>5. ASSUME NEW w \in Workers, CommitFails(w) \/ DispatchThrows(w) PROVE Lawful
    <3>1. OnlyMoves(w)
      BY <1>1, <2>5 DEF OnlyMoves, TypeOK, CommitFails, DispatchThrows, Interrupted, Leave, Forget
    <3>2. CASE holder = w  BY <2>1, <3>1, <3>2
    <3>3. CASE holder # w
      <4>1. UNCHANGED durable
        BY <2>5, <3>3 DEF CommitFails, DispatchThrows, Interrupted, durable, runVars
      <4>2. QED  BY <4>1
    <3>4. QED  BY <3>2, <3>3
  <2>6. ASSUME NEW w \in Workers, Send(w) \/ SkipSend(w) \/ ResumeThrows(w) \/ Crash(w) PROVE Lawful
    BY <2>6 DEF Send, SkipSend, ResumeThrows, Crash
  <2>7. ASSUME NEW w \in Workers, NEW a \in {"applied", "refused", "unknown"},
               ApplyReturns(w, a) \/ ReconcileReturns(w, a)
        PROVE  Lawful
    BY <2>7 DEF ApplyReturns, ReconcileReturns
  <2>8. CASE Expire \/ UNCHANGED vars \/ \E i \in DOMAIN attempts : Execute(i)
    BY <2>8 DEF Expire, Execute, vars
  <2>9. QED
    BY <1>1, <2>2, <2>3, <2>4, <2>5, <2>6, <2>7, <2>8 DEF Next, Dispatch, Repair
<1>2. TypeOK /\ [Next]_vars => [Lawful]_vars  BY <1>1
<1>3. QED  BY <1>2, Typing, PTL DEF Spec, StaleWorkerNeverWrites
===============================================================================
