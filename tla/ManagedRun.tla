------------------------------ MODULE ManagedRun ------------------------------
(***************************************************************************)
(* The first publication of one Draft by the managed engine (engine.ts):   *)
(* edit, preflight, publish, the dispatch loop, resume with reconciliation *)
(* and repair, late receipts, and the remote system behind the adapter.    *)
(*                                                                         *)
(* Several workers (processes or concurrent calls) serve the same Draft.   *)
(* Each call runs under the Draft's lease; "holder" is the worker whose    *)
(* token the lease row carries while unexpired: DraftLease implements      *)
(* exactly that.  A worker that lost the lease is not told: it goes on     *)
(* until a transact refuses it or it happens to look at its abort signal.  *)
(* One action is one transaction, or one adapter call or its answer.       *)
(*                                                                         *)
(* Data: an intent gives each step (one create per node, in plan order) a  *)
(* value; an artifact or certificate is the version, the resource revision *)
(* and the intent it was made from; a step key JSON [run, step, revision]  *)
(* is its revision.  An attempt is named by its number.  Feedback, events, *)
(* the interruption notice and timestamps are left out.                    *)
(***************************************************************************)
EXTENDS Integers, Sequences

CONSTANTS Workers, NoWorker,
          N,             \* number of steps of the plan
          Values,        \* what a node may be asked to be
          Rejected,      \* the values some rule or the plan rejects
          NoValue,
          MaxVersion,    \* bound: number of edits
          MaxAttempts    \* bound: number of attempts of the run

ASSUME RunAssumption ==
  /\ NoWorker \notin Workers
  /\ N \in Nat \ {0}
  /\ Rejected \subseteq Values
  /\ NoValue \notin Values
  /\ MaxVersion \in Nat
  /\ MaxAttempts \in Nat

Steps == 1..N
Intents == [Steps -> Values]

VARIABLES
  \* the durable state of the Draft
  version, intent,      \* draft.version and the field intents
  check,                \* the stored check while it has passed, else NoCheck
  runState, runVersion, runIntent, revision,   \* the run and its artifact
  stepStatus, stepKey,  \* per step
  attempts,             \* every request ever recorded
  binding,              \* attempt that created each node, 0 while unbound
  resourceRevision,
  lateFacts,            \* attempts with a late "applied" receipt
  \* the lease and the workers
  holder, pc,
  cur,                  \* the attempt a worker has in hand
  answer,               \* the adapter outcome it is about to commit
  round,                \* the check it is computing, NoCheck once superseded
  \* the remote system
  wire,                 \* requests sent that may still take effect
  made,                 \* attempts that took effect
  barred                \* attempts the adapter has proved can never do so

draftVars  == <<version, intent>>
runVars    == <<runState, runVersion, runIntent, revision>>
stepVars   == <<stepStatus, stepKey>>
factVars   == <<binding, resourceRevision>>
durable    == <<draftVars, check, runVars, stepVars, attempts, factVars>>
workerVars == <<pc, cur, answer, round>>
remoteVars == <<wire, made, barred>>
vars == <<durable, lateFacts, holder, workerVars, remoteVars>>

-------------------------------------------------------------------------------
(* Records *)

AttemptStates == {"pending", "unknown", "applied", "no_effect"}
Attempt == [step : Steps, key : Nat, input : Values, status : AttemptStates]

\* "failed" stands for blocked and incomplete: neither makes an artifact, so
\* neither grants anything.
Check == [status : {"passed", "failed"}, version : Nat, revision : Nat, intent : Intents]
NoCheck == [status |-> "none"]

\* outcome(): what an apply or a reconcile is taken to have said.  "refused" is
\* not_applied from apply and no_effect from reconcile.
Answers == {"none", "applied", "refused", "unknown"}

PCs == {"idle", "checking",                              \* preflight outside the lease
        "loop", "send", "sent", "commit",           \* dispatchSteps
        "asking", "settle",                              \* reconcileOnly dispatch
        "recheck", "rechecking", "adopt", "block"}       \* resume after reconciliation

TypeOK ==
  /\ version \in Nat /\ intent \in Intents
  /\ check \in {c \in Check : c.status = "passed"} \cup {NoCheck}
  /\ runState \in {"none", "running", "unknown", "blocked", "published"}
  /\ runVersion \in Nat /\ revision \in Nat
  /\ runIntent \in [Steps -> Values \cup {NoValue}]
  /\ stepStatus \in [Steps -> {"ready", "dispatching", "unknown", "applied"}]
  /\ stepKey \in [Steps -> Nat]
  /\ attempts \in Seq(Attempt)
  /\ binding \in [Steps -> Nat]
  /\ resourceRevision \in Nat
  /\ lateFacts \subseteq Nat
  /\ holder \in Workers \cup {NoWorker}
  /\ pc \in [Workers -> PCs]
  /\ cur \in [Workers -> Nat]
  /\ answer \in [Workers -> Answers]
  /\ round \in [Workers -> Check \cup {NoCheck}]
  /\ wire \subseteq Nat /\ made \subseteq Nat /\ barred \subseteq Nat

Init ==
  /\ version = 0 /\ intent \in Intents
  /\ check = NoCheck
  /\ runState = "none" /\ runVersion = 0 /\ revision = 0
  /\ runIntent = [s \in Steps |-> NoValue]
  /\ stepStatus = [s \in Steps |-> "ready"]
  /\ stepKey = [s \in Steps |-> 0]
  /\ attempts = <<>>
  /\ binding = [s \in Steps |-> 0]
  /\ resourceRevision = 0
  /\ lateFacts = {}
  /\ holder = NoWorker
  /\ pc = [w \in Workers |-> "idle"]
  /\ cur = [w \in Workers |-> 0]
  /\ answer = [w \in Workers |-> "none"]
  /\ round = [w \in Workers |-> NoCheck]
  /\ wire = {} /\ made = {} /\ barred = {}

-------------------------------------------------------------------------------
(* Reading the state *)

Applied == {s \in Steps : stepStatus[s] = "applied"}

Open(i) == attempts[i].status \in {"pending", "unknown"}
Unresolved == {i \in DOMAIN attempts : Open(i)}

\* Mutant: the loop works from the end of the plan.
IsNextFromTheEnd(s) == s \notin Applied /\ \A t \in (s + 1)..N : t \in Applied

\* The step the loop takes up when nothing is unresolved: the first unapplied one.
IsNext(s) == s \notin Applied /\ \A t \in 1..(s - 1) : t \in Applied

\* Mutant: repair may touch nodes that exist already.
ProtectsNothing(new) == TRUE

\* protect / protectIntentRepair: the topology is fixed here, so what is left
\* is that a node created already keeps the value it was created with.
Protects(new) ==
  runState # "none" => \A s \in Applied : new[s] = runIntent[s]

\* Mutant: the repair check looks at the protection only.
AcceptableToPlan(new) == Protects(new)

\* The synchronous and asynchronous rules, and the plan with its protection.
Acceptable(new) == Protects(new) /\ \A s \in Steps : new[s] \notin Rejected

\* The effect a key already has, if any: the remote side looks requests up by
\* (step, key), never by attempt.
SameRequest(i, j) == attempts[i].step = attempts[j].step /\ attempts[i].key = attempts[j].key
KeyMade(i) == \E j \in made : SameRequest(i, j)

-------------------------------------------------------------------------------
(* withLease: the acquisition is part of the first action of a call, the     *)
(* release of its last.                                                      *)

\* What a call knew is gone when it moves on.
Forget(w) ==
  /\ cur' = [cur EXCEPT ![w] = 0]
  /\ answer' = [answer EXCEPT ![w] = "none"]
  /\ round' = [round EXCEPT ![w] = NoCheck]

\* The call returns or throws: its finally block releases what is still its own.
Leave(w) ==
  /\ pc' = [pc EXCEPT ![w] = "idle"]
  /\ holder' = IF holder = w THEN NoWorker ELSE holder
  /\ Forget(w)

Goto(w, label) == pc' = [pc EXCEPT ![w] = label] /\ UNCHANGED holder

-------------------------------------------------------------------------------
(* edit: one transaction under the lease *)

Edit(w, new) ==
  /\ pc[w] = "idle" /\ holder = NoWorker
  /\ version < MaxVersion
  /\ runState # "published"               \* UPDATE_NOT_SUPPORTED
  /\ Protects(new)
  /\ version' = version + 1
  /\ intent' = new
  /\ check' = NoCheck
  /\ UNCHANGED <<runVars, stepVars, attempts, factVars, lateFacts, holder, workerVars, remoteVars>>

-------------------------------------------------------------------------------
(* runCheck.  The verdict is a function of the state read at the start, so   *)
(* it is computed there; an asynchronous rule may answer too late or not at  *)
(* all, which fails an acceptable intent.                                    *)

\* A new round advances checkEpoch, which makes every older round stale; a
\* stale round has nothing left to store.
StartRound(w, verdict) ==
  /\ verdict = "passed" => Acceptable(intent)
  /\ check' = NoCheck
  /\ round' = [v \in Workers |-> IF v # w THEN NoCheck ELSE
                 [status |-> verdict, version |-> version,
                  revision |-> resourceRevision, intent |-> intent]]

RoundIsCurrent(w) ==
  /\ round[w] # NoCheck
  /\ round[w].version = version /\ round[w].revision = resourceRevision

\* A check that did not pass is stored for its diagnostics only.
Granted(result) == IF result.status = "passed" THEN result ELSE NoCheck

PreflightStart(w, verdict) ==
  /\ pc[w] = "idle" /\ holder = NoWorker
  /\ StartRound(w, verdict)
  /\ Goto(w, "checking")
  /\ UNCHANGED <<draftVars, runVars, stepVars, attempts, factVars, lateFacts, cur, answer, remoteVars>>

\* The second lease of a preflight; a stale round (STALE_CHECK) stores nothing.
PreflightFinish(w) ==
  /\ pc[w] = "checking" /\ holder = NoWorker
  /\ check' = IF RoundIsCurrent(w) THEN Granted(round[w]) ELSE check
  /\ Goto(w, "idle")
  /\ Forget(w)
  /\ UNCHANGED <<draftVars, runVars, stepVars, attempts, factVars, lateFacts, remoteVars>>

-------------------------------------------------------------------------------
(* publish: the claim of the first run, or the observation of the existing   *)
(* one, which changes nothing.                                               *)

Certified ==
  /\ check.status = "passed"
  /\ check.version = version /\ check.revision = resourceRevision
  /\ check.intent = intent

PublishClaim(w) ==
  /\ pc[w] = "idle" /\ holder = NoWorker
  /\ runState = "none"                    \* INITIAL_RUN_ALREADY_EXISTS
  /\ Certified                            \* PREFLIGHT_REQUIRED
  /\ runState' = "running" /\ runVersion' = version /\ runIntent' = check.intent
  /\ UNCHANGED revision
  /\ holder' = w /\ pc' = [pc EXCEPT ![w] = "loop"]
  /\ UNCHANGED <<draftVars, check, stepVars, attempts, factVars, lateFacts, cur, answer, round, remoteVars>>

-------------------------------------------------------------------------------
(* dispatchSteps: record the request, send it, commit the outcome            *)

\* The durable attempt precedes every call of apply; UNRESOLVED_EXECUTION.
Record(w) ==
  /\ pc[w] = "loop" /\ holder = w
  /\ Unresolved = {}
  /\ Len(attempts) < MaxAttempts
  /\ \E s \in Steps :
       /\ IsNext(s)
       /\ attempts' = Append(attempts, [step |-> s, key |-> stepKey[s],
                                        input |-> runIntent[s], status |-> "pending"])
       /\ stepStatus' = [stepStatus EXCEPT ![s] = "dispatching"]
  /\ runState' = "running"
  /\ cur' = [cur EXCEPT ![w] = Len(attempts) + 1]
  /\ Goto(w, "send")
  /\ UNCHANGED <<draftVars, check, runVersion, runIntent, revision, stepKey, factVars,
                 lateFacts, answer, round, remoteVars>>

\* apply is called; nothing checks the lease between Record and here but the
\* abort signal.
Send(w) ==
  /\ pc[w] = "send"
  /\ wire' = wire \cup {cur[w]}
  /\ Goto(w, "sent")
  /\ UNCHANGED <<durable, lateFacts, cur, answer, round, made, barred>>

\* A worker that has lost the lease may find its signal aborted: no call, and
\* the outcome counts as unknown.
SkipSend(w) ==
  /\ pc[w] = "send" /\ holder # w
  /\ answer' = [answer EXCEPT ![w] = "unknown"]
  /\ Goto(w, "commit")
  /\ UNCHANGED <<durable, lateFacts, cur, round, remoteVars>>

\* What an adapter may answer for attempt i (types.ts).  "applied" needs the
\* effect; "refused" proves that the request had none and never will.
\* Anything else (an exception, a timeout, a malformed result) is unknown.
Answer(w, a) ==
  LET i == cur[w] IN
    /\ a = "applied" => KeyMade(i)
    /\ a = "refused" => ~KeyMade(i)
    /\ IF a = "refused" THEN barred' = barred \cup {i} /\ wire' = wire \ {i}
                        ELSE UNCHANGED <<barred, wire>>
    /\ answer' = [answer EXCEPT ![w] = a]

ApplyReturns(w, a) ==
  /\ pc[w] = "sent"
  /\ Answer(w, a)
  /\ Goto(w, "commit")
  /\ UNCHANGED <<durable, lateFacts, cur, round, made>>

ReconcileReturns(w, a) ==
  /\ pc[w] = "asking"
  /\ Answer(w, a)
  /\ Goto(w, "settle")
  /\ UNCHANGED <<durable, lateFacts, cur, round, made>>

\* resume goes on to the repair check when the intent moved past the run.
Continue == IF version # runVersion THEN "recheck" ELSE "loop"

\* Mutant: the receipt is kept on the step, the node is left unbound.
CommitAppliedUnbound(w) ==
  LET i == cur[w]
      s == attempts[i].step
  IN  /\ stepStatus' = [stepStatus EXCEPT ![s] = "applied"]
      /\ attempts' = [attempts EXCEPT ![i].status = "applied"]
      /\ runState' = "running"
      /\ resourceRevision' = resourceRevision + 1
      /\ Goto(w, IF pc[w] = "commit" THEN "loop" ELSE Continue)
      /\ Forget(w)
      /\ UNCHANGED binding

CommitApplied(w) ==
  LET i == cur[w]
      s == attempts[i].step
  IN  /\ binding' = [binding EXCEPT ![s] = i]
      /\ stepStatus' = [stepStatus EXCEPT ![s] = "applied"]
      /\ attempts' = [attempts EXCEPT ![i].status = "applied"]
      /\ runState' = "running"
      /\ resourceRevision' = resourceRevision + 1
      /\ Goto(w, IF pc[w] = "commit" THEN "loop" ELSE Continue)
      /\ Forget(w)

\* Mutant: a timeout is taken for a failure.
CommitUnknownAsFailure(w) ==
  LET i == cur[w] IN
    /\ stepStatus' = [stepStatus EXCEPT ![attempts[i].step] = "ready"]
    /\ attempts' = [attempts EXCEPT ![i].status = "no_effect"]
    /\ runState' = "blocked"
    /\ UNCHANGED factVars
    /\ Leave(w)

CommitUnknown(w) ==
  LET i == cur[w] IN
    /\ stepStatus' = [stepStatus EXCEPT ![attempts[i].step] = "unknown"]
    /\ attempts' = [attempts EXCEPT ![i].status = "unknown"]
    /\ runState' = "unknown"
    /\ UNCHANGED factVars
    /\ Leave(w)

\* not_applied ends the call; no_effect lets resume continue.
CommitRefused(w) ==
  LET i == cur[w] IN
    /\ stepStatus' = [stepStatus EXCEPT ![attempts[i].step] = "ready"]
    /\ attempts' = [attempts EXCEPT ![i].status = "no_effect"]
    /\ runState' = "blocked"
    /\ UNCHANGED factVars
    /\ IF pc[w] = "commit" THEN Leave(w) ELSE Goto(w, Continue) /\ Forget(w)

\* Mutant: the outcome is stored without the fenced transaction.
CommitUnfenced(w) ==
  /\ pc[w] \in {"commit", "settle"}
  /\ Open(cur[w])
  /\ \/ answer[w] = "applied" /\ CommitApplied(w)
     \/ answer[w] = "unknown" /\ CommitUnknown(w)
     \/ answer[w] = "refused" /\ CommitRefused(w)
  /\ UNCHANGED <<draftVars, check, runVersion, runIntent, revision, stepKey,
                 lateFacts, remoteVars>>

Commit(w) ==
  /\ pc[w] \in {"commit", "settle"} /\ holder = w
  /\ Open(cur[w])                          \* ATTEMPT_CONFLICT
  /\ \/ answer[w] = "applied" /\ CommitApplied(w)
     \/ answer[w] = "unknown" /\ CommitUnknown(w)
     \/ answer[w] = "refused" /\ CommitRefused(w)
  /\ UNCHANGED <<draftVars, check, runVersion, runIntent, revision, stepKey,
                 lateFacts, remoteVars>>

\* Mutant: an interrupted run is always offered for repair.
InterruptedAsBlocked(w) ==
  /\ \/ holder = w /\ runState # "published" /\ runState' = "blocked"
     \/ UNCHANGED runState
  /\ Leave(w)
  /\ UNCHANGED <<draftVars, check, runVersion, runIntent, revision, stepVars, attempts,
                 factVars, remoteVars>>

\* dispatch marks the run on its way out, if the lease and the store still let it.
Interrupted(w) ==
  /\ \/ /\ holder = w /\ runState # "published"
        /\ runState' = IF Unresolved # {} THEN "unknown" ELSE "blocked"
     \/ UNCHANGED runState
  /\ Leave(w)
  /\ UNCHANGED <<draftVars, check, runVersion, runIntent, revision, stepVars, attempts,
                 factVars, remoteVars>>

\* The transaction is refused (LEASE_LOST, ATTEMPT_CONFLICT) or the store
\* fails: the outcome is appended without the lease, or lost as well.  Only an
\* applied receipt is ever used later.
CommitFails(w) ==
  /\ pc[w] \in {"commit", "settle"}
  /\ \/ answer[w] = "applied" /\ lateFacts' = lateFacts \cup {cur[w]}
     \/ UNCHANGED lateFacts
  /\ Interrupted(w)

\* LEASE_LOST, or a failing store, anywhere else in the loop.
DispatchThrows(w) ==
  /\ pc[w] \in {"loop", "asking"}
  /\ Interrupted(w)
  /\ UNCHANGED lateFacts

\* STALE_RUN_INPUT unless the run's version is the Draft's.
Finish(w) ==
  /\ pc[w] = "loop" /\ holder = w
  /\ Unresolved = {} /\ Applied = Steps
  /\ version = runVersion
  /\ runState' = "published"
  /\ Leave(w)
  /\ UNCHANGED <<draftVars, check, runVersion, runIntent, revision, stepVars, attempts,
                 factVars, lateFacts, remoteVars>>

-------------------------------------------------------------------------------
(* resume *)

\* Mutant: resume goes straight to the repair check.
ResumeWithoutReconciling(w) ==
  /\ pc[w] = "idle" /\ holder = NoWorker
  /\ runState \notin {"none", "published"}
  /\ holder' = w
  /\ pc' = [pc EXCEPT ![w] = Continue]
  /\ UNCHANGED <<durable, lateFacts, cur, answer, round, remoteVars>>

\* Mutant: a run left running by a crash counts as being executed.
ResumeUnlessRunning(w) ==
  /\ pc[w] = "idle" /\ holder = NoWorker
  /\ runState \notin {"none", "published", "running"}
  /\ holder' = w
  /\ \/ /\ Unresolved = {}
        /\ pc' = [pc EXCEPT ![w] = Continue]
        /\ UNCHANGED <<cur, answer>>
     \/ \E i \in Unresolved :
          /\ cur' = [cur EXCEPT ![w] = i]
          /\ pc' = [pc EXCEPT ![w] = IF i \in lateFacts THEN "settle" ELSE "asking"]
          /\ answer' = [answer EXCEPT ![w] = IF i \in lateFacts THEN "applied" ELSE @]
  /\ UNCHANGED <<durable, lateFacts, round, remoteVars>>

\* An unresolved request first: by a late receipt if there is one, else by
\* asking the adapter.  A published run is only observed.
Resume(w) ==
  /\ pc[w] = "idle" /\ holder = NoWorker
  /\ runState \notin {"none", "published"}
  /\ holder' = w
  /\ \/ /\ Unresolved = {}
        /\ pc' = [pc EXCEPT ![w] = Continue]
        /\ UNCHANGED <<cur, answer>>
     \/ \E i \in Unresolved :
          /\ cur' = [cur EXCEPT ![w] = i]
          /\ pc' = [pc EXCEPT ![w] = IF i \in lateFacts THEN "settle" ELSE "asking"]
          /\ answer' = [answer EXCEPT ![w] = IF i \in lateFacts THEN "applied" ELSE @]
  /\ UNCHANGED <<durable, lateFacts, round, remoteVars>>

RecheckStart(w, verdict) ==
  /\ pc[w] = "recheck" /\ holder = w
  /\ StartRound(w, verdict)
  /\ Goto(w, "rechecking")
  /\ UNCHANGED <<draftVars, runVars, stepVars, attempts, factVars, lateFacts, cur, answer, remoteVars>>

RecheckFinish(w) ==
  /\ pc[w] = "rechecking" /\ holder = w
  /\ RoundIsCurrent(w)
  /\ check' = Granted(round[w])
  /\ Goto(w, IF round[w].status = "passed" THEN "adopt" ELSE "block")
  /\ UNCHANGED <<draftVars, runVars, stepVars, attempts, factVars, lateFacts,
                 cur, answer, round, remoteVars>>

Block(w) ==
  /\ pc[w] = "block" /\ holder = w
  /\ runState' = "blocked"
  /\ Leave(w)
  /\ UNCHANGED <<draftVars, check, runVersion, runIntent, revision, stepVars, attempts,
                 factVars, lateFacts, remoteVars>>

Attempted(s) == \E i \in DOMAIN attempts : attempts[i].step = s

\* Mutant: a repaired request keeps its idempotency key.
SameKey(s, new) == stepKey[s]

\* A changed payload that was attempted under the old key gets a new key.
RepairedKey(s, new) ==
  IF s \notin Applied /\ Attempted(s) /\ new[s] # runIntent[s] THEN revision + 1 ELSE stepKey[s]

\* Mutant: the repaired plan replaces every step, applied ones too.
AdoptAfresh(w) ==
  /\ pc[w] = "adopt" /\ holder = w
  /\ check = round[w] /\ check.status = "passed"
  /\ check.version = version /\ check.revision = resourceRevision
  /\ Protects(check.intent)
  /\ revision' = revision + 1
  /\ stepKey' = [s \in Steps |-> RepairedKey(s, check.intent)]
  /\ stepStatus' = [s \in Steps |-> "ready"]
  /\ runIntent' = check.intent /\ runVersion' = check.version
  /\ runState' = "blocked"
  /\ Goto(w, "loop") /\ Forget(w)
  /\ UNCHANGED <<draftVars, check, attempts, factVars, lateFacts, remoteVars>>

AdoptRepair(w) ==
  /\ pc[w] = "adopt" /\ holder = w
  /\ check = round[w] /\ check.status = "passed"      \* STALE_CHECK
  /\ check.version = version /\ check.revision = resourceRevision
  /\ Protects(check.intent)                \* APPLIED_STEP_IMMUTABLE
  /\ revision' = revision + 1
  /\ stepKey' = [s \in Steps |-> RepairedKey(s, check.intent)]
  /\ stepStatus' = [s \in Steps |-> IF s \in Applied THEN "applied" ELSE "ready"]
  /\ runIntent' = check.intent /\ runVersion' = check.version
  /\ runState' = "blocked"
  /\ Goto(w, "loop")
  /\ Forget(w)
  /\ UNCHANGED <<draftVars, check, attempts, factVars, lateFacts, remoteVars>>

\* Any of these transactions may be refused; resume throws, outside dispatch.
ResumeThrows(w) ==
  /\ pc[w] \in {"recheck", "rechecking", "adopt", "block"}
  /\ Leave(w)
  /\ UNCHANGED <<durable, lateFacts, remoteVars>>

-------------------------------------------------------------------------------
(* The environment *)

\* The process dies; the lease row stays until it expires.
Crash(w) ==
  /\ pc[w] # "idle"
  /\ Goto(w, "idle")
  /\ Forget(w)
  /\ UNCHANGED <<durable, lateFacts, remoteVars>>

\* The lease runs out, of a dead worker or of one paused past its renewals.
Expire ==
  /\ holder # NoWorker
  /\ holder' = NoWorker
  /\ UNCHANGED <<durable, lateFacts, workerVars, remoteVars>>

\* A request takes effect, before or after its sender has given up on it, and
\* once per key however often it was sent.
Execute(i) ==
  /\ i \in wire \ barred
  /\ ~KeyMade(i)
  /\ made' = made \cup {i}
  /\ wire' = wire \ {i}
  /\ UNCHANGED <<durable, lateFacts, holder, workerVars, barred>>

-------------------------------------------------------------------------------

Verdicts == {"passed", "failed"}

Call(w) ==
  \/ \E new \in Intents : Edit(w, new)
  \/ \E v \in Verdicts : PreflightStart(w, v)
  \/ PreflightFinish(w)
  \/ PublishClaim(w)
  \/ Resume(w)

Dispatch(w) ==
  \/ Record(w) \/ Send(w) \/ SkipSend(w)
  \/ \E a \in {"applied", "refused", "unknown"} : ApplyReturns(w, a) \/ ReconcileReturns(w, a)
  \/ Commit(w) \/ CommitFails(w) \/ DispatchThrows(w)
  \/ Finish(w)

Repair(w) ==
  \/ \E v \in Verdicts : RecheckStart(w, v)
  \/ RecheckFinish(w) \/ Block(w) \/ AdoptRepair(w) \/ ResumeThrows(w)

Next ==
  \/ \E w \in Workers : Call(w) \/ Dispatch(w) \/ Repair(w) \/ Crash(w)
  \/ Expire
  \/ \E i \in DOMAIN attempts : Execute(i)

Spec == Init /\ [][Next]_vars

-------------------------------------------------------------------------------
(* Safety properties *)

Input(i) == attempts[i].input

\* However workers, late answers and repairs interleave, no node is ever created
\* twice: two requests of one step never both take effect.  This is what the
\* rule "resume reconciles before it sends" of engine.ts is for.
AtMostOneEffect ==
  \A i, j \in made : attempts[i].step = attempts[j].step => i = j

\* A Draft is marked published only when every node was created remotely, by the
\* attempt its binding names, with the value the Draft asks for.
PublishedMatchesIntent ==
  runState = "published" =>
    \A s \in Steps : /\ binding[s] \in made
                     /\ attempts[binding[s]].step = s
                     /\ Input(binding[s]) = intent[s]

\* An idempotency key never names two different requests, over any number of
\* edits, refusals and adoptions: the remote side would answer the second with
\* the effect of the first.
KeyIdentifiesRequest ==
  \A i, j \in DOMAIN attempts : SameRequest(i, j) => Input(i) = Input(j)

\* A run shown as blocked, which invites the caller to edit and resend, never
\* hides a request that may still take effect.
BlockedMeansResolved == runState = "blocked" => Unresolved = {}

\* A request the adapter reported without effect is out of the way for good: an
\* effect is always applied in the run or still to be reconciled.
EveryEffectIsAccountedFor ==
  \A i \in made : attempts[i].status # "no_effect" /\ (Open(i) \/ binding[attempts[i].step] = i)

\* A child is never created before its parents: an effect on a step means that
\* every earlier step of the plan is applied.
EffectsFollowThePlan ==
  \A i \in made : 1..(attempts[i].step - 1) \subseteq Applied

\* No value a rule rejects is ever sent, though rules run outside the lease and
\* the intent can change under them.
OnlyCheckedInputIsSent == \A i \in DOMAIN attempts : Input(i) \notin Rejected

\* Nothing durable changes in a step of a worker while another one holds the lease.
\* (What it may do while its own has expired and nobody holds it is a question about
\* the lease: LockSpec of DraftLease.)
StaleWorkerNeverWrites ==
  [][durable' # durable =>
       \A w \in Workers : <<pc[w], cur[w], answer[w]>>' # <<pc[w], cur[w], answer[w]>>
                             => holder \in {w, NoWorker}]_vars

\* validateHistory holds of what the engine does, so it never refuses a write:
\* attempts keep their request, resolved ones their status, bindings stay, and
\* a published run is frozen.
HistoryIsImmutable ==
  [][/\ Len(attempts') >= Len(attempts)
     /\ \A i \in DOMAIN attempts :
          /\ attempts'[i].step = attempts[i].step /\ attempts'[i].key = attempts[i].key
          /\ attempts'[i].input = attempts[i].input
          /\ ~Open(i) => attempts'[i].status = attempts[i].status
     /\ \A s \in Steps : binding[s] # 0 => binding'[s] = binding[s]
     /\ runState = "published" => UNCHANGED <<runVars, stepVars, attempts, factVars, draftVars>>]_vars

\* The run implements the abstract publication.
Effect(s) == {i \in made : attempts[i].step = s}
Publication == INSTANCE PublishOnce WITH
  Nodes <- Steps, wanted <- intent, adopted <- runIntent, done <- runState = "published",
  made <- [s \in Steps |-> IF Effect(s) = {} THEN NoValue ELSE Input(CHOOSE i \in Effect(s) : TRUE)]
PublicationSpec == Publication!Spec

-------------------------------------------------------------------------------
(* Liveness *)

\* What may go wrong in a call, or hold it up without being a step of its own.
Fault ==
  \/ \E w \in Workers :
       \/ Crash(w) \/ SkipSend(w) \/ CommitFails(w) \/ DispatchThrows(w)
       \/ ResumeThrows(w)
       \/ ApplyReturns(w, "unknown") \/ ReconcileReturns(w, "unknown")
       \/ RecheckStart(w, "failed") /\ Acceptable(intent)
  \/ Expire /\ pc[holder] # "idle"

\* The steps a call makes by itself.
Progress(w) ==
  \/ PreflightFinish(w) \/ Record(w) \/ Send(w)
  \/ ApplyReturns(w, "applied") \/ ApplyReturns(w, "refused")
  \/ ReconcileReturns(w, "applied") \/ ReconcileReturns(w, "refused")
  \/ Commit(w) \/ Finish(w)
  \/ (\E v \in Verdicts : RecheckStart(w, v))
  \/ RecheckFinish(w) \/ Block(w) \/ AdoptRepair(w)
  \/ holder # w /\ (CommitFails(w) \/ DispatchThrows(w) \/ ResumeThrows(w))

\* Calls run on, requests sent arrive, leases of the dead expire, and a caller
\* comes back with resume until it finds the Draft free.
Fairness ==
  /\ \A w \in Workers : WF_vars(Progress(w))
  /\ \A i \in 1..MaxAttempts : WF_vars(i \in DOMAIN attempts /\ Execute(i))
  /\ WF_vars(Expire /\ pc[holder] = "idle")
  /\ SF_vars(\E w \in Workers : Resume(w))

FairSpec == Spec /\ Fairness

\* The bound on attempts never stands in the way of a request to be made.
RoomLeft == Len(attempts) < MaxAttempts \/ Unresolved # {} \/ Applied = Steps

\* Whatever happened to the run, once nothing more goes wrong and the intent
\* stays acceptable (its rules pass, and it keeps what was created), resuming
\* ends in publication; no run is wedged by its history.
ResumeEndsInPublication ==
  /\ <>[][~Fault]_vars
  /\ []RoomLeft
  /\ <>[](runState # "none" /\ Acceptable(intent))
  => <>(runState = "published")
===============================================================================
