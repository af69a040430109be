------------------------------- MODULE UpdateRun -------------------------------
(***************************************************************************)
(* Publishing changes to a Draft that is already published (engine.ts,     *)
(* update-plan.ts, update-readback.ts, update-adoption.ts,                 *)
(* update-evidence.ts): a preflight inspects the remote objects and        *)
(* compiles the changes, publish and resume read them back before every    *)
(* request, a request carries the observed conditions, a confirmed receipt *)
(* becomes the new baseline fact, and what needs no request is satisfied   *)
(* from the observation.                                                   *)
(*                                                                         *)
(* pc is the call that holds the Draft's lease, "idle" while nobody does:  *)
(* ManagedRun and DraftLease show that nobody else can commit.  A preflight *)
(* works outside the lease between its two transactions.  A recorded       *)
(* request may take effect at any later time, even if its sender died or   *)
(* was paused before sending it, unless the adapter proved that it cannot. *)
(*                                                                         *)
(* Data: every node has one managed field; intent Undeclared means that    *)
(* the author says nothing of it.  rv is the opaque remoteVersion.  The    *)
(* certificate is the passed check with its artifact.  What else a write   *)
(* leaves in the storage, and what the storage demands of it, is composed  *)
(* with these actions in UpdateStorage.                                    *)
(***************************************************************************)
EXTENDS Integers, Sequences, FiniteSets

CONSTANTS N,               \* number of nodes, one step each, in plan order
          Values, Undeclared,
          Cas,             \* the adapter makes its writes conditional on rv
          MaxDrift,        \* bound: changes made by other clients
          MaxVersion,      \* bound: edits
          MaxAttempts,     \* bound: requests
          MaxPub,          \* bound: publications
          MaxRevision      \* bound: adopted repairs per run

ASSUME UpdateAssumption ==
  /\ N \in Nat \ {0}
  /\ Undeclared \notin Values
  /\ Cas \in BOOLEAN
  /\ Cas \/ MaxDrift = 0      \* docs/guides/update.md: no CAS, single writer

Nodes == 1..N
Observation == [value : Values, rv : Nat]
Certificate == [version : Nat, rev : Nat, pub : Nat,
                intent : [Nodes -> Values \cup {Undeclared}],
                seen : [Nodes -> Observation], target : [Nodes -> Values]]
NoCheck == [version |-> -1]

VARIABLES
  version, intent, published,  \* the Draft: version, field intents, status
  pub,                         \* number of publications: the baseline artifact
  check,                       \* the stored check if it passed, else NoCheck
  adopted,                     \* its certificate has a publication record
  rev, fact,                   \* resourceRevision and the latest facts
  run, runState, runCert, revision, status, key,   \* the current run
  attempts, late,
  pc, round,
  remote, made, barred         \* the remote system

draftVars == <<version, intent>>
pubVars   == <<published, pub>>
checkVars == <<check, adopted>>
factVars  == <<rev, fact>>
runVars   == <<run, runCert, revision>>
stepVars  == <<status, key>>
vars == <<draftVars, pubVars, checkVars, factVars, runVars, runState, stepVars,
          attempts, late, pc, round, remote, made, barred>>

Attempt == [run : Nat, step : Nodes, key : Nat, target : Values,
            seen : Observation, status : {"pending", "unknown", "applied", "no_effect"}]

TypeOK ==
  /\ version \in Nat /\ intent \in [Nodes -> Values \cup {Undeclared}]
  /\ published \in BOOLEAN /\ pub \in Nat
  /\ check \in Certificate \cup {NoCheck} /\ adopted \in BOOLEAN
  /\ rev \in Nat /\ fact \in [Nodes -> Observation]
  /\ run \in Nat /\ runState \in {"running", "unknown", "blocked", "published"}
  /\ runCert \in Certificate \cup {NoCheck} /\ revision \in Nat
  /\ status \in [Nodes -> {"ready", "dispatching", "unknown", "applied", "satisfied"}]
  /\ key \in [Nodes -> Nat]
  /\ attempts \in Seq(Attempt)
  /\ late \subseteq made
  /\ pc \in {"idle", "adopt", "loop", "record", "sent", "asking", "recheck", "repair"}
  /\ round \in Certificate \cup [version : Nat, rev : Nat, pub : Nat,
                                 intent : [Nodes -> Values \cup {Undeclared}]] \cup {NoCheck}
  /\ remote \in [Nodes -> Observation]
  /\ made \subseteq DOMAIN attempts /\ barred \subseteq DOMAIN attempts

\* The initial run has created every node and confirmed its value.
Init ==
  /\ version = 0 /\ intent \in [Nodes -> Values \cup {Undeclared}]
  /\ published = TRUE /\ pub = 1
  /\ check = NoCheck /\ adopted = FALSE
  /\ \E v \in [Nodes -> Values] :
       /\ \A n \in Nodes : intent[n] \in {Undeclared, v[n]}
       /\ fact = [n \in Nodes |-> [value |-> v[n], rv |-> 0]]
  /\ remote = fact
  /\ rev = 0
  /\ run = 0 /\ runState = "published" /\ runCert = NoCheck /\ revision = 0
  /\ status = [n \in Nodes |-> "applied"] /\ key = [n \in Nodes |-> 0]
  /\ attempts = <<>> /\ late = {}
  /\ pc = "idle" /\ round = NoCheck
  /\ made = {} /\ barred = {}

-------------------------------------------------------------------------------
(* Reading the state *)

Open(i) == attempts[i].status \in {"pending", "unknown"}
Unresolved == {i \in DOMAIN attempts : Open(i)}
TheRequest == CHOOSE i \in Unresolved : TRUE
SameKey(i, j) == /\ attempts[i].run = attempts[j].run
                 /\ attempts[i].step = attempts[j].step
                 /\ attempts[i].key = attempts[j].key
KeyMade(i) == \E j \in made : SameKey(i, j)

Done == {n \in Nodes : status[n] \in {"applied", "satisfied"}}
NextStep == CHOOSE n \in Nodes \ Done : \A m \in 1..(n - 1) : m \in Done

\* What the author wants remotely: an undeclared field stays at its baseline.
Desired(in) == [n \in Nodes |-> IF in[n] = Undeclared THEN fact[n].value ELSE in[n]]

\* compileUpdate: the remote object is as wanted already, or as last confirmed.
Compiles(in, seen) ==
  \A n \in Nodes : seen[n].value \in {Desired(in)[n], fact[n].value}

\* An update slot changes something; a noop slot does not.
IsUpdate(cert, n) == cert.target[n] # cert.seen[n].value

\* protect: while a run is active, a node it has completed keeps its intent.
Protects(new) ==
  runState # "published" => \A n \in Done : new[n] = runCert.intent[n]

\* verifyUpdateReadback: the certificate still describes this Draft, and the
\* remote objects are as they were observed, tokens included.
ReadsAsChecked(cert) ==
  /\ cert.version = version /\ cert.rev = rev /\ cert.pub = pub
  /\ Compiles(intent, remote)
  /\ remote = cert.seen

\* verifyRunUpdateReadback: completed nodes must still be as confirmed, the
\* others as observed by the check.
RunReadsAsChecked ==
  /\ runCert.version = version /\ runCert.pub = pub
  /\ Compiles(intent, remote)
  /\ \A n \in Nodes : IF n \in Done THEN remote[n].value = fact[n].value
                                    ELSE remote[n] = runCert.seen[n]

-------------------------------------------------------------------------------
(* edit and preflight *)

Edit(new) ==
  /\ pc = "idle"
  /\ version < MaxVersion
  /\ Protects(new)
  /\ version' = version + 1 /\ intent' = new
  /\ published' = FALSE
  /\ check' = NoCheck /\ adopted' = FALSE
  /\ UNCHANGED <<pub, factVars, runVars, runState, stepVars, attempts, late, pc, round,
                 remote, made, barred>>

\* What does not depend on the observation: no run may have an unresolved
\* request, and a repair keeps what its run has completed.
Checkable == Unresolved = {} /\ Protects(intent)

\* A round is compiled from the state its first transaction returned; it ends
\* the round before it, whose checkEpoch is stale.
PreflightStart ==
  /\ pc = "idle"
  /\ check' = NoCheck /\ adopted' = FALSE
  /\ round' = IF Checkable
              THEN [version |-> version, rev |-> rev, pub |-> pub, intent |-> intent]
              ELSE NoCheck
  /\ UNCHANGED <<draftVars, pubVars, factVars, runVars, runState, stepVars, attempts, late, pc,
                 remote, made, barred>>

Observing(r) == r # NoCheck /\ "seen" \notin DOMAIN r
Observed(r) == r # NoCheck /\ "seen" \in DOMAIN r

WithObservation(r) ==
  [version |-> r.version, rev |-> r.rev, pub |-> r.pub, intent |-> r.intent,
   seen |-> remote, target |-> Desired(r.intent)]

\* The inspector answers, at any time and also while a call holds the lease; a
\* round overtaken by new facts is stale whatever it finds.
PreflightInspect ==
  /\ Observing(round)
  /\ round.rev = rev /\ Compiles(round.intent, remote)
  /\ round' = WithObservation(round)
  /\ UNCHANGED <<draftVars, pubVars, checkVars, factVars, runVars, runState, stepVars, attempts,
                 late, pc, remote, made, barred>>

\* Mutant: the check is stored without waiting for the inspector.
PreflightFinishEarly ==
  /\ pc = "idle"
  /\ round # NoCheck /\ round.version = version /\ round.rev = rev
  /\ check' = round /\ adopted' = FALSE
  /\ round' = NoCheck
  /\ UNCHANGED <<draftVars, pubVars, factVars, runVars, runState, stepVars, attempts, late, pc,
                 remote, made, barred>>

\* STALE_CHECK unless version and resourceRevision are those of the start.
PreflightFinish ==
  /\ pc = "idle"
  /\ Observed(round) /\ round.version = version /\ round.rev = rev
  /\ check' = round /\ adopted' = FALSE
  /\ round' = NoCheck
  /\ UNCHANGED <<draftVars, pubVars, factVars, runVars, runState, stepVars, attempts, late, pc,
                 remote, made, barred>>

\* Stale, blocked, pending, incomplete or crashed: no certificate.
PreflightFails ==
  /\ round # NoCheck
  /\ round' = NoCheck
  /\ UNCHANGED <<draftVars, pubVars, checkVars, factVars, runVars, runState, stepVars, attempts,
                 late, pc, remote, made, barred>>

-------------------------------------------------------------------------------
(* publish: a fresh readback under the lease, then the adoption.  A          *)
(* certificate already adopted, and a Draft with an active run, are only     *)
(* observed.                                                                 *)

PublishRead ==
  /\ pc = "idle"
  /\ runState = "published"
  /\ check # NoCheck /\ ~adopted
  /\ ReadsAsChecked(check)
  /\ pc' = "adopt"
  /\ UNCHANGED <<draftVars, pubVars, checkVars, factVars, runVars, runState, stepVars, attempts,
                 late, round, remote, made, barred>>

\* Nothing to write: the observations become the facts, and the Draft is
\* published without a run.
AdoptNoop ==
  /\ \A n \in Nodes : ~IsUpdate(check, n)
  /\ fact' = check.seen /\ rev' = rev + 1
  /\ published' = TRUE /\ pub' = pub + 1
  /\ pc' = "idle"
  /\ UNCHANGED <<runVars, runState, stepVars>>

AdoptRun ==
  /\ \E n \in Nodes : IsUpdate(check, n)
  /\ run' = run + 1 /\ runCert' = check /\ revision' = 0
  /\ runState' = "running"
  /\ status' = [n \in Nodes |-> "ready"] /\ key' = [n \in Nodes |-> 0]
  /\ published' = FALSE
  /\ pc' = "loop"
  /\ UNCHANGED <<pub, factVars>>

PublishAdopt ==
  /\ pc = "adopt"
  /\ Unresolved = {}                     \* UNRESOLVED_RUN_ALREADY_EXISTS
  /\ pub < MaxPub
  /\ adopted' = TRUE
  /\ AdoptNoop \/ AdoptRun
  /\ UNCHANGED <<draftVars, check, attempts, late, round, remote, made, barred>>

-------------------------------------------------------------------------------
(* dispatchSteps of an update run *)

ReadBack ==
  /\ pc = "loop" /\ Unresolved = {} /\ Done # Nodes
  /\ RunReadsAsChecked
  /\ pc' = "record"
  /\ UNCHANGED <<draftVars, pubVars, checkVars, factVars, runVars, runState, stepVars, attempts,
                 late, round, remote, made, barred>>

\* Changed remotely, or the inspector did not answer: the run is blocked.
ReadBackFails ==
  /\ pc = "loop" /\ Unresolved = {} /\ Done # Nodes
  /\ runState' = "blocked"
  /\ pc' = "idle"
  /\ UNCHANGED <<draftVars, pubVars, checkVars, factVars, runVars, stepVars, attempts, late,
                 round, remote, made, barred>>

\* The pinned request with the observed conditions, never today's Draft.
Record ==
  /\ pc = "record" /\ IsUpdate(runCert, NextStep)
  /\ Len(attempts) < MaxAttempts
  /\ LET n == NextStep IN
       /\ attempts' = Append(attempts,
            [run |-> run, step |-> n, key |-> key[n], target |-> runCert.target[n],
             seen |-> runCert.seen[n], status |-> "pending"])
       /\ status' = [status EXCEPT ![n] = "dispatching"]
  /\ runState' = "running"
  /\ pc' = "sent"
  /\ UNCHANGED <<draftVars, pubVars, checkVars, factVars, runVars, key, late, round, remote, made, barred>>

\* Mutant: a noop step completes without a fact of its own.
SatisfyWithoutFact ==
  /\ pc = "record" /\ ~IsUpdate(runCert, NextStep)
  /\ status' = [status EXCEPT ![NextStep] = "satisfied"]
  /\ rev' = rev + 1
  /\ pc' = "loop"
  /\ UNCHANGED <<draftVars, pubVars, checkVars, fact, runVars, runState, key, attempts, late,
                 round, remote, made, barred>>

\* satisfyNoop: no request, the observation is the evidence.
Satisfy ==
  /\ pc = "record" /\ ~IsUpdate(runCert, NextStep)
  /\ LET n == NextStep IN
       /\ fact' = [fact EXCEPT ![n] = runCert.seen[n]]
       /\ status' = [status EXCEPT ![n] = "satisfied"]
  /\ rev' = rev + 1
  /\ pc' = "loop"
  /\ UNCHANGED <<draftVars, pubVars, checkVars, runVars, runState, key, attempts, late,
                 round, remote, made, barred>>

\* Mutant: only an edit leads to a new certificate.
ContinueUnlessEdited == IF version # runCert.version THEN "recheck" ELSE "loop"

\* resume adopts a new certificate when the Draft moved on, or when a newer
\* check passed.
Continue ==
  IF version # runCert.version \/ (check # NoCheck /\ ~adopted) THEN "recheck" ELSE "loop"

\* What the adapter may answer; updateOutcome turns a receipt that does not
\* confirm the target and all its values into unknown.
MayAnswer(i, a) ==
  /\ a = "applied" => KeyMade(i)
  /\ a = "refused" => ~KeyMade(i)
  /\ pc = "asking" /\ i \in late => a = "applied"   \* the late receipt is used instead

CommitApplied(i) ==
  LET n == attempts[i].step IN
    /\ attempts' = [attempts EXCEPT ![i].status = "applied"]
    /\ status' = [status EXCEPT ![n] = "applied"]
    /\ fact' = [fact EXCEPT ![n] = [value |-> attempts[i].target, rv |-> attempts[i].seen.rv + 1]]
    /\ rev' = rev + 1
    /\ runState' = "running"
    /\ pc' = IF pc = "sent" THEN "loop" ELSE Continue
    /\ UNCHANGED barred

\* Mutant: a timeout is taken for a failure.
CommitUnknownAsFailure(i) ==
  /\ attempts' = [attempts EXCEPT ![i].status = "no_effect"]
  /\ status' = [status EXCEPT ![attempts[i].step] = "ready"]
  /\ runState' = "blocked"
  /\ pc' = "idle"
  /\ UNCHANGED <<factVars, barred>>

CommitUnknown(i) ==
  /\ attempts' = [attempts EXCEPT ![i].status = "unknown"]
  /\ status' = [status EXCEPT ![attempts[i].step] = "unknown"]
  /\ runState' = "unknown"
  /\ pc' = "idle"
  /\ UNCHANGED <<factVars, barred>>

CommitRefused(i) ==
  /\ attempts' = [attempts EXCEPT ![i].status = "no_effect"]
  /\ status' = [status EXCEPT ![attempts[i].step] = "ready"]
  /\ barred' = barred \cup {i}
  /\ runState' = "blocked"
  /\ pc' = IF pc = "sent" THEN "idle" ELSE Continue
  /\ UNCHANGED factVars

Respond(a) ==
  /\ pc \in {"sent", "asking"}
  /\ LET i == TheRequest IN
       /\ MayAnswer(i, a)
       /\ \/ a = "applied" /\ CommitApplied(i)
          \/ a = "unknown" /\ CommitUnknown(i)
          \/ a = "refused" /\ CommitRefused(i)
  /\ UNCHANGED <<draftVars, pubVars, checkVars, runVars, key, late, round, remote, made>>

\* The answer cannot be committed: an applied receipt may still be appended.
ReceiptLate ==
  /\ pc \in {"sent", "asking"}
  /\ KeyMade(TheRequest)
  /\ late' = late \cup {TheRequest}
  /\ pc' = "idle"
  /\ UNCHANGED <<draftVars, pubVars, checkVars, factVars, runVars, runState, stepVars, attempts,
                 round, remote, made, barred>>

Finish ==
  /\ pc = "loop" /\ Unresolved = {} /\ Done = Nodes
  /\ version = runCert.version             \* STALE_RUN_INPUT
  /\ pub < MaxPub
  /\ runState' = "published" /\ published' = TRUE /\ pub' = pub + 1
  /\ pc' = "idle"
  /\ UNCHANGED <<draftVars, checkVars, factVars, runVars, stepVars, attempts, late, round,
                 remote, made, barred>>

-------------------------------------------------------------------------------
(* resume *)

Resume ==
  /\ pc = "idle" /\ runState # "published"
  /\ pc' = IF Unresolved # {} THEN "asking" ELSE Continue
  /\ UNCHANGED <<draftVars, pubVars, checkVars, factVars, runVars, runState, stepVars, attempts,
                 late, round, remote, made, barred>>

\* runCheck under the lease; a round begun outside is stale from here on.
\* A check that does not pass blocks the run; protect may throw instead.
Recheck(verdict) ==
  /\ pc = "recheck"
  /\ round' = NoCheck /\ adopted' = FALSE
  /\ LET r == [version |-> version, rev |-> rev, pub |-> pub, intent |-> intent] IN
       \/ /\ verdict = "passed"
          /\ Checkable /\ Compiles(intent, remote)
          /\ check' = WithObservation(r)
          /\ pc' = "repair"
          /\ UNCHANGED runState
       \/ /\ verdict = "failed"
          /\ check' = NoCheck
          /\ pc' = "idle"
          /\ runState' \in {"blocked"} \cup IF Protects(intent) THEN {} ELSE {runState}
  /\ UNCHANGED <<draftVars, pubVars, factVars, runVars, stepVars, attempts, late, remote, made, barred>>

MyAttempts(n) == {i \in DOMAIN attempts : attempts[i].run = run /\ attempts[i].step = n}
LastAttempt(n) == CHOOSE i \in MyAttempts(n) : \A j \in MyAttempts(n) : j <= i

\* Mutant: new conditions alone do not make a new key.
NewKeyForPayloadOnly(n) ==
  IF n \notin Done /\ MyAttempts(n) # {} /\ check.target[n] # runCert.target[n]
  THEN revision + 1 ELSE key[n]

\* A request whose payload or observed conditions changed since it was attempted
\* gets a new key.
RepairedKey(n) ==
  IF n \notin Done /\ MyAttempts(n) # {} /\
     \/ check.target[n] # runCert.target[n]
     \/ IsUpdate(check, n) # IsUpdate(runCert, n)
     \/ check.seen[n] # attempts[LastAttempt(n)].seen
  THEN revision + 1 ELSE key[n]

\* Mutant: a step that was attempted keeps its old payload.
AdoptKeepingPayload ==
  /\ pc = "repair"
  /\ revision < MaxRevision
  /\ Protects(check.intent)
  /\ revision' = revision + 1
  /\ key' = [n \in Nodes |-> RepairedKey(n)]
  /\ status' = [n \in Nodes |-> IF n \in Done THEN status[n] ELSE "ready"]
  /\ runCert' = [check EXCEPT !.target =
       [n \in Nodes |-> IF MyAttempts(n) # {} THEN runCert.target[n] ELSE check.target[n]]]
  /\ adopted' = TRUE
  /\ runState' = "blocked"
  /\ pc' = "loop"
  /\ UNCHANGED <<draftVars, pubVars, check, factVars, run, attempts, late, round, remote, made, barred>>

AdoptRepair ==
  /\ pc = "repair"
  /\ revision < MaxRevision
  /\ Protects(check.intent)
  /\ revision' = revision + 1
  /\ key' = [n \in Nodes |-> RepairedKey(n)]
  /\ status' = [n \in Nodes |-> IF n \in Done THEN status[n] ELSE "ready"]
  /\ runCert' = check /\ adopted' = TRUE
  /\ runState' = "blocked"
  /\ pc' = "loop"
  /\ UNCHANGED <<draftVars, pubVars, check, factVars, run, attempts, late, round, remote, made, barred>>

-------------------------------------------------------------------------------
(* The environment *)

\* The call dies, loses its lease or fails to store; dispatch may still mark
\* the run on its way out.
Drop ==
  /\ pc # "idle"
  /\ pc' = "idle"
  /\ \/ UNCHANGED runState
     \/ /\ pc \in {"loop", "record", "sent", "asking"}
        /\ runState' = IF Unresolved # {} THEN "unknown" ELSE "blocked"
  /\ UNCHANGED <<draftVars, pubVars, checkVars, factVars, runVars, stepVars, attempts, late,
                 round, remote, made, barred>>

\* A write takes effect: once per key, on the observed version if the adapter
\* has a remote compare-and-set.
Execute(i) ==
  LET n == attempts[i].step IN
    /\ i \notin barred /\ ~KeyMade(i)
    /\ Cas => remote[n].rv = attempts[i].seen.rv
    /\ remote' = [remote EXCEPT ![n] = [value |-> attempts[i].target, rv |-> @.rv + 1]]
    /\ made' = made \cup {i}
    /\ UNCHANGED <<draftVars, pubVars, checkVars, factVars, runVars, runState, stepVars,
                   attempts, late, pc, round, barred>>

\* How often somebody else changed node n.
Drifts(n) == remote[n].rv - Cardinality({i \in made : attempts[i].step = n})

\* Another client changes a remote object.
External(n, v) ==
  /\ Drifts(n) < MaxDrift
  /\ v # remote[n].value
  /\ remote' = [remote EXCEPT ![n] = [value |-> v, rv |-> @.rv + 1]]
  /\ UNCHANGED <<draftVars, pubVars, checkVars, factVars, runVars, runState, stepVars, attempts,
                 late, pc, round, made, barred>>

-------------------------------------------------------------------------------

Call ==
  \/ \E new \in [Nodes -> Values \cup {Undeclared}] : Edit(new)
  \/ PreflightStart \/ PreflightInspect \/ PreflightFinish \/ PreflightFails
  \/ PublishRead \/ PublishAdopt
  \/ Resume \/ (\E v \in {"passed", "failed"} : Recheck(v)) \/ AdoptRepair
  \/ Drop

Dispatch ==
  \/ ReadBack \/ ReadBackFails \/ Record \/ Satisfy
  \/ (\E a \in {"applied", "unknown", "refused"} : Respond(a))
  \/ ReceiptLate \/ Finish

Environment ==
  \/ \E i \in DOMAIN attempts : Execute(i)
  \/ \E n \in Nodes, v \in Values : External(n, v)

Next == Call \/ Dispatch \/ Environment

Spec == Init /\ [][Next]_vars

-------------------------------------------------------------------------------
(* Properties *)

\* A Draft shown as published has, for every declared field, a confirmed fact of
\* the wanted value, however drift, noops, repairs and late receipts came
\* together; and nothing is on its way that could change it.
PublishedIsConfirmed ==
  published => /\ \A n \in Nodes : intent[n] \in {Undeclared, fact[n].value}
               /\ \A i \in DOMAIN attempts : i \notin made => i \in barred

\* What the engine believes of a remote object was true and is not overtaken: the
\* baseline a later change is compared with is never older than our own last write,
\* by whatever receipt or observation it came, and without a newer change by others
\* it is the remote value.
NotOlderThanWrites == \A i \in made : Open(i) \/ fact[attempts[i].step].rv > attempts[i].seen.rv
NotContradicted == \A n \in Nodes : fact[n].rv = remote[n].rv => fact[n].value = remote[n].value

FactsFollowWrites == NotOlderThanWrites /\ NotContradicted

\* A write only ever replaces what the author's check had observed, value and
\* version: the write of an old request never lands on top of a newer one.
OverwritesOnlyWhatWasChecked ==
  [][\A i \in made' \ made : remote[attempts[i].step] = attempts[i].seen]_vars

\* A request leaves only for what the author wants now, not for an intent edited
\* since the certificate was issued.
SendsCurrentIntentOnly ==
  [][Len(attempts') > Len(attempts) =>
       LET a == attempts'[Len(attempts')] IN intent[a.step] \in {Undeclared, a.target}]_vars

\* A key of a run never names two requests: payload and observed conditions are
\* the same, over any repairs.
KeyIdentifiesUpdate ==
  \A i, j \in DOMAIN attempts :
    SameKey(i, j) => /\ attempts[i].target = attempts[j].target
                     /\ attempts[i].seen = attempts[j].seen

-------------------------------------------------------------------------------
(* Liveness *)

Current(c) == c # NoCheck /\ c.version = version /\ c.rev = rev /\ c.pub = pub

\* A certificate worth trying; publish says not_started when the remote objects
\* have changed since.
Useful == /\ Current(check) /\ ~adopted
          /\ runState = "published" => remote = check.seen

\* What may go wrong, or start over what has not been used yet.
Fault ==
  \/ \E new \in [Nodes -> Values \cup {Undeclared}] : Edit(new)
  \/ \E n \in Nodes, v \in Values : External(n, v)
  \/ PreflightStart /\ (Current(round) \/ Useful)
  \/ PreflightFails /\ Current(round)
  \/ Recheck("failed") /\ Checkable /\ Compiles(intent, remote)
  \/ ReadBackFails /\ RunReadsAsChecked
  \/ Respond("unknown") \/ ReceiptLate
  \/ Drop /\ ~(ReadBackFails /\ ~RunReadsAsChecked)   \* this may be the same step

\* The steps of a call once begun.
Progress ==
  \/ PublishAdopt
  \/ ReadBack \/ (ReadBackFails /\ ~RunReadsAsChecked)
  \/ Record \/ Satisfy \/ Respond("applied") \/ Respond("refused") \/ Finish
  \/ Recheck("passed") \/ AdoptRepair
  \/ Recheck("failed") /\ ~(Checkable /\ Compiles(intent, remote))

\* While the Draft is not published, the caller preflights whenever it has no
\* usable certificate, publishes or resumes, and comes back until it finds the
\* Draft free.
Fairness ==
  /\ WF_vars(Progress)
  /\ WF_vars(\E i \in DOMAIN attempts : Execute(i))
  /\ WF_vars(PreflightInspect)
  /\ WF_vars(PreflightFails /\ ~Current(round))
  /\ SF_vars(PreflightFinish)
  /\ SF_vars(PreflightStart /\ ~published /\ ~Current(round) /\ ~Useful)
  /\ SF_vars(PublishRead /\ ~published)
  /\ SF_vars(Resume)

FairSpec == Spec /\ Fairness

RoomLeft == Len(attempts) < MaxAttempts /\ pub < MaxPub /\ revision < MaxRevision

\* Whatever drift, edits, lost receipts and abandoned calls came before: once they
\* cease, and every field is remotely as wanted or as confirmed, a caller that
\* preflights and publishes or resumes gets the Draft published.
UpdateEndsInPublication ==
  /\ <>[][~Fault]_vars
  /\ []RoomLeft
  /\ <>[](Compiles(intent, remote) /\ Protects(intent))
  => <>[]published
===============================================================================
