# stagedwrite: verification project

stagedwrite lets an author (a person or a language model) prepare a *Draft*, a graph of
nodes with three-state field intents, and publish it to a remote system through a
host-written *adapter* (executor). The hard promise is made by the managed engine: nothing
is created twice and nothing is lost although processes crash, leases expire, receipts get
lost, requests take effect late, and the Draft is edited between two attempts. These modules
state that promise, check it with TLC on small instances, and prove its core with TLAPS for
instances of every size. All paths below are relative to the repository root.

## 1. Inventory

| Component | State it keeps | Operations | Status |
|---|---|---|---|
| Draft lease (`src/managed/storage.ts`, `withLease` of `src/managed/engine.ts`) | one row per Draft: token, fence, expiry; per call a lease object, a renewal timer, an abort flag | acquire, renew, release, the fenced check at the head of `transact` | modelled: `DraftLease`, `FencedLock` |
| First publication (`engine.ts`, `types.ts`, `edit-guards.ts`, `execution/publication.ts`) | Draft version and intent, stored check and artifacts, the run with its steps, attempts and keys, bindings, late receipts | edit, preflight, publish, the dispatch loop, resume = reconcile + recheck + adopt, interruption | modelled: `ManagedRun`, `PublishOnce` |
| Update publication (`update-plan.ts`, `update-readback.ts`, `update-adoption.ts`, `update-evidence.ts`, `engine.ts`) | facts and their revision, update certificates, publication records, runs of kind `update` | inspect and compile, read back before adoption and before each dispatch, adopt (noop or run), confirm, satisfy, repair | partly: `UpdateRun`, `UpdateStorage` |
| Field intent (`src/edit/fields.ts`) | declarations per path, the reset baseline | set, remove, reset, with expansion of parents | partly: `FieldIntent` |
| Repair loop (`src/agent/repair.ts`) | budgets, counters, the run it goes on with, the latest reply | call a tool, judge its reply, ask the model, abort | modelled: `RepairLoop` |
| Agent tools (`src/agent/tools.ts`, `views.ts`) | none of their own | authorize, dispatch, map errors | partly, inside `RepairLoop` |
| Storage and state validation (`storage.ts`, `state.ts`, `snapshot.ts`) | the Draft row, late receipts included | `transact`, `appendLateFact`, `validateWrite` | partly: `DraftLease`, `ManagedRun`, and the validator in `UpdateStorage` |
| Preflight (`src/preflight/*`, `checks` of `engine.ts`) | the deadline, the verdict, what the inspection stored; check epoch | synchronous rules, asynchronous rules and the inspection under one deadline; two transactions around the verdict | modelled: `Preflight`; the transactions in `ManagedRun`, `UpdateRun` |
| Topology edits (`src/edit/topology.ts`, `evaluate-topology.ts`, `identity.ts`, `src/managed/prepare-edit.ts`) | nodes, edges, tombstones, the reset baseline; the candidate of a batch | append, replace a slot, clone, remove with owned closure, reset, commit or refuse the batch | partly: `Topology`, `TopologyProofs` |
| Edit protocol (`src/edit/protocol.ts`) | none | parse, refuse conflicting patches | partly: the forms of patches are inputs of `Topology` and `FieldIntent` |
| Plan validation, registry, types | none, or fixed at start-up | validate, digest | not modelled (pure data) |
| `integrations/`, `examples/`, `scripts/`, `tests/`, `docs/` | – | – | read as intent, not modelled |

**How they interact.** Every engine call on a Draft runs inside `withLease`; every change of
stored state is a `transact` that compares token, fence and expiry in the same SQLite
transaction. A preflight takes the lease twice, briefly, and computes its verdict in between
without it. `publish` and `resume` hold the lease while they call the adapter, but a paused
process may outlive it. Late receipts are the one thing written without the lease: `appendLateFact`
(`storage.ts:190`) adds them to the Draft's row, in a transaction of its own, where the next
reconciliation reads them. The repair loop sits
on top and sees only tool replies; other clients use the same engine.

**What is hard.** Workers that are paused past their lease and go on (`engine.ts:464`);
crashes between recording an attempt, sending it and committing its outcome (`:432`);
exceptions and timeouts that say nothing about the effect (`:458`); preflights that finish
after an edit (`:254`); repairs that must not reuse a key for other content (`:680`); remote
values that drift between check and write (`:415`); old conditional writes that land late
(`:454`); resets below removed parents (`edit/fields.ts:97`); resets of nodes that were moved
or removed over several batches (`edit/evaluate-topology.ts:101`), clones in a batch that has
changed their source (`:59`); rules that answer after the deadline (`preflight/async.ts:57`)
and an inspection that stores its result after it was given up (`managed/engine.ts:209`);
aborts right after a publish was answered (`agent/repair.ts:87`). `PROJECT.json` lists each with the properties aimed at it.

**What makes each component correct.**

- *Lease*: at most one valid holder, a lost lease stays lost, late calls end nobody else's
  lease, writes in the order of grants, the lease is free again after any crash.
- *First publication*: one effect per node; published means remotely as intended; a run
  called blocked hides no open request; every effect is bound or still to be reconciled;
  parents first; keys stand for one request; only checked input leaves; an abandoned run can
  always be resumed to its end.
- *Update*: published means confirmed; facts never fall behind our own writes; a write only
  replaces what was checked; requests carry the current intent; keys stand for one request
  *and* one set of conditions; updates end when faults end.
- *Storage validation*: the engine never writes what its own storage refuses (stated for
  everything after the first publication).
- *Topology*: a removal takes what it owns and nothing else, a reset undoes everything done
  to its node, a clone is the subtree as it was, an identity stands for one thing.
- *Preflight*: passed means that every rule answered, in time; a late answer grants nothing;
  rules share one budget; every check ends.
- *Field intent*: declarations stay consistent; a patch does what it says and nothing beside
  it; unrelated patches commute.
- *Repair loop*: the run handle is never lost; never a second run; success is confirmed;
  giving up is earned; the loop ends.

## 2. Modules

| Module | Lines of the code it stands for | Role |
|---|---|---|
| `FencedLock` | what `withLease` promises | abstract specification |
| `DraftLease` | `storage.ts`, `withLease` | lock row, renewal, transact; implements `FencedLock` |
| `PublishOnce` | what publishing promises | abstract specification |
| `ManagedRun`, `MCManagedRun` | `engine.ts` | first publication; implements `PublishOnce` |
| `UpdateRun` | `engine.ts`, `update-*.ts` | publishing changes |
| `UpdateStorage`, `MCUpdateStorage` | `state.ts`, `update-evidence.ts`, `update-adoption.ts`, `engine.ts` | what an update leaves in the storage, and the storage's validator |
| `FieldIntent`, `MCFieldIntent` | `edit/fields.ts` | field intents and patches |
| `Topology` | `edit/evaluate-topology.ts`, `topology.ts`, `identity.ts`, `prepare-edit.ts` | edits of structure, in batches |
| `Preflight`, `MCPreflight` | `preflight/check.ts`, `async.ts`, `checks` of `engine.ts` | one check and what it grants |
| `RepairLoop`, `MCRepairLoop` | `agent/repair.ts`, `agent/tools.ts` | the bounded repair loop |
| `DraftLeaseProofs`, `ManagedRunProofs`, `UpdateRunProofs`, `UpdateStorageProofs`, `FieldIntentProofs`, `PreflightProofs`, `RepairLoopProofs`, `TopologyProofs` | – | theorems |

Definitions marked "Mutant:" in a module are plausible bugs (a dropped guard, a forgotten
reset). No specification uses them; each shows that some property would notice.

### DraftLease
`row` is the SQLite row, with the time left instead of a date; `fence[w]`, `phase[w]`,
`aborted[w]`, `renewal[w]` are one call of `withLease`. A token is a fresh UUID, so the
model names the worker and compares the fence beside it, as the SQL does. `Tick` passes time
for everybody; a paused worker takes no step. `RenewCall`, `RenewReturn` and `RenewError`
separate the renewal from its answer, so that an answer can come after the expiry. `Transact`
is any guarded write. `FencedLock` is the interface: grants, ends, writes by the owner only.

### ManagedRun
One action is one transaction, or one adapter call, or its answer. The lease appears as
`holder`, which is what `DraftLease` implements; a lease, once lost, is never regained within
its call (`LostIsForever`). The worker's program counter `pc[w]` follows the awaits of
`dispatchSteps` and `resume`; `cur`, `answer` and `round` are what it holds in local
variables across them. `wire`, `made` and `barred` are the remote system: requests that may
still take effect, effects, and requests the adapter has proved to be without effect.

| Code | Action |
|---|---|
| `edit` | `Edit` |
| `runCheck`, called by `preflight` | `PreflightStart`, `PreflightFinish` |
| `publish`, first claim | `PublishClaim` |
| `dispatchSteps` | `Record`, `Send`, `SkipSend`, `ApplyReturns`, `Commit`, `Finish` |
| its catch blocks | `CommitFails`, `DispatchThrows` |
| `resume` | `Resume`, `ReconcileReturns`, `RecheckStart`, `RecheckFinish`, `Block`, `AdoptRepair`, `ResumeThrows` |
| process, lease, remote | `Crash`, `Expire`, `Execute` |

`checkEpoch` is abstracted: a new round sets the other workers' rounds to `NoCheck`, which
is what a stale epoch makes of them. `check` keeps only a check that passed, since no other
grants anything. A failing commit, its late receipt and the marking of the interruption are
one action: they run in one catch block, and every part may fail, which leaves out nothing
but the moments between. Values stand for the requests of nodes; node and dependency
references inside an input are left out, since the topology is fixed while a run is active.

The adapter is bound by the contract in `src/types.ts`: `applied` is said only of an effect,
`not_applied` and `no_effect` only of a request that has none and never will, and a key has
one effect. Adapters that break it (two references for one key, conflicting late receipts)
are outside the model; the code throws `REMOTE_BINDING_CONFLICT` or `ATTEMPT_CONFLICT` there.

### UpdateRun
Starts from a published Draft. `pc` is the one call that holds the lease (the interleaving of
holders is `ManagedRun`'s subject); preflights run beside it. Any recorded request may take
effect at any later time, so a sender that was paused or died needs no action of its own.
`remote[n]` has a value and an opaque version; `External` is another client. `Cas` says
whether the adapter has a remote compare-and-set; without one the documentation asks for the
engine to be the only writer, which `update_single_writer` instantiates (`MaxDrift = 0`).
A certificate is represented by its content. Nodes have one managed field. If a node this
run has completed drifts, the run blocks until the remote value is back: this is how the code
is designed (`update.completed_drift`), and the liveness property excludes it by asking that
every field be remotely as wanted or as last confirmed.

### UpdateStorage
`state.ts` is the storage's own judge: `validateWrite` throws on a write it finds illegal, inside
the engine's transaction. Were a write of the engine refused, it would be refused again at every
resume. To say that none is, the module composes each action of `UpdateRun` with the records it
writes beside what `UpdateRun` needs to go on, and translates the validator over them.

| Code | Definition |
|---|---|
| `publications` with their artifacts, `run.artifactId` | `publications`, `artifact` |
| `remoteFacts`, `latestFactByNode` | `facts`, `latest` |
| `attempt.request.update`, `attempt.outcome` | `source`, `receipt` |
| declaration, `satisfaction`, `remoteRef` of a step | `plan`, `satisfaction`, `remoteRef` |
| `adoptUpdate`, `updateRequest`, `satisfyNoop`, the commit of an outcome, the repair in `resume` | `StorePublication`, `StoreRequest`, `StoreSatisfaction`, `StoreOutcome`, `StoreRepair` |
| `validateHistory` | `HistoryIsKept` = `RecordsAreKept`, `AttemptsAreKept`, `RunsAreKept` |
| `validateStateContent` | `ContentIsValid`: inputs of runs, requests and receipts (`validateUpdateAttempt`, `updateOutcome`), satisfied steps (`validateSatisfiedSlot`), evidence of published runs, of facts, of latest facts and of publications |
| `validateTransition` | `TransitionIsLegal`: new runs, the resource revision, pointers to facts |

An artifact is named by the place of its publication record, since those never adopted are not
pointed to; a fact id is made of its source, as in the code. The refusal `FACT_IMMUTABLE` of the
code is not a guard here: an id in use would be overwritten, and `HistoryIsKept` would be
violated. Left out are what holds by the shape of the model (identities, bindings, which an
update does not change, one target, the recompilation of an artifact from what it pins), the
records of runs before the current one, which the validator demands to be unchanged and which no
action reaches, and conflicts between Drafts. `WritesAreAccepted` puts the three parts together.

### FieldIntent
Declarations are a partial function from paths: an object is declared by its presence, its
content by declarations of its children, and the plain value is their projection. What the
code builds by recursion (`declareFields`, `projectDeclarations`) is a recursive function over
the paths below one; its loop over the prefixes of a path is stated by its result: all of them
present (`Expand`), and the children of those that were removed, or under a removed one,
removed each by itself (`Cleared`). Patches
range over the values the schema allows, because any other refuses the whole batch. A batch
is a composition of patches, and `UnrelatedPatchesCommute` is about it. Worth knowing: a
reset of `/a/b` where `/a` is undeclared leaves `/a` declared as an empty object, because the
code materialises parents before it looks at the operation; the model does the same.

### Topology
`draft` is the stored graph with its tombstones, `cand` the candidate of the batch in
evaluation, `baseline` what resets go back to, `adopted` the graph of the current run. A batch
is a run of `Evaluate` steps, one per graph patch, ended by `Commit` or `Refuse`; the
intermediate candidates are states, since the hazards lie in what later patches see of earlier
ones. An operator that may fail returns the set of its results, so a failing part empties the
whole. `Commit` includes the field patches (all of them as "edited", the rest is
`FieldIntent`'s) and the rule that a run in progress freezes the structure.

| Code | Definition |
|---|---|
| `validateTopology`, `removableOwnedClosures` | `Valid`, `OwnedClosure` |
| `eraseMany`, `retireEdge`, `addEdge`, `existing` | `Erase`, `Retire`, `AddEdges`, `Existing` |
| `createIdentityAllocator` | `UnusedNodes`, `UnusedEdges`, `AddNodes` |
| `clone`, `expand`, `reset` | `Clone` with `CopyOf`, `Expand` with `New`, `Reset` |
| `evaluateTopology`: remove, set on a parent, set of a slot | `RemoveNode`, `AppendTo`, `Replace` |
| `prepareEdit`, `edit` | `Commit`, `Refuse` |
| `initializeTopology` | `Init` |

A fresh identity is some unused number: the code draws UUIDs, and which one is picked is the
same up to renaming. Nodes and edges that one input makes are made together, since nothing
between them depends on the order; inputs of one patch follow one another (`ExpandAll`).
`cand.copies` is what the code returns as the sources of clones. The properties do not use the code's worklist: `Below` defines what a
node owns as what every closed set around it has in common. Node and endpoint types, which
can only refuse more, are left out, and a new node names one link of its own at most. Worth
knowing: two baseline nodes that refer to each other and were removed together cannot be
reset one by one, in either order, because a reset demands that what the node refers to is there.

### Preflight
One call of `checks`, from the snapshot to its result. `pc` is the place in it; `told[r]` is
what a rule answered before it was given up. `open` are the rules that were called and have
not answered: a rule that timed out stays open, and `LateAnswer` lets it answer at any later
moment, even after the check has returned. The inspection of an update is one more rule
(`Inspector`), whose callback stores `compilation` outside the promise that is raced with the
timer; so a late one stores it too. `now` is a clock of `Budget` ticks; a rule may hold the
event loop past the deadline and still win the race, and a timer may fire a tick early, since
its delay is cut to whole milliseconds: that is why the code sets the deadline to zero on a
timeout instead of trusting the clock.

### RepairLoop
The loop is sequential; what interleaves is the rest of the world: `OtherEdits`,
`OtherPublishes`, `Abort`, and replies that are errors. The engine is abstract here: its
state is the version, the latest run and the version last published, and a call is atomic
when it answers. A signature stands for nodes and diagnostics of a preview. `history` is the
trace the result carries; the properties speak about it rather than about the counters.

## 3. Runs

| Run | Instance | Distinct states | Question |
|---|---|---|---|
| `draft_lease` | 3 workers, lease of 2 ticks, 3 fences | 98 785 | Is the lease a fenced lock, with pauses, renewals, late releases and crashes, and free again whatever the caller does? |
| `run_safety` | 2 workers, 2 nodes, 1 edit, 3 attempts | 2 153 156 | Is anything created twice, lost, misordered, or wrongly called published or blocked? |
| `run_repair` | 2 workers, 1 node, 2 edits, 3 attempts, one value the rules reject | 1 442 913 | Do keys, checks and history survive repairs back and forth; is it `PublishOnce`? |
| `run_liveness` | 2 workers, 1 node, 1 edit, 2 attempts | 387 632 | Does resuming end in publication, from any history that does not need a third request? |
| `update_safety` (`MCUpdateStorage`) | 2 nodes, drift 1, 1 edit, 3 attempts, one repair, values interchangeable | 1 368 434 | Do facts, publications and noops stay true; does the storage accept every write? |
| `update_repair` | 1 node, drift 2, 2 edits, 3 attempts, two repairs | 400 016 | Are keys and requests those of the current certificate; do updates end? |
| `update_single_writer` | 1 node, 3 values, no compare-and-set, no drift | 134 754 | Can an old write overwrite a newer one? |
| `fields` | a nested object two levels deep, every patch, every pair of patches | 5 551 | Are the edit operators right in every reachable state? |
| `topology` | 2 nodes at birth, 4 identities, an owning and a single-target slot, 2 patches in one or two batches, a publication between | 333 251 | Are removals, resets, clones and identities right in every reachable state? |
| `topology_refs` | the same | stops at the first violation | Is a bare ref in a replaced slot associated, as documented? It is not: see section 5. |
| `preflight` | 2 synchronous and 2 asynchronous rules, the inspection, 3 ticks | 138 848 | Can a check pass, or grant, on an answer that is late, missing or refused; does it end? |
| `repair_loop` | 3 rounds, 6 calls, 3 versions, 2 diagnoses | 721 392 | Are the run, success and giving up right under aborts and other clients; does it end? |

**Bounds.** `MaxVersion` bounds edits, `MaxAttempts` recorded requests, `MaxFence` grants,
`MaxPub` and `MaxRevision` publications and repairs of an update, `MaxDrift` changes by
others, `MaxCalls` and `MaxRounds` are the loop's own budgets, `MaxNode` and `MaxEdge`
identities, `MaxWork` stored batches and patches of an open one, `Budget` the ticks of a
preflight. Two workers are enough for a
stale and a current holder of the same request; two nodes for a parent, a child and an applied step
beside an open one; three attempts for a refused, a lost and a final request; two edits for a
payload that changes and comes back, the case that tempts to reuse a key; two nodes and two patches for an owner with a child
that is moved, cloned, removed or reset after it was changed; two asynchronous rules and the
inspection for one that fails before, between or after others. Every property has
a mutant of the code that breaks it within these bounds. Symmetry is used for workers and for
interchangeable values, never in a liveness run. `CHECK_DEADLOCK FALSE` is set where the
system really may stop: a published Draft, exhausted bounds, a loop that has returned.

**Fairness.** *Lease*: time passes, and calls end or crash; a renewal is assumed to return,
nobody is assumed to release. *Run*: what a started call does by itself is weakly fair, since
the event loop goes on; the remote side eventually performs what was sent; an unused lease
expires; and somebody calls `resume` again and again (strongly fair, because the Draft may be
busy), which is what the documentation asks of the host. `Fault` collects what may go wrong,
and the property assumes that it goes wrong only finitely often, that the bound on attempts
never stops a request to be made (`RoomLeft`: a history with two of them counts, unless it
needs a third), and that the intent stays acceptable. *Update*: the same, with a caller who preflights while
nothing useful is certified and publishes or resumes. *Repair loop*: the loop runs on, tool
calls are answered, the timer fires; the model is not assumed to answer. *Preflight*: the
event loop goes on, time passes, timers fire; no rule is assumed to answer, ever, or to
respect the abort signal.

## 4. Proofs

Everything in section 4 holds for any number of workers, nodes, values, edits, attempts and
rules.

**DraftLeaseProofs** (from `LeaseAssumption`): types; `LeaseInv`, which is inductive with the
types and says why comparing token and fence suffices: the row never runs ahead of the
grants, and a row with a token carries the fence of its worker's lease object. From it follow
the action properties and the implementation of `FencedLock`.

**ManagedRunProofs** (from `RunAssumption`). The properties are not inductive by themselves:
whether an effect can be doubled depends on what an idle, perhaps paused worker has in its
hands. `IInv` adds:

- `HandsAreTrue`: what a worker holds is a recorded attempt, and the answer it is about to
  commit is true of the remote side;
- `RemoteIsKnown`: effects and sent requests are recorded attempts, and what was refused has
  no effect;
- `OneRequestOpen`: at most one attempt is open, the last one, of an unapplied step. This is
  the heart: it turns "reconcile before you send" into "no second effect";
- `HistoryIsTrue`: a status says what happened remotely, and bindings are applied attempts
  that carry the adopted value;
- `KeysAreCurrent`: the key in use stands for the current payload, so an open request, however
  old, asks for what is adopted now;
- `LeaseProtects`: while a call is between reconciliation and adoption under its lease,
  nothing is open;
- `ArtifactsAreFresh`: a check of the current version is a check of the current intent and
  passed the rules; `PlanOrder`, `RunHasIntent`, `PublishedIsCurrent`.

The proof has one lemma per part and one step per action; steps that leave the history alone
share `HistoryUnchanged`. `NoDuplicateCreation`, `NothingIsOrphaned`, `PublicationIsCorrect`,
`BlockedIsSafeToRepair`, `ParentsComeFirst`, `RulesAreNotBypassed` and `KeysAreNeverReused`
follow from `IInv`, `HistoryOnlyGrows` from `IInv` and the step.

`ImplementsPublishOnce` maps every step of the engine to a step of
`PublishOnce` or to none. The interesting case is `Execute`: a request that takes effect is
open, hence the last, hence carries the current key and therefore the adopted value, and its
node does not exist yet. `LostLeaseWritesNothing` shows that a worker changes
nothing durable while another one holds the lease.

**UpdateRunProofs** (from `UpdateAssumption`), for any number of nodes, values, other clients'
changes, edits, requests and repairs. `UInv` adds to what the runs check:

- `ChecksAreSound`: a round, a check and the run's certificate know no more than the Draft
  does; what they say of the present version is true, and what they observed is no newer than
  the object, true if as new (`Seen`), and no older than a fact of the same resource revision.
  Versions only grow, so these survive every step;
- `CallsKnow`, `RunsAreWhole`: what a call has made sure of where it stands, and that a run in
  progress has a certificate while a published one is complete;
- `OneRequestOpen`, `HistoryIsTrue`, `KeysAreCurrent`: as for the first publication, with the
  observed conditions as part of what a key stands for;
- `FactsAreTrue`: facts, conditions and effects are true of the objects in the same sense, and
  the observation a step still to be done rests on is not older than its fact. This makes a
  confirmed receipt a newer fact, never an older one;
- `IntentIsConfirmed`, `SingleWriter`: without a compare-and-set the version of an object counts
  the engine's own writes, so nobody can have moved it between the readback and the effect.

The proof has one lemma per part. Steps are first sorted into those that leave the history,
the facts and the objects alone (`Quiet`) and the eight that do not (`Loud`), each with a
lemma that says what it does. All safety properties stated in `UpdateRun` follow, the action
properties from `UInv` and the step.

**UpdateStorageProofs** (from `UpdateAssumption`). A step of `StoredSpec` is a step of
`UpdateRun` or none, so `UInv` holds here too. Beside it, `RecordInv` says of the records what
the next write builds on: a run's artifact is the publication of its certificate
(`RunHasItsInput`); what a request carries is what its artifact declares, and an open one is of
the artifact that declares its step now (`RequestsHaveArtifacts`, `RequestsAreTraced`,
`StepsAreDeclared`); facts, pointers, satisfied steps and publications have their evidence. It
holds whether or not a run is published. That a completed run has its evidence, which the
validator demands only at the end, follows: a step that is applied was applied by the last
attempt under its key. That fact ids are never used twice follows from where they come: a new
attempt, a new publication, or a step that was not satisfied by its artifact before.
`RecordsAreSound` is the content at every moment, `StorageAccepts` is `WritesAreAccepted`.

**PreflightProofs** (from `PreflightAssumption`), for any rules and any budget. That a passed
check is one every rule answered cannot be seen from the end: `Inv` says at each moment that
either something is noted against the check or every rule behind the present one has answered
"clean" (`Behind`); that a passed verdict has nothing noted against it (`Judged`), which is
what allows the inspection to start afresh; where the check is (`Place`), so that an update
cannot be passed without its inspection; that a grant is the last thing that happens
(`Rewarded`); and that no rule has been given up while there is time left (`Shared`).
`PassedIsAnswered`, `LateIsWorthless` and `OneBudget` follow.

**RepairLoopProofs** (from `LoopAssumption`), for any budgets, diagnoses, edits and other
clients. The engine's part comes first: `EngineOK` says that a run is claimed only for a
version not yet published, so that there are never more runs than versions, and every step
moves the engine in one of five ways (`Moves`), none of which takes a publication back. The
loop's part is about `Handle`, the run a result would name at this moment: every reply of the
trace that names a run names this one, and from a call on it is the remembered run
(`HandleOK`). It is inductive because a publish is called only with nothing remembered, and a
resume is answered about its own run; a check of a version cannot overwrite what a
publication said, since `Remember` comes first. `SuccessOK` says that a reply which confirms
a publication stays true whatever the others do, and `LimitsOK` what the counters are while
the loop goes on. Steps are sorted by kind, not by action: an answer (`AnswerKeeps`), a step
without one (`MoveKeeps`), a step of the world (`WaitKeeps`). `Typing`, `RunIsKept`, `OneRun`
and `SuccessIsTrue` follow.

That giving up is earned is a fact about the trace as a whole, while the loop has only a
counter and the signature it compares with. `ProgressOK` ties them: the reply the loop goes by
is the one on show at the end of the trace, and every edit in it answers what was on show
(`TraceOK`); after an edit the remembered signature is the one that was on show before it, and
once compared, nothing but the next edit is called (`LookedAt`); a counter of two means two
edits of the trace, both accepted, from which on every accepted edit that was compared was
fruitless (`StallsOK`); and a loop gives up for want of progress only then (`ReasonOK`).
`GivingUpIsEarned` follows: the trace shows what the counter counted.

**FieldIntentProofs** (from `SchemaAssumption`: the schema is a finite tree), for any schema
and any scalars. An edit is looked at path by path: `EditedIs` says of every path what is
declared there afterwards. The inductive invariant is small, `IntentOK` of the intent and of
the baseline: declarations at registered paths, each with a present object over it. That it
is kept (`EditedOK`) rests on the order of the paths: where a removed parent comes back, all
that was over it comes back too, and what is cleared beside it had nothing declared below.
From there, `EditsCannotBreak`; `OrderIsFree`, because two edits at unrelated paths leave the
same at every path in either order (`EditedTwice`), which needs that the first one neither
removes nor brings back a parent of the second except those they share (`GoneStays`,
`NotGoneOnTheWay`); and `PatchesAreExact`. Its frame is `BesideIsKept`; for set, the value is
followed down into declarations and up again into the projection (`DeclaredProjects`). What
the model defines by recursion over the tree is first shown to exist and to be what its
equation says (`PartsAre`, `ProjectIs`, `LegalIs`). The induction is on the length of paths,
said as the impossibility of a least counterexample (`Least`), since the library's induction
theorems take an operator.

**TopologyProofs** (from `TopologyAssumption`), for any slots, births, identities and batches.
The invariant is about what a candidate may say of identities (`Fits`): an edge identity is one
edge in the candidate, the stored graph and the baseline; nothing is both there and retired;
what the stored graph has or has retired is still there or retired. Beside it, `Returned`:
before the first run only the baseline brings anything back, and `Frozen`: a run in progress
holds the structure. Every operation of the evaluator keeps this (the lemmas `...OK`), a reset
too, although it takes edges out of retirement: they are the baseline's, and the allocator
never gave their identities away. `IdentitiesAreKept` follows, `ResetsRestore`, and
`ResetIsNeverOccupied`, which says that the code's refusal "already occupied" is never reached.

That a patch takes what is owned (`PatchesTakeTheOwned`) needs that the worklist ends with the
smallest closed set (`ClosureIs`): each round that finds a node follows an owning edge that no
round before it did, so there are no more rounds than owning edges. An input only adds nodes
and edges that start at them (`Extends`), hence what is owned by former targets of a slot is
the same after the new ones are made and the old edges retired (`ClosureKept`); here the
acyclicity of the stored graph is used, and by it the parent itself is never taken.
`ClonesAreCopies` follows the names of the copies through to the candidate (`CopyOfIs`); that
earlier patches of the batch do not matter, because the source is read from the stored graph.

The types and `LeaseInv` of the lease, the writes in order (`WritesInOrder`), the types of the
run and those of a check are proved only, and not listed in a run again; so is
`ResetIsNeverOccupied`.

**Only model-checked**: all liveness, since fairness and `ENABLED` are beyond the prover. Every
safety and action property of the passing runs is stated by a theorem.

## 5. A disagreement with the documentation

`docs/design/024-three-state-op-contract.md:35` says of a replaced slot that a bare ref
associates a node that existed before the request and still exists in the candidate. Let P own
A through a slot, and replace that slot by one new node that itself owns `{ref: A}` (wrapping a
child). `expand` links the new node to A; then the old edge is retired and `eraseMany` takes A,
because it is no longer listed in the slot, together with the edge just made
(`edit/evaluate-topology.ts:134-137`). The batch is accepted, the new node has no child and A
is gone. `topology_refs` finds it in one patch. Line 37 of that document, which has a detached
owned subtree reclaimed at once, may be meant to win; then the request should be refused, as
the document asks elsewhere, rather than accepted without A.

## 6. Not modelled, and why

- SQLite itself, wall clocks that jump, and file corruption: a transaction is atomic and
  time runs forward.
- Adapters that break their contract, and hosts that change rules or definitions under a run
  (the code refuses on digests before it does anything).
- Wording, diagnostics, digests, schemas and snapshots: data without control.
- Nodes with several managed fields in `UpdateRun`; references to other nodes in inputs.
- `create` as an action: its result is the initial state of `Topology` and `FieldIntent`;
  `close` changes nothing shared.
- The storage validator over the writes of the first publication: they know no
  satisfied steps and no earlier run, and their facts come with the outcome of a creation only;
  that they keep attempts is `HistoryIsImmutable`.
- Conflicts between Drafts (one remote object or run identity claimed by two): each model has
  one Draft, and the identities are fresh.
- `validatePlan` and the definition registry: pure checks of host-written input, without state.
- Several links in one new node of a topology patch, and node types: the same steps repeated.

## 7. Plan

Built so far, in this order: lease, first publication, update, field intents, repair loop,
proofs of the lease and the first publication; topology, preflight with its proofs, the
storage and its validator with their proofs; proofs of the repair loop and of the updates;
proofs about the trace of the repair loop, about field intents and about topology edits. What is left:

1. `UpdateRun` with two managed fields per node, so that noop and update meet in one node.
2. An abstract `PublishChanges` for updates, and its refinement by `UpdateRun`.
