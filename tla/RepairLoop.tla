------------------------------ MODULE RepairLoop -------------------------------
(***************************************************************************)
(* repairDraft (agent/repair.ts): the bounded loop that lets a model repair *)
(* one Draft through the agent tools (agent/tools.ts).                      *)
(*                                                                         *)
(* The loop is sequential; what interleaves with it is the rest of the     *)
(* world: other clients edit and publish the same Draft, the model answers  *)
(* late, badly or never, and the abort signal (the caller's or the timer's) *)
(* comes at any moment.  An action runs up to the next await.  The engine   *)
(* is abstract here (ManagedRun and UpdateRun detail it): a tool call is    *)
(* atomic when it answers, and may fail with or without its effect.         *)
(*                                                                         *)
(* Data: a signature stands for the preview's nodes with the diagnostics;   *)
(* Clean is the one without diagnostics.  Reports and wording are left out. *)
(***************************************************************************)
EXTENDS Naturals, Sequences

CONSTANTS MaxRounds, MaxCalls,     \* the loop's own budgets
          Signatures, Clean,
          MaxVersion               \* bound: edits of the Draft

ASSUME LoopAssumption ==
  /\ MaxRounds \in Nat \ {0} /\ MaxCalls \in Nat \ {0} /\ MaxVersion \in Nat \ {0}
  /\ Clean \in Signatures

VARIABLES
  \* the engine's Draft
  version,
  run,                  \* its latest run: [id, state, version]; earlier ones are published
  live,                 \* the version last published, 0 for none
  \* repairDraft
  pc, call,             \* where it waits, and the tool it called
  count, used, rejects, stalls, lastSignature, afterEdit,
  runId,                \* the run the loop goes on with, 0 for none
  current, history,
  result,
  \* the abort signal
  aborted

engineVars == <<version, run, live>>
counters == <<used, rejects, stalls, lastSignature, afterEdit>>
vars == <<engineVars, pc, call, count, counters, runId, current, history, result, aborted>>

-------------------------------------------------------------------------------

Tools == {"preflight", "publish", "resume", "edit"}
None == "none"
NoReply == [kind |-> "none"]
NoResult == [status |-> "none"]

CheckStatus == {"passed", "blocked", "pending", "incomplete"}
RunStates == {"running", "unknown", "blocked", "published"}
Versions == 1..MaxVersion
RunIds == 1..MaxVersion

\* What the preflight tool returns; where nobody looks at the signature it is Clean.
Check == [kind : {"check"}, status : CheckStatus, version : Versions,
          signature : Signatures, certificate : BOOLEAN]

\* What publish and resume return: version is that of the preview, and check the
\* outcome of the preflight a resume stopped at.
Publication == [kind : {"publication"}, state : RunStates, version : Versions,
                signature : Signatures, run : RunIds \cup {0}, isCurrent : BOOLEAN,
                check : CheckStatus \cup {None}]

\* A tool call as the trace keeps it.
Event == [tool : Tools, ok : BOOLEAN, reply : Check \cup Publication \cup {NoReply}]

IsPublication(reply) == reply.kind = "publication"

TypeOK ==
  /\ version \in Versions /\ live \in 0..MaxVersion
  /\ run \in [id : RunIds \cup {0}, state : {"none", "open", "published"}, version : Versions]
  /\ pc \in {"start", "calling", "loop", "deciding", "done"} /\ call \in Tools
  /\ count \in 0..(MaxCalls + 1) /\ used \in 0..(MaxRounds + 1)
  /\ rejects \in 0..3 /\ stalls \in 0..2 /\ afterEdit \in BOOLEAN
  /\ lastSignature \in Signatures \cup {None}
  /\ runId \in RunIds \cup {0} /\ aborted \in BOOLEAN
  /\ current \in Check \cup Publication \cup {NoReply}
  /\ \A i \in DOMAIN history : history[i] \in Event
  /\ result # NoResult => result.status \in {"published", "waiting", "needs_input", "stopped"}

-------------------------------------------------------------------------------
(* Ending, and calling a tool *)

\* Mutant: the run of the latest reply is overlooked.
StoredRun(known, reply) == known

\* The run a result names: the one remembered, else that of the latest reply.
HandedBack(known, reply) ==
  IF known = 0 /\ IsPublication(reply) THEN reply.run ELSE known

Return(status, reason) ==
  /\ pc' = "done"
  /\ result' = [status |-> status, reason |-> reason, runId |-> HandedBack(runId', current')]
  /\ UNCHANGED <<call, count>>

Cancelled == Return("stopped", "cancelled_or_timed_out")

\* Mutant: the call budget is not enforced.
BeginAnyway(tool) ==
  \/ aborted /\ Cancelled
  \/ /\ ~aborted
     /\ count' = count + 1 /\ call' = tool /\ pc' = "calling" /\ UNCHANGED result

\* guard() and the budget of calls; then the answer is awaited.
Begin(tool) ==
  \/ aborted /\ Cancelled
  \/ ~aborted /\ count >= MaxCalls /\ Return("stopped", "tool_budget")
  \/ /\ ~aborted /\ count < MaxCalls
     /\ count' = count + 1 /\ call' = tool /\ pc' = "calling" /\ UNCHANGED result

Init ==
  /\ version = 1 /\ live = 0
  /\ \E open \in BOOLEAN :
       /\ run = [id |-> IF open THEN 1 ELSE 0, state |-> IF open THEN "open" ELSE "none", version |-> 1]
       /\ runId \in {0, run.id}                  \* options.runId
  /\ pc = "start" /\ call = "preflight" /\ count = 0
  /\ used = 0 /\ rejects = 0 /\ stalls = 0 /\ lastSignature = None /\ afterEdit = FALSE
  /\ current = NoReply /\ history = <<>> /\ result = NoResult
  /\ aborted = FALSE

Start ==
  /\ pc = "start"
  /\ UNCHANGED <<engineVars, counters, runId, current, history, aborted>>
  /\ Begin(IF runId # 0 THEN "resume" ELSE "preflight")

-------------------------------------------------------------------------------
(* The loop: what to do with the latest reply *)

\* Statuses of a check that only time resolves.
Unfinished == {"pending", "incomplete"}

\* Mutant: a publication of an older intent counts as success.
SomethingPublished == IsPublication(current) /\ current.state = "published"

Confirmed == IsPublication(current) /\ current.state = "published" /\ current.isCurrent

InFlight == IsPublication(current) /\ current.state \in {"unknown", "running"}

Awaits == IF IsPublication(current) THEN current.check ELSE current.status

Historical == IsPublication(current) /\ current.state = "published"

Passed == ~IsPublication(current) /\ current.status = "passed"

\* Mutant: whatever is diagnosed twice counts as a fruitless edit.
StallsAnyhow == IF current.signature = lastSignature THEN stalls + 1 ELSE 0

\* How many edits in a row left nodes and diagnostics as they were.
Stalls ==
  IF ~afterEdit THEN stalls ELSE IF current.signature = lastSignature THEN stalls + 1 ELSE 0

\* The model is asked, as long as asking makes sense.
Diagnose ==
  \/ /\ current.signature = Clean
     /\ Return("stopped", "no_actionable_diagnostics")
     /\ UNCHANGED counters
  \/ /\ current.signature # Clean
     /\ stalls' = Stalls /\ afterEdit' = FALSE
     /\ UNCHANGED <<rejects, lastSignature>>
     /\ \/ stalls' >= 2 /\ Return("stopped", "no_progress") /\ UNCHANGED used
        \/ stalls' < 2 /\ used >= MaxRounds /\ used' = used + 1 /\ Return("stopped", "round_budget")
        \/ /\ stalls' < 2 /\ used < MaxRounds /\ used' = used + 1
           /\ pc' = "deciding" /\ UNCHANGED <<call, count, result>>

\* Mutant: the run is not remembered.
RememberNothing == UNCHANGED runId

\* The run of a publication is remembered.
Remember ==
  runId' = IF IsPublication(current) /\ current.run # 0 THEN current.run ELSE runId

\* A published run answers for itself before anything else does.
Act ==
  \/ Confirmed /\ Return("published", "engine_confirmed") /\ UNCHANGED counters
  \/ InFlight /\ Return("waiting", "resume_same_run") /\ UNCHANGED counters
  \/ /\ ~Confirmed /\ ~InFlight
     /\ \/ Awaits \in Unfinished /\ Return("waiting", Awaits) /\ UNCHANGED counters
        \/ /\ Awaits \notin Unfinished
           /\ \/ Historical /\ Return("stopped", "historical_run_not_current") /\ UNCHANGED counters
              \/ /\ Passed /\ ~current.certificate
                 /\ Return("stopped", "no_execution_certificate") /\ UNCHANGED counters
              \/ /\ Passed /\ current.certificate
                 /\ Begin(IF runId # 0 THEN "resume" ELSE "publish") /\ UNCHANGED counters
              \/ ~Historical /\ ~Passed /\ Diagnose

Look ==
  /\ pc = "loop"
  /\ UNCHANGED <<engineVars, current, history, aborted>>
  /\ \/ aborted /\ UNCHANGED <<runId, counters>> /\ Cancelled
     \/ ~aborted /\ Remember /\ Act

-------------------------------------------------------------------------------
(* The model *)

\* Invalid output and rejected batches share one limit.
Rejected ==
  /\ rejects' = rejects + 1
  /\ UNCHANGED <<used, stalls, lastSignature, afterEdit>>
  /\ \/ rejects + 1 >= 3 /\ Return("stopped", "rejection_limit")
     \/ rejects + 1 < 3 /\ pc' = "loop" /\ UNCHANGED <<call, count, result>>

\* The model (or its provider) answers, before the abort.
Decide(decision) ==
  /\ pc = "deciding" /\ ~aborted
  /\ UNCHANGED <<engineVars, runId, current, history, aborted>>
  /\ \/ decision = "invalid" /\ Rejected
     \/ decision = "ask" /\ Return("needs_input", "ask") /\ UNCHANGED counters
     \/ decision = "stop" /\ Return("stopped", "model") /\ UNCHANGED counters
     \/ decision = "throw" /\ Return("stopped", "host_or_model_error") /\ UNCHANGED counters
     \/ decision = "patch" /\ Begin("edit") /\ UNCHANGED counters

\* Mutant: the wait for the model is not interrupted.
WaitForTheModel == FALSE /\ UNCHANGED vars

\* The abort ends the wait for the model; what it says later is not heard.
Interrupt ==
  /\ pc = "deciding" /\ aborted
  /\ UNCHANGED <<engineVars, counters, runId, current, history, aborted>>
  /\ Cancelled

-------------------------------------------------------------------------------
(* Tool calls *)

Answered(reply) ==
  /\ history' = Append(history, [tool |-> call, ok |-> TRUE, reply |-> reply])
  /\ current' = reply
  /\ pc' = "loop"
  /\ UNCHANGED <<call, count, counters, runId, result, aborted>>

Refused == Append(history, [tool |-> call, ok |-> FALSE, reply |-> NoReply])

\* An error answer of anything but an edit.
Failed ==
  /\ history' = Refused
  /\ UNCHANGED <<counters, runId, current, aborted>>
  /\ Return("stopped", "tool_error")

PreflightReturns ==
  /\ pc = "calling" /\ call = "preflight"
  /\ UNCHANGED engineVars
  /\ \/ Failed
     \/ \E c \in [kind : {"check"}, status : CheckStatus, version : {version},
                  signature : Signatures, certificate : BOOLEAN] :
          /\ c.certificate => c.status = "passed"
          /\ c.status = "blocked" <=> c.signature # Clean
          /\ Answered(c)

\* Run id is at version v, published or not.
RunAt(id, v) ==
  \/ run' = [id |-> id, state |-> "published", version |-> v] /\ live' = v
  \/ run' = [id |-> id, state |-> "open", version |-> v] /\ UNCHANGED live

\* Where a publish may start a run, for the version that was checked.
NewRun ==
  /\ run.state # "open" /\ live < version
  /\ RunAt(run.id + 1, version)

\* A reply about run id as it is now.  Only an unfinished, blocked run has anything
\* to diagnose.
AboutRun(id, states, checks) ==
  \E p \in [kind : {"publication"}, state : states, version : {version},
            signature : Signatures, run : {id},
            isCurrent : {id = run'.id /\ run'.version = version /\ (states = {"published"} => live' = version)},
            check : checks] :
    /\ p.check # None => p.state = "blocked" /\ ~p.isCurrent
    /\ p.signature # Clean => p.state = "blocked" /\ p.check \notin Unfinished
    /\ Answered(p)

LatestRun(checks) ==
  AboutRun(run'.id, IF run'.state = "published" THEN {"published"} ELSE RunStates \ {"published"}, checks)

\* An answer of publish that names no run: nothing to write, or not started.
WithoutRun(state, signatures) ==
  \E sig \in signatures :
    Answered([kind |-> "publication", state |-> state, version |-> version, signature |-> sig,
              run |-> 0, isCurrent |-> state = "published", check |-> None])

\* A certificate of another version is refused.  An adopted one and one that meets
\* an unfinished run are answered from the records.
PublishReturns ==
  /\ pc = "calling" /\ call = "publish"
  /\ UNCHANGED version
  /\ \/ UNCHANGED <<run, live>> /\ Failed
     \/ current.version = version /\ NewRun /\ (Failed \/ LatestRun({None}))
     \/ run.id # 0 /\ UNCHANGED <<run, live>> /\ LatestRun({None})
     \/ /\ current.version = version /\ live \in 1..(version - 1) /\ run.state = "published"
        /\ UNCHANGED run
        /\ \/ live' = version /\ WithoutRun("published", {Clean})
           \/ UNCHANGED live /\ WithoutRun("blocked", Signatures)

\* A finished run is only reported.  Another is carried on, with the current intent
\* when its check passes.
ResumeReturns ==
  /\ pc = "calling" /\ call = "resume"
  /\ UNCHANGED version
  /\ \/ UNCHANGED <<run, live>> /\ Failed
     \/ /\ runId < run.id \/ run.state = "published"
        /\ UNCHANGED <<run, live>> /\ AboutRun(runId, {"published"}, {None})
     \/ /\ runId = run.id /\ run.state = "open"
        /\ \/ RunAt(run.id, version) /\ (Failed \/ LatestRun({None}))
           \/ UNCHANGED <<run, live>> /\ LatestRun((CheckStatus \ {"passed"}) \cup {None})

\* The batch lands on the version the model was shown, or not at all.  Accepted or
\* in conflict, a check follows at once.
EditReturns ==
  /\ pc = "calling" /\ call = "edit"
  /\ UNCHANGED <<run, live, runId, current, aborted>>
  /\ \/ /\ current.version = version /\ version < MaxVersion
        /\ version' = version + 1
        /\ history' = Append(history, [tool |-> "edit", ok |-> TRUE, reply |-> NoReply])
        /\ rejects' = 0 /\ lastSignature' = current.signature /\ afterEdit' = TRUE
        /\ UNCHANGED <<used, stalls>>
        /\ Begin("preflight")
     \/ /\ UNCHANGED version /\ history' = Refused
        /\ \/ /\ current.version # version
              /\ lastSignature' = None /\ UNCHANGED <<used, rejects, stalls, afterEdit>>
              /\ Begin("preflight")
           \/ Rejected
           \/ UNCHANGED counters /\ Return("stopped", "edit_refused")

-------------------------------------------------------------------------------
(* The rest of the world *)

Abort ==
  /\ ~aborted /\ pc # "done" /\ aborted' = TRUE
  /\ UNCHANGED <<engineVars, pc, call, count, counters, runId, current, history, result>>

OtherEdits ==
  /\ pc # "done" /\ version < MaxVersion
  /\ version' = version + 1
  /\ UNCHANGED <<run, live, pc, call, count, counters, runId, current, history, result, aborted>>

\* Another client publishes, or carries the open run to its end.
OtherPublishes ==
  /\ pc # "done"
  /\ NewRun \/ (run.state = "open" /\ RunAt(run.id, version))
  /\ UNCHANGED <<version, pc, call, count, counters, runId, current, history, result, aborted>>

Replies == PreflightReturns \/ PublishReturns \/ ResumeReturns \/ EditReturns

Next ==
  \/ Start \/ Look \/ Replies \/ Interrupt
  \/ \E d \in {"invalid", "ask", "stop", "throw", "patch"} : Decide(d)
  \/ Abort \/ OtherEdits \/ OtherPublishes

Spec == Init /\ [][Next]_vars

\* The loop runs on, calls are answered, and the timer fires; the model may never
\* answer.
Fairness == WF_vars(Start \/ Look \/ Replies \/ Interrupt) /\ WF_vars(Abort)

FairSpec == Spec /\ Fairness

-------------------------------------------------------------------------------
(* Properties *)

Named == {i \in DOMAIN history : IsPublication(history[i].reply) /\ history[i].reply.run # 0}

\* A run the loop was told of is never lost to the caller, wherever the abort, a
\* budget or an error ends the loop (result() in repair.ts): going on needs it.
RunIsHandedBack ==
  pc = "done" => \A i \in Named : result.runId = history[i].reply.run

\* Once a run is known the loop goes on with it and never claims another, whatever
\* it or others edited, published and finished in between (repair.ts, the choice
\* between resume and publish).
OneRunPerLoop ==
  /\ \A i, j \in Named : history[i].reply.run = history[j].reply.run
  /\ pc = "calling" /\ call = "publish" => Named = {}

\* Success means that the engine has published the very version the result shows,
\* or a later one, with other clients editing and publishing at the same time
\* (repair.ts, engine_confirmed).
SuccessIsConfirmed ==
  result # NoResult /\ result.status = "published" => live >= current.version

Edits == {i \in DOMAIN history : history[i].tool = "edit"}

\* The reply the model was looking at before event i.
Shown(i) ==
  LET replies == {j \in 1..(i - 1) : history[j].reply # NoReply}
  IN  history[CHOOSE j \in replies : \A k \in replies : k <= j].reply

\* An accepted edit after which the next thing shown was what had been before.
Fruitless(i) ==
  LET later == {j \in Edits \cup {Len(history) + 1} : j > i}
      next == CHOOSE j \in later : \A k \in later : j <= k
  IN  history[i].ok /\ Shown(i).signature = Shown(next).signature

\* The loop gives up for lack of progress only when the last two accepted edits were
\* fruitless; rejected batches and invalid decisions are no evidence (repair.ts,
\* stalls).
NoProgressIsEarned ==
  result # NoResult /\ result.reason = "no_progress" =>
    \E i, j \in Edits : /\ i < j /\ history[i].ok /\ history[j].ok
                        /\ \A k \in Edits : k >= i /\ history[k].ok => Fruitless(k)

\* The loop always ends, though the model may never answer and other clients never
\* stop (repair.ts, decide and the timer).
Terminates == <>(pc = "done")
===============================================================================
