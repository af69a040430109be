------------------------------- MODULE Preflight -------------------------------
(***************************************************************************)
(* One check of a Draft: synchronous rules, asynchronous rules one after     *)
(* another under one deadline, and what the verdict grants                   *)
(* (preflight/check.ts, preflight/async.ts, checks of managed/engine.ts).    *)
(*                                                                         *)
(* A rule may answer at any time or never; an answer that comes after the    *)
(* timer is late.  A rule may also block the event loop past the deadline    *)
(* and still answer before its timer can fire.  What the stored check is     *)
(* worth when the Draft changes meanwhile is a matter of ManagedRun.         *)
(***************************************************************************)
EXTENDS Naturals, FiniteSets

CONSTANTS Sync,      \* the synchronous rules of the Draft's type
          N,         \* the number of its asynchronous rules
          Budget     \* preflight timeout in ticks of the clock

ASSUME PreflightAssumption == N \in Nat /\ Budget \in Nat \ {0} /\ Sync \cap (1..(N + 1)) = {}

\* The inspection of an update is run like one more rule, the last.
Inspector == N + 1
Async == 1..Inspector

Answers == {"clean", "errors", "pending", "pending with errors", "invalid"}
Compilations == {"none", "compiled", "planned"}

VARIABLES host,        \* what is fixed during the check: executor, planner, current run
          now, deadline,
          pc, cur,     \* the place in checks, and the rule whose turn it is
          upTo,        \* the last rule of the present run of rules
          open,        \* rules that were called and have not answered
          pending, errors, incomplete, status,
          compilation, \* compilation and slots, set by the inspector's callback
          granted,     \* nothing, the preview of an update, or a certificate
          told         \* what each rule answered before it was given up

vars == <<host, now, deadline, pc, cur, upTo, open, pending, errors, incomplete,
          status, compilation, granted, told>>

\* mode: no executor, one that creates, one for updates of a published Draft.
\* run: there is no run to protect, or the new plan agrees with it, or not.
Hosts == [mode : {"draft", "create", "update"}, writes : BOOLEAN, planner : BOOLEAN,
          run : {"none", "agrees", "clashes"}]

\* Mutant: rules that are pending do not keep a check from passing.
VerdictOfErrors(i, p, e) == IF i THEN "incomplete" ELSE IF e THEN "blocked" ELSE "passed"

\* The status of a check.
Verdict(i, p, e) ==
  IF i THEN "incomplete" ELSE IF p # {} THEN "pending" ELSE IF e THEN "blocked" ELSE "passed"

-------------------------------------------------------------------------------
(* GraphPreflight.run: every rule is called; a failing one leaves the check     *)
(* incomplete, and builtin is a required field that has no value.               *)

RunSyncRules ==
  /\ pc = "sync"
  /\ \E answer \in [Sync -> {"clean", "errors", "invalid"}], builtin \in BOOLEAN :
       /\ told' = [r \in Sync \cup Async |-> IF r \in Sync THEN answer[r] ELSE told[r]]
       /\ errors' = (builtin \/ \E r \in Sync : answer[r] # "clean")
       /\ incomplete' = \E r \in Sync : answer[r] = "invalid"
       /\ status' = Verdict(incomplete', {}, errors')
  /\ pc' = "rules"
  /\ UNCHANGED <<host, now, deadline, cur, upTo, open, pending, compilation, granted>>

-------------------------------------------------------------------------------
(* AsyncPreflight.run *)

CallRule ==
  /\ pc = "rules" /\ cur <= upTo /\ now < deadline
  /\ open' = open \cup {cur}
  /\ pc' = "waiting"
  /\ UNCHANGED <<host, now, deadline, cur, upTo, pending, errors, incomplete,
                 status, compilation, granted, told>>

\* Not checked: the time budget is used up.
SkipRule ==
  /\ pc = "rules" /\ cur <= upTo /\ now >= deadline
  /\ pending' = pending \cup {cur}
  /\ cur' = cur + 1
  /\ UNCHANGED <<host, now, deadline, pc, upTo, open, errors, incomplete, status,
                 compilation, granted, told>>

\* What the callback around inspect has stored when it returns a.  A planner or a
\* diagnostic that is invalid throws after the compilation was stored.
Compiled(a) ==
  {c \in Compilations :
     /\ c = "none" => a # "clean"
     /\ c = "planned" => host.planner /\ a \in {"clean", "errors", "invalid"}
     /\ c = "compiled" => a = "invalid" \/ (~host.planner /\ a \in {"clean", "errors"})}

\* The rule answers before its timer fires.
Answer(a) ==
  /\ pc = "waiting"
  /\ open' = open \ {cur}
  /\ told' = [told EXCEPT ![cur] = a]
  /\ pending' = IF a \in {"pending", "pending with errors"} THEN pending \cup {cur} ELSE pending
  /\ errors' = (errors \/ a \in {"errors", "pending with errors", "invalid"})
  /\ incomplete' = (incomplete \/ a = "invalid")
  /\ IF cur = Inspector THEN compilation' \in Compiled(a) ELSE UNCHANGED compilation
  /\ cur' = cur + 1 /\ pc' = "rules"
  /\ UNCHANGED <<host, now, deadline, upTo, status, granted>>

\* Mutant: the deadline stays, although a timer may fire a little early.
TimeoutKeepingDeadline ==
  /\ pc = "waiting" /\ now + 1 >= deadline
  /\ errors' = TRUE /\ incomplete' = TRUE
  /\ cur' = cur + 1 /\ pc' = "rules"
  /\ UNCHANGED <<host, now, deadline, upTo, open, pending, status, compilation, granted, told>>

\* Mutant: the rule is told to abort, and its answer awaited.
TimeoutAborting ==
  /\ pc = "waiting" /\ deadline # 0 /\ now + 1 >= deadline
  /\ deadline' = 0
  /\ errors' = TRUE /\ incomplete' = TRUE
  /\ UNCHANGED <<host, now, pc, cur, upTo, open, pending, status, compilation, granted, told>>

\* setTimeout cuts its delay to whole milliseconds, so it may fire a tick early.
Timeout ==
  /\ pc = "waiting" /\ now + 1 >= deadline
  /\ deadline' = 0
  /\ errors' = TRUE /\ incomplete' = TRUE
  /\ cur' = cur + 1 /\ pc' = "rules"
  /\ UNCHANGED <<host, now, upTo, open, pending, status, compilation, granted, told>>

\* A rule that was given up answers: nobody listens, but a late inspection still
\* stores its compilation.
LateAnswer(r) ==
  /\ r \in open /\ ~(pc = "waiting" /\ r = cur)
  /\ open' = open \ {r}
  /\ IF r = Inspector THEN compilation' \in Compilations ELSE UNCHANGED compilation
  /\ UNCHANGED <<host, now, deadline, pc, cur, upTo, pending, errors, incomplete,
                 status, granted, told>>

-------------------------------------------------------------------------------
(* checks *)

EndRules ==
  /\ pc = "rules" /\ cur = upTo + 1
  /\ status' = Verdict(incomplete, pending, errors)
  /\ pc' = IF host.mode = "draft" THEN "done"
           ELSE IF host.mode = "create" THEN "plan"
           ELSE IF upTo = N THEN "inspect" ELSE "grant"
  /\ UNCHANGED <<host, now, deadline, cur, upTo, open, pending, errors, incomplete,
                 compilation, granted, told>>

\* Only a check that passed so far is worth an inspection, under the same deadline.
Inspect ==
  /\ pc = "inspect"
  /\ IF status = "passed"
       THEN /\ upTo' = Inspector /\ deadline' = Budget
            /\ pending' = {} /\ incomplete' = FALSE
            /\ pc' = "rules"
       ELSE pc' = "done" /\ UNCHANGED <<upTo, deadline, pending, incomplete>>
  /\ UNCHANGED <<host, now, cur, open, errors, status, compilation, granted, told>>

\* Mutant: whatever compilation there is by now is certified.
GrantCompilation ==
  /\ pc = "grant"
  /\ granted' = IF compilation = "planned" THEN "certificate" ELSE "nothing"
  /\ pc' = "done"
  /\ UNCHANGED <<host, now, deadline, cur, upTo, open, pending, errors, incomplete,
                 status, compilation, told>>

\* A passed update shows its slots; with a plan it is certified, unless the plan
\* clashes with the current run: then protect throws, and no check is stored.
Grant ==
  /\ pc = "grant"
  /\ LET passed == status = "passed" /\ compilation # "none"
         certify == passed /\ host.writes /\ compilation = "planned"
     IN  /\ granted' = IF ~passed \/ (certify /\ host.run = "clashes") THEN "nothing"
                      ELSE IF certify THEN "certificate" ELSE "preview"
         /\ pc' = IF certify /\ host.run = "clashes" THEN "thrown" ELSE "done"
  /\ UNCHANGED <<host, now, deadline, cur, upTo, open, pending, errors, incomplete,
                 status, compilation, told>>

\* The plan of a creation; one that is invalid or clashes blocks the check.
Plan ==
  /\ pc = "plan"
  /\ \E valid \in BOOLEAN :
       LET certify == valid /\ host.run # "clashes" IN
       IF status = "passed"
         THEN /\ granted' = IF certify THEN "certificate" ELSE "nothing"
              /\ status' = IF certify THEN "passed" ELSE "blocked"
         ELSE UNCHANGED <<granted, status>>
  /\ pc' = "done"
  /\ UNCHANGED <<host, now, deadline, cur, upTo, open, pending, errors, incomplete,
                 compilation, told>>

\* The clock stops, for the model, once nothing waits for it.
Tick ==
  /\ now < Budget
  /\ now' = now + 1
  /\ UNCHANGED <<host, deadline, pc, cur, upTo, open, pending, errors, incomplete,
                 status, compilation, granted, told>>

Init ==
  /\ host \in Hosts
  /\ now = 0 /\ deadline = Budget
  /\ pc = "sync" /\ cur = 1 /\ upTo = N
  /\ open = {} /\ pending = {} /\ errors = FALSE /\ incomplete = FALSE /\ status = "none"
  /\ compilation = "none" /\ granted = "nothing"
  /\ told = [r \in Sync \cup Async |-> "nothing"]

Loop == RunSyncRules \/ CallRule \/ SkipRule \/ EndRules \/ Inspect \/ Grant \/ Plan

Next ==
  \/ Loop \/ Timeout \/ Tick
  \/ \E a \in Answers : Answer(a)
  \/ \E r \in Async : LateAnswer(r)

Spec == Init /\ [][Next]_vars

\* The event loop goes on, timers fire, time passes.  No rule is assumed to answer.
FairSpec == Spec /\ WF_vars(Loop) /\ WF_vars(Timeout) /\ WF_vars(Tick)

-------------------------------------------------------------------------------
Rules == Sync \cup (1..N) \cup (IF host.mode = "update" THEN {Inspector} ELSE {})

TypeOK ==
  /\ host \in Hosts /\ now \in 0..Budget /\ deadline \in {0, Budget}
  /\ pc \in {"sync", "rules", "waiting", "inspect", "grant", "plan", "done", "thrown"}
  /\ upTo \in {N, Inspector} /\ cur \in 1..(upTo + 1) /\ (pc = "waiting" => cur \in 1..upTo)
  /\ open \subseteq Async /\ pending \subseteq Async
  /\ errors \in BOOLEAN /\ incomplete \in BOOLEAN
  /\ status \in {"none", "passed", "blocked", "pending", "incomplete"}
  /\ compilation \in Compilations /\ granted \in {"nothing", "preview", "certificate"}
  /\ told \in [Sync \cup Async -> Answers \cup {"nothing"}]

\* A check that passed is one that every rule of the Draft has answered in time, and
\* without a complaint: no rule that failed, asked for patience, came late or was never
\* called is passed over, in whatever order that happened (async.ts, status).
PassedIsChecked == pc = "done" /\ status = "passed" => \A r \in Rules : told[r] = "clean"

\* What a check grants rests on its verdict and on the answer that was accepted, never
\* on a compilation that a late inspection left behind, nor on a plan that clashes with
\* the current run; a check that threw grants nothing (engine.ts, checks).
NothingLateIsGranted ==
  granted # "nothing" =>
    /\ pc = "done" /\ status = "passed"
    /\ host.mode = "update" => told[Inspector] = "clean"
    /\ granted = "certificate" => host.run # "clashes"

\* The rules that were called, but whose answer came too late or never.
GivenUp == {r \in 1..(cur - 1) : told[r] = "nothing" /\ r \notin pending}

\* The rules that were called share one budget: when one has used it up no other is
\* called, so that at most one of them is given up, and the check is incomplete.
BudgetIsShared ==
  [][open' \ open # {} => GivenUp = {} /\ deadline = Budget /\ now < Budget]_vars

\* Every check ends, although its rules may never answer and ignore the abort signal.
CheckEnds == <>(pc \in {"done", "thrown"})
===============================================================================
