---------------------------- MODULE PreflightProofs ----------------------------
(***************************************************************************)
(* Proofs about Preflight, for any number of rules and any budget.          *)
(***************************************************************************)
EXTENDS Preflight, TLAPS

LEMMA TypeInit == Init => TypeOK
<1> SUFFICES ASSUME Init PROVE TypeOK
  OBVIOUS
<1>1. told \in [Sync \cup Async -> Answers \cup {"nothing"}]
  BY DEF Init
<1>2. N \in Nat /\ Budget \in Nat
  BY PreflightAssumption
<1>3. now \in 0..Budget /\ upTo \in {N, Inspector} /\ cur \in 1..(upTo + 1)
  BY <1>2 DEF Init
<1> QED
  BY <1>1, <1>3 DEF Init, TypeOK, Compilations

LEMMA VerdictType ==
  ASSUME NEW i \in BOOLEAN, NEW p, NEW e \in BOOLEAN
  PROVE  /\ Verdict(i, p, e) \in {"passed", "blocked", "pending", "incomplete"}
         /\ Verdict(i, p, e) = "passed" <=> ~i /\ p = {} /\ ~e
         /\ Verdict(i, p, e) = "incomplete" <=> i
BY DEF Verdict

LEMMA TypeStep == TypeOK /\ [Next]_vars => TypeOK'
<1> SUFFICES ASSUME TypeOK, [Next]_vars PROVE TypeOK'
  OBVIOUS
<1> USE PreflightAssumption DEF TypeOK, Inspector, Async, Compilations
<1>1. CASE RunSyncRules
  <2>1. PICK answer \in [Sync -> {"clean", "errors", "invalid"}], builtin \in BOOLEAN :
          /\ told' = [r \in Sync \cup Async |-> IF r \in Sync THEN answer[r] ELSE told[r]]
          /\ errors' = (builtin \/ \E r \in Sync : answer[r] # "clean")
          /\ incomplete' = \E r \in Sync : answer[r] = "invalid"
          /\ status' = Verdict(incomplete', {}, errors')
    BY <1>1 DEF RunSyncRules
  <2>2. told' \in [Sync \cup Async -> Answers \cup {"nothing"}]
    BY <2>1 DEF Answers
  <2>3. errors' \in BOOLEAN /\ incomplete' \in BOOLEAN
    BY <2>1
  <2>4. status' \in {"none", "passed", "blocked", "pending", "incomplete"}
    BY <2>1, <2>3, VerdictType
  <2> QED
    BY <1>1, <2>2, <2>3, <2>4 DEF RunSyncRules
<1>2. CASE CallRule
  BY <1>2 DEF CallRule
<1>3. CASE SkipRule
  BY <1>3 DEF SkipRule
<1>4. CASE EndRules
  <2>1. status' \in {"passed", "blocked", "pending", "incomplete"}
    BY <1>4, VerdictType DEF EndRules
  <2>2. host.mode \in {"draft", "create", "update"}
    BY DEF Hosts
  <2>3. pc' \in {"done", "plan", "inspect", "grant"}
    BY <1>4, <2>2 DEF EndRules
  <2> QED
    BY <1>4, <2>1, <2>3 DEF EndRules
<1>5. CASE Inspect
  <2>1. CASE status = "passed"
    <3>1. upTo' = Inspector /\ deadline' = Budget /\ pending' = {} /\ pc' = "rules" /\ incomplete' = FALSE
      BY <1>5, <2>1 DEF Inspect
    <3>2. UNCHANGED <<host, now, cur, open, errors, status, compilation, granted, told>>
      BY <1>5 DEF Inspect
    <3>3. cur' \in 1..(upTo' + 1) /\ upTo' \in {N, Inspector}
      BY <3>1, <3>2
    <3>4. incomplete' \in BOOLEAN /\ errors' \in BOOLEAN
      BY <3>1, <3>2
    <3>5. pending' \subseteq Async /\ open' \subseteq Async
      BY <3>1, <3>2
    <3>6. told' \in [Sync \cup Async -> Answers \cup {"nothing"}]
      BY <3>2
    <3> QED
      BY <3>1, <3>2, <3>3, <3>4, <3>5, <3>6
  <2>2. CASE status # "passed"
    BY <1>5, <2>2 DEF Inspect
  <2> QED
    BY <2>1, <2>2
<1>6. CASE Grant
  BY <1>6 DEF Grant
<1>7. CASE Plan
  <2>1. granted' \in {granted, "certificate", "nothing"} /\ status' \in {status, "passed", "blocked"}
    BY <1>7 DEF Plan
  <2> QED
    BY <1>7, <2>1 DEF Plan
<1>8. CASE Timeout
  BY <1>8 DEF Timeout
<1>9. CASE Tick
  BY <1>9 DEF Tick
<1>10. ASSUME NEW a \in Answers, Answer(a) PROVE TypeOK'
  <2>1. compilation' \in Compilations
    BY <1>10 DEF Answer, Compiled, Answers
  <2>2. errors' \in BOOLEAN /\ incomplete' \in BOOLEAN
    BY <1>10 DEF Answer
  <2>3. told' \in [Sync \cup Async -> Answers \cup {"nothing"}]
    BY <1>10 DEF Answer
  <2>4. open' \subseteq Async /\ pending' \subseteq Async
    BY <1>10 DEF Answer
  <2>5. cur' \in 1..(upTo' + 1) /\ pc' = "rules" /\ upTo' = upTo
    <3>1. pc = "waiting" /\ cur' = cur + 1 /\ pc' = "rules" /\ upTo' = upTo
      BY <1>10 DEF Answer
    <3> QED
      BY <3>1
  <2>6. UNCHANGED <<host, now, deadline, upTo, status, granted>>
    BY <1>10 DEF Answer
  <2> QED
    BY <2>1, <2>2, <2>3, <2>4, <2>5, <2>6
<1>11. ASSUME NEW r \in Async, LateAnswer(r) PROVE TypeOK'
  BY <1>11 DEF LateAnswer
<1>12. CASE UNCHANGED vars
  BY <1>12 DEF vars
<1> QED
  BY <1>1, <1>2, <1>3, <1>4, <1>5, <1>6, <1>7, <1>8, <1>9, <1>10, <1>11, <1>12 DEF Next, Loop

\* A check keeps its types.
THEOREM Typing == Spec => []TypeOK
<1>1. QED BY TypeInit, TypeStep, PTL DEF Spec

-------------------------------------------------------------------------------
(* The inductive invariant.  While the rules run, a rule behind the present one  *)
(* has answered "clean" or something has been noted against the check: the      *)
(* verdict alone, taken at the end, could not tell what was skipped before.     *)

Noted == incomplete \/ pending # {} \/ errors

Behind == pc # "sync" => Noted \/ \A r \in Sync \cup (1..(cur - 1)) : told[r] = "clean"

\* From the end of a run of rules on, a passed check has nothing noted against it.
Judged == pc \in {"inspect", "grant", "plan", "done"} /\ status = "passed" => ~Noted

\* Where the check is, and which run of rules has come to its end.
Place ==
  /\ pc = "sync" => cur = 1
  /\ pc \in {"inspect", "grant", "plan", "done"} => cur = upTo + 1
  /\ pc = "inspect" => upTo = N
  /\ pc = "grant" => upTo = Inspector
  /\ pc = "plan" => host.mode # "update"
  /\ pc = "done" /\ status = "passed" /\ host.mode = "update" => upTo = Inspector

Rewarded ==
  granted # "nothing" =>
    pc = "done" /\ status = "passed" /\ (granted = "certificate" => host.run # "clashes")

\* While there is time left in a run of rules, no rule has been given up.
Shared == deadline # 0 => GivenUp = {}

Inv == TypeOK /\ Behind /\ Judged /\ Place /\ Rewarded /\ Shared

LEMMA InvInit == Init => Inv
<1> SUFFICES ASSUME Init PROVE Inv
  OBVIOUS
<1>1. TypeOK
  BY TypeInit
<1>2. GivenUp = {}
  BY DEF Init, GivenUp
<1> QED
  BY <1>1, <1>2 DEF Init, Inv, Behind, Judged, Place, Rewarded, Shared

\* A rule is noted at the end of its turn, or it has answered "clean".
LEMMA BehindStep == Inv /\ [Next]_vars => Behind'
<1> SUFFICES ASSUME Inv, [Next]_vars PROVE Behind'
  OBVIOUS
<1> USE PreflightAssumption DEF Inv, Behind, Noted, TypeOK
<1>1. CASE RunSyncRules
  <2>1. PICK answer \in [Sync -> {"clean", "errors", "invalid"}], builtin \in BOOLEAN :
          /\ told' = [r \in Sync \cup Async |-> IF r \in Sync THEN answer[r] ELSE told[r]]
          /\ errors' = (builtin \/ \E r \in Sync : answer[r] # "clean")
    BY <1>1 DEF RunSyncRules
  <2>2. cur' = 1
    BY <1>1 DEF RunSyncRules, Place
  <2>3. CASE \A r \in Sync : answer[r] = "clean"
    <3>1. \A r \in Sync : told'[r] = "clean"
      BY <2>1, <2>3
    <3>2. 1..(cur' - 1) = {}
      BY <2>2
    <3> QED
      BY <3>1, <3>2
  <2>4. CASE \E r \in Sync : answer[r] # "clean"
    <3>1. errors'
      BY <2>1, <2>4
    <3> QED
      BY <3>1
  <2> QED
    BY <2>3, <2>4
<1>2. CASE SkipRule
  <2>1. cur \in pending'
    BY <1>2 DEF SkipRule
  <2> QED
    BY <2>1
<1>3. CASE Timeout
  BY <1>3 DEF Timeout
<1>4. ASSUME NEW a \in Answers, Answer(a) PROVE Behind'
  <2>1. CASE a = "clean"
    <3>1. /\ pending' = pending /\ cur' = cur + 1 /\ pc = "waiting"
          /\ told' = [told EXCEPT ![cur] = "clean"]
      BY <1>4, <2>1 DEF Answer
    <3>2. incomplete => incomplete'
      BY <1>4 DEF Answer
    <3>3. errors => errors'
      BY <1>4 DEF Answer
    <3>4. CASE Noted
      BY <3>1, <3>2, <3>3, <3>4
    <3>5. CASE ~Noted
      <4>1. \A r \in Sync \cup (1..(cur - 1)) : told[r] = "clean"
        BY <3>1, <3>5
      <4>2. 1..(cur' - 1) = (1..(cur - 1)) \cup {cur}
        BY <3>1
      <4>3. \A r \in Sync \cup (1..(cur' - 1)) : told'[r] = "clean"
        BY <3>1, <4>1, <4>2 DEF Async, Inspector
      <4> QED
        BY <4>3
    <3> QED
      BY <3>4, <3>5
  <2>2. CASE a \in {"errors", "pending with errors", "invalid"}
    <3>1. errors'
      BY <1>4, <2>2 DEF Answer
    <3> QED
      BY <3>1
  <2>3. CASE a = "pending"
    <3>1. cur \in pending'
      BY <1>4, <2>3 DEF Answer
    <3> QED
      BY <3>1
  <2> QED
    BY <2>1, <2>2, <2>3 DEF Answers
<1>5. CASE Inspect
  <2>1. told' = told /\ cur' = cur /\ pc = "inspect" /\ (errors' <=> errors)
    BY <1>5 DEF Inspect
  <2>2. CASE status = "passed"
    <3>1. ~Noted
      BY <2>1, <2>2 DEF Judged
    <3> QED
      BY <2>1, <3>1
  <2>3. CASE status # "passed"
    <3>1. UNCHANGED <<pending, incomplete>>
      BY <1>5, <2>3 DEF Inspect
    <3> QED
      BY <2>1, <3>1
  <2> QED
    BY <2>2, <2>3
<1>6. CASE CallRule
  BY <1>6 DEF CallRule
<1>7. CASE EndRules
  BY <1>7 DEF EndRules
<1>8. CASE Grant
  BY <1>8 DEF Grant
<1>9. CASE Plan
  BY <1>9 DEF Plan
<1>10. CASE Tick
  BY <1>10 DEF Tick
<1>11. ASSUME NEW r \in Async, LateAnswer(r) PROVE Behind'
  BY <1>11 DEF LateAnswer
<1>12. CASE UNCHANGED vars
  BY <1>12 DEF vars
<1> QED
  BY <1>1, <1>2, <1>3, <1>4, <1>5, <1>6, <1>7, <1>8, <1>9, <1>10, <1>11, <1>12 DEF Next, Loop

\* The verdict is taken at the end of the rules, and what is noted after that is a
\* new run of rules.
LEMMA JudgedStep == Inv /\ [Next]_vars => Judged'
<1> SUFFICES ASSUME Inv, [Next]_vars, pc' \in {"inspect", "grant", "plan", "done"}, status' = "passed"
             PROVE  ~Noted'
  BY DEF Judged
<1> USE DEF Inv, Judged
<1>1. CASE EndRules
  <2>1. status' = Verdict(incomplete, pending, errors) /\ UNCHANGED <<pending, errors, incomplete>>
    BY <1>1 DEF EndRules
  <2>2. ~incomplete /\ pending = {} /\ ~errors
    BY <2>1, VerdictType DEF TypeOK
  <2> QED
    BY <2>1, <2>2 DEF Noted
<1>2. CASE Inspect
  <2>1. pc = "inspect" /\ status = "passed"
    BY <1>2 DEF Inspect
  <2>2. pc' = "rules"
    BY <1>2, <2>1 DEF Inspect
  <2> QED
    BY <2>2
<1>3. CASE Grant
  <2>1. pc = "grant" /\ UNCHANGED <<pending, errors, incomplete, status>>
    BY <1>3 DEF Grant
  <2> QED
    BY <2>1 DEF Noted
<1>4. CASE Plan
  <2>1. pc = "plan" /\ status = "passed" /\ UNCHANGED <<pending, errors, incomplete>>
    BY <1>4 DEF Plan
  <2> QED
    BY <2>1 DEF Noted
<1>5. CASE RunSyncRules
  BY <1>5 DEF RunSyncRules
<1>6. CASE CallRule \/ SkipRule \/ Timeout
  BY <1>6 DEF CallRule, SkipRule, Timeout
<1>7. CASE Tick
  BY <1>7 DEF Tick, Noted
<1>8. ASSUME NEW a \in Answers, Answer(a) PROVE ~Noted'
  BY <1>8 DEF Answer
<1>9. ASSUME NEW r \in Async, LateAnswer(r) PROVE ~Noted'
  BY <1>9 DEF LateAnswer, Noted
<1>10. CASE UNCHANGED vars
  BY <1>10 DEF vars, Noted
<1> QED
  BY <1>1, <1>2, <1>3, <1>4, <1>5, <1>6, <1>7, <1>8, <1>9, <1>10 DEF Next, Loop

LEMMA PlaceStep == Inv /\ [Next]_vars => Place'
<1> SUFFICES ASSUME Inv, [Next]_vars PROVE Place'
  OBVIOUS
<1> USE DEF Inv, Place
<1>1. CASE RunSyncRules
  BY <1>1 DEF RunSyncRules
<1>2. CASE CallRule \/ SkipRule \/ Timeout
  BY <1>2 DEF CallRule, SkipRule, Timeout
<1>3. CASE EndRules
  <2>1. host.mode \in {"draft", "create", "update"} /\ host' = host
    BY <1>3 DEF EndRules, TypeOK, Hosts
  <2>2. upTo \in {N, Inspector} /\ cur = upTo + 1 /\ UNCHANGED <<cur, upTo>>
    BY <1>3 DEF EndRules, TypeOK
  <2>3. pc' = IF host.mode = "draft" THEN "done"
              ELSE IF host.mode = "create" THEN "plan"
              ELSE IF upTo = N THEN "inspect" ELSE "grant"
    BY <1>3 DEF EndRules
  <2> QED
    BY <2>1, <2>2, <2>3
<1>4. CASE Inspect
  BY <1>4 DEF Inspect
<1>5. CASE Grant
  <2>1. pc = "grant" /\ pc' \in {"done", "thrown"} /\ UNCHANGED <<host, cur, upTo>>
    BY <1>5 DEF Grant
  <2> QED
    BY <2>1
<1>6. CASE Plan
  <2>1. pc = "plan" /\ pc' = "done" /\ UNCHANGED <<host, cur, upTo>>
    BY <1>6 DEF Plan
  <2> QED
    BY <2>1
<1>7. CASE Tick
  BY <1>7 DEF Tick
<1>8. ASSUME NEW a \in Answers, Answer(a) PROVE Place'
  <2>1. pc' = "rules"
    BY <1>8 DEF Answer
  <2> QED
    BY <2>1
<1>9. ASSUME NEW r \in Async, LateAnswer(r) PROVE Place'
  BY <1>9 DEF LateAnswer
<1>10. CASE UNCHANGED vars
  BY <1>10 DEF vars
<1> QED
  BY <1>1, <1>2, <1>3, <1>4, <1>5, <1>6, <1>7, <1>8, <1>9, <1>10 DEF Next, Loop

LEMMA RewardedStep == Inv /\ [Next]_vars => Rewarded'
<1> SUFFICES ASSUME Inv, [Next]_vars PROVE Rewarded'
  OBVIOUS
<1> USE DEF Inv, Rewarded
<1>1. CASE Grant
  BY <1>1 DEF Grant
<1>2. CASE Plan
  BY <1>2 DEF Plan
<1>3. CASE RunSyncRules \/ CallRule \/ SkipRule \/ EndRules \/ Timeout
  BY <1>3 DEF RunSyncRules, CallRule, SkipRule, EndRules, Timeout
<1>4. CASE Inspect
  BY <1>4 DEF Inspect
<1>5. CASE Tick
  BY <1>5 DEF Tick
<1>6. ASSUME NEW a \in Answers, Answer(a) PROVE Rewarded'
  <2>1. pc = "waiting" /\ granted' = granted
    BY <1>6 DEF Answer
  <2> QED
    BY <2>1
<1>7. ASSUME NEW r \in Async, LateAnswer(r) PROVE Rewarded'
  BY <1>7 DEF LateAnswer
<1>8. CASE UNCHANGED vars
  BY <1>8 DEF vars
<1> QED
  BY <1>1, <1>2, <1>3, <1>4, <1>5, <1>6, <1>7, <1>8 DEF Next, Loop

\* Giving a rule up ends the budget, and a new one is opened only over clean answers.
LEMMA SharedStep == Inv /\ [Next]_vars => Shared'
<1> SUFFICES ASSUME Inv, [Next]_vars, deadline' # 0 PROVE GivenUp' = {}
  BY DEF Shared
<1> USE PreflightAssumption DEF Inv, Shared, GivenUp, TypeOK
<1>1. CASE RunSyncRules
  <2>1. 1..(cur' - 1) = {}
    BY <1>1 DEF RunSyncRules, Place
  <2> QED
    BY <2>1
<1>2. CASE SkipRule
  <2>1. /\ cur' = cur + 1 /\ pending' = pending \cup {cur}
        /\ UNCHANGED <<told, deadline>>
    BY <1>2 DEF SkipRule
  <2>2. 1..(cur' - 1) = (1..(cur - 1)) \cup {cur}
    BY <2>1
  <2> QED
    BY <2>1, <2>2
<1>3. CASE Timeout
  BY <1>3 DEF Timeout
<1>4. ASSUME NEW a \in Answers, Answer(a) PROVE GivenUp' = {}
  <2>1. /\ pc = "waiting" /\ cur' = cur + 1 /\ deadline' = deadline
        /\ told' = [told EXCEPT ![cur] = a] /\ pending \subseteq pending'
    BY <1>4 DEF Answer
  <2>2. 1..(cur' - 1) = (1..(cur - 1)) \cup {cur}
    BY <2>1
  <2>3. told'[cur] # "nothing"
    BY <2>1 DEF Answers, Async, Inspector
  <2>4. \A r \in 1..(cur - 1) : told'[r] = told[r]
    BY <2>1
  <2> QED
    BY <2>1, <2>2, <2>3, <2>4
<1>5. CASE Inspect
  <2>1. UNCHANGED <<told, cur>> /\ pc = "inspect"
    BY <1>5 DEF Inspect
  <2>2. CASE status = "passed"
    <3>1. \A r \in 1..(cur - 1) : told[r] = "clean"
      BY <2>1, <2>2 DEF Judged, Behind
    <3> QED
      BY <2>1, <3>1
  <2>3. CASE status # "passed"
    BY <1>5, <2>1, <2>3 DEF Inspect
  <2> QED
    BY <2>2, <2>3
<1>6. CASE CallRule \/ EndRules
  BY <1>6 DEF CallRule, EndRules
<1>7. CASE Grant
  BY <1>7 DEF Grant
<1>8. CASE Plan
  BY <1>8 DEF Plan
<1>9. CASE Tick
  BY <1>9 DEF Tick
<1>10. ASSUME NEW r \in Async, LateAnswer(r) PROVE GivenUp' = {}
  BY <1>10 DEF LateAnswer
<1>11. CASE UNCHANGED vars
  BY <1>11 DEF vars
<1> QED
  BY <1>1, <1>2, <1>3, <1>4, <1>5, <1>6, <1>7, <1>8, <1>9, <1>10, <1>11 DEF Next, Loop

LEMMA Inductive == Spec => []Inv
<1>1. Inv /\ [Next]_vars => Inv'
  <2> SUFFICES ASSUME Inv, [Next]_vars PROVE Inv'
    OBVIOUS
  <2>1. TypeOK'
    BY TypeStep DEF Inv
  <2> QED
    BY <2>1, BehindStep, JudgedStep, PlaceStep, RewardedStep, SharedStep DEF Inv
<1> QED
  BY InvInit, <1>1, PTL DEF Spec

-------------------------------------------------------------------------------
\* Every rule of a Draft whose check passed has answered in time and without a complaint.
THEOREM PassedIsAnswered == Spec => []PassedIsChecked
<1>1. Inv => PassedIsChecked
  <2> SUFFICES ASSUME Inv, pc = "done", status = "passed", NEW r \in Rules PROVE told[r] = "clean"
    BY DEF PassedIsChecked
  <2>1. cur = upTo + 1 /\ upTo \in {N, Inspector} /\ (host.mode = "update" => upTo = Inspector)
    BY DEF Inv, Place, TypeOK
  <2>2. r \in Sync \cup (1..(cur - 1))
    BY <2>1, PreflightAssumption DEF Rules, Inspector
  <2> QED
    BY <2>2 DEF Inv, Judged, Behind
<1> QED
  BY Inductive, <1>1, PTL

\* What a check grants rests on an answer it accepted, whatever a late inspection stored.
THEOREM LateIsWorthless == Spec => []NothingLateIsGranted
<1>1. Inv => NothingLateIsGranted
  <2> SUFFICES ASSUME Inv, granted # "nothing" PROVE NothingLateIsGranted
    BY DEF NothingLateIsGranted
  <2>1. pc = "done" /\ status = "passed" /\ (granted = "certificate" => host.run # "clashes")
    BY DEF Inv, Rewarded
  <2>2. ASSUME host.mode = "update" PROVE told[Inspector] = "clean"
    <3>1. cur = Inspector + 1
      BY <2>1, <2>2 DEF Inv, Place
    <3>2. Inspector \in 1..(cur - 1)
      BY <3>1, PreflightAssumption DEF Inspector
    <3> QED
      BY <2>1, <3>2 DEF Inv, Judged, Behind
  <2> QED
    BY <2>1, <2>2 DEF NothingLateIsGranted
<1> QED
  BY Inductive, <1>1, PTL

\* A rule is called only while the budget it shares with the others is not used up.
THEOREM OneBudget == Spec => BudgetIsShared
<1>1. Inv /\ [Next]_vars => [open' \ open # {} => GivenUp = {} /\ deadline = Budget /\ now < Budget]_vars
  <2> SUFFICES ASSUME Inv, Next, open' \ open # {}
               PROVE  GivenUp = {} /\ deadline = Budget /\ now < Budget
    BY DEF vars
  <2>1. CallRule
    <3>1. ASSUME NEW a \in Answers, Answer(a) PROVE FALSE
      BY <3>1 DEF Answer
    <3>2. ASSUME NEW r \in Async, LateAnswer(r) PROVE FALSE
      BY <3>2 DEF LateAnswer
    <3> QED
      BY <3>1, <3>2 DEF Next, Loop, RunSyncRules, SkipRule, EndRules, Inspect, Grant, Plan, Timeout, Tick
  <2> QED
    BY <2>1, PreflightAssumption DEF CallRule, Inv, Shared, TypeOK
<1> QED
  BY Inductive, <1>1, PTL DEF Spec, BudgetIsShared
===============================================================================
