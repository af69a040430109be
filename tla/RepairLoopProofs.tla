---------------------------- MODULE RepairLoopProofs ----------------------------
(***************************************************************************)
(* Proofs about RepairLoop, for any budgets, diagnoses and number of edits. *)
(***************************************************************************)
EXTENDS RepairLoop, TLAPS

-------------------------------------------------------------------------------
(* What the ends of an action amount to. *)

LEMMA Ends ==
  ASSUME NEW s, NEW r, Return(s, r)
  PROVE  /\ pc' = "done" /\ UNCHANGED <<call, count>>
         /\ result'.status = s /\ result'.runId = HandedBack(runId', current')
BY DEF Return

\* An aborted loop, or one that has used up its calls, ends; else the tool is called.
LEMMA Begins ==
  ASSUME NEW tool, Begin(tool)
  PROVE  \/ /\ pc' = "done" /\ UNCHANGED <<call, count>>
            /\ result'.status = "stopped" /\ result'.runId = HandedBack(runId', current')
         \/ /\ pc' = "calling" /\ call' = tool
            /\ count < MaxCalls /\ count' = count + 1 /\ UNCHANGED result
BY DEF Begin, Cancelled, Return

\* The trace after one more call.
LEMMA Appended ==
  ASSUME NEW e \in Event, history \in Seq(Event), history' = Append(history, e)
  PROVE  /\ history' \in Seq(Event)
         /\ \A i \in Named' : \/ i \in Named /\ history'[i] = history[i]
                              \/ history'[i] = e /\ IsPublication(e.reply) /\ e.reply.run # 0
<1>1. history' \in Seq(Event) /\ DOMAIN history' = 1..(Len(history) + 1) /\ DOMAIN history = 1..Len(history)
  OBVIOUS
<1>2. ASSUME NEW i \in DOMAIN history' PROVE history'[i] = IF i \in DOMAIN history THEN history[i] ELSE e
  BY <1>1
<1> QED
  BY <1>1, <1>2 DEF Named

-------------------------------------------------------------------------------
(* The inductive invariant.  A run counts open or published versions: it was        *)
(* claimed for one that was not published yet, so that there are never more runs    *)
(* than versions.                                                                 *)

EngineType ==
  /\ version \in Versions /\ live \in 0..MaxVersion
  /\ run \in [id : RunIds \cup {0}, state : {"none", "open", "published"}, version : Versions]

EngineOK ==
  /\ live <= version
  /\ run.state = "open" => live < version /\ run.id <= live + 1
  /\ run.state # "open" => run.id <= live

\* What ends the loop has not been reached while it goes on.
LimitsOK == pc # "done" => rejects < 3 /\ stalls < 2 /\ used <= MaxRounds

\* The run a result would name now.
Handle == HandedBack(runId, current)

HandleOK ==
  /\ \A i \in Named : history[i].reply.run = Handle
  /\ IsPublication(current) /\ current.run # 0 /\ runId # 0 => runId = current.run
  /\ pc \in {"start", "calling", "deciding"} => Handle = runId
  /\ pc = "calling" /\ call = "resume" => runId # 0
  /\ pc = "calling" /\ call = "publish" => runId = 0
  /\ pc = "done" => result.runId = Handle

SuccessOK ==
  /\ Confirmed => live >= current.version
  /\ result # NoResult => pc = "done" /\ (result.status = "published" => Confirmed)

LoopType ==
  /\ pc \in {"start", "calling", "loop", "deciding", "done"} /\ call \in Tools
  /\ count \in 0..(MaxCalls + 1) /\ used \in 0..(MaxRounds + 1)
  /\ rejects \in 0..3 /\ stalls \in 0..2 /\ afterEdit \in BOOLEAN
  /\ lastSignature \in Signatures \cup {None}
  /\ runId \in RunIds \cup {0} /\ aborted \in BOOLEAN
  /\ current \in Check \cup Publication \cup {NoReply}
  /\ history \in Seq(Event)
  /\ result # NoResult => result.status \in {"published", "waiting", "needs_input", "stopped"}

\* Where there is something to look at, and that only the end has a result.
Shape ==
  /\ pc = "calling" /\ call \in {"publish", "edit"} => current # NoReply
  /\ pc \in {"loop", "deciding"} => current # NoReply
  /\ pc # "done" => result = NoResult

LoopOK == LoopType /\ Shape /\ LimitsOK /\ HandleOK /\ SuccessOK

Inv == EngineType /\ EngineOK /\ LoopOK

-------------------------------------------------------------------------------
(* The engine *)

\* All that the calls of the loop and the other clients can do to the Draft.
EngineMoves ==
  \/ UNCHANGED engineVars
  \/ version < MaxVersion /\ version' = version + 1 /\ UNCHANGED <<run, live>>
  \/ NewRun /\ UNCHANGED version
  \/ run.state = "open" /\ RunAt(run.id, version) /\ UNCHANGED version
  \/ run.state = "published" /\ live' = version /\ UNCHANGED <<run, version>>

LEMMA Moves == [Next]_vars => EngineMoves
<1> SUFFICES ASSUME [Next]_vars PROVE EngineMoves
  OBVIOUS
<1>1. CASE Start \/ Look \/ PreflightReturns \/ Interrupt \/ Abort
  BY <1>1 DEF Start, Look, PreflightReturns, Interrupt, Abort, EngineMoves, engineVars
<1>2. ASSUME NEW d, Decide(d) PROVE EngineMoves
  BY <1>2 DEF Decide, EngineMoves, engineVars
<1>3. CASE PublishReturns
  BY <1>3 DEF PublishReturns, EngineMoves, engineVars
<1>4. CASE ResumeReturns
  BY <1>4 DEF ResumeReturns, EngineMoves, engineVars
<1>5. CASE EditReturns
  BY <1>5 DEF EditReturns, EngineMoves, engineVars
<1>6. CASE OtherEdits \/ OtherPublishes
  BY <1>6 DEF OtherEdits, OtherPublishes, EngineMoves, engineVars
<1>7. CASE UNCHANGED vars
  BY <1>7 DEF vars, EngineMoves, engineVars
<1> QED
  BY <1>1, <1>2, <1>3, <1>4, <1>5, <1>6, <1>7 DEF Next, Replies

LEMMA EngineStep ==
  ASSUME EngineType, EngineOK, EngineMoves
  PROVE  EngineType' /\ EngineOK' /\ live' >= live
<1> USE LoopAssumption DEF EngineType, EngineOK, Versions, RunIds
<1>1. CASE UNCHANGED engineVars
  BY <1>1 DEF engineVars
<1>2. CASE version < MaxVersion /\ version' = version + 1 /\ UNCHANGED <<run, live>>
  BY <1>2
<1>3. CASE NewRun /\ UNCHANGED version
  BY <1>3 DEF NewRun, RunAt
<1>4. CASE run.state = "open" /\ RunAt(run.id, version) /\ UNCHANGED version
  BY <1>4 DEF RunAt
<1>5. CASE run.state = "published" /\ live' = version /\ UNCHANGED <<run, version>>
  BY <1>5
<1> QED
  BY <1>1, <1>2, <1>3, <1>4, <1>5 DEF EngineMoves

-------------------------------------------------------------------------------
(* The replies *)

\* A reply that confirms a publication tells the truth when it is given.
Truthful(reply) ==
  IsPublication(reply) /\ reply.state = "published" /\ reply.isCurrent => live' >= reply.version

LEMMA AboutRunReplies ==
  ASSUME version \in Versions, NEW id \in RunIds \cup {0},
         NEW states \in SUBSET RunStates, states = {"published"} \/ "published" \notin states,
         NEW checks \in SUBSET (CheckStatus \cup {None}), AboutRun(id, states, checks)
  PROVE  \E p \in Publication : p.run = id /\ Truthful(p) /\ Answered(p)
<1>1. PICK p \in [kind : {"publication"}, state : states, version : {version},
                  signature : Signatures, run : {id},
                  isCurrent : {id = run'.id /\ run'.version = version
                               /\ (states = {"published"} => live' = version)},
                  check : checks] : Answered(p)
  BY DEF AboutRun
<1>2. p.state \in states /\ p.version = version /\ p.run = id /\ p.check \in checks
  OBVIOUS
<1>3. p.isCurrent = (id = run'.id /\ run'.version = version /\ (states = {"published"} => live' = version))
  OBVIOUS
<1>4. p.isCurrent \in BOOLEAN
  BY <1>3
<1>5. p \in Publication
  BY <1>2, <1>4 DEF Publication
<1>6. p.state = "published" /\ p.isCurrent => live' = p.version
  BY <1>2, <1>3
<1>7. Truthful(p)
  BY <1>2, <1>6 DEF Truthful, Versions
<1> QED
  BY <1>1, <1>2, <1>5, <1>7

LEMMA LatestRunReplies ==
  ASSUME version \in Versions, run'.id \in RunIds \cup {0},
         NEW checks \in SUBSET (CheckStatus \cup {None}), LatestRun(checks)
  PROVE  \E p \in Publication : p.run = run'.id /\ Truthful(p) /\ Answered(p)
<1> DEFINE states == IF run'.state = "published" THEN {"published"} ELSE RunStates \ {"published"}
<1>1. states \in SUBSET RunStates /\ (states = {"published"} \/ "published" \notin states)
  BY DEF RunStates
<1>2. AboutRun(run'.id, states, checks)
  BY DEF LatestRun
<1> HIDE DEF states
<1> QED
  BY <1>1, <1>2, AboutRunReplies

LEMMA WithoutRunReplies ==
  ASSUME version \in Versions, NEW state \in {"published", "blocked"},
         NEW signatures \in SUBSET Signatures,
         WithoutRun(state, signatures), state = "published" => live' = version
  PROVE  \E p \in Publication : Truthful(p) /\ Answered(p)
<1>1. PICK sig \in signatures :
        Answered([kind |-> "publication", state |-> state, version |-> version, signature |-> sig,
                  run |-> 0, isCurrent |-> state = "published", check |-> None])
  BY DEF WithoutRun
<1> DEFINE p == [kind |-> "publication", state |-> state, version |-> version, signature |-> sig,
                 run |-> 0, isCurrent |-> state = "published", check |-> None]
<1>2. p \in Publication
  BY DEF Publication, RunStates
<1>3. Truthful(p)
  BY DEF Truthful, Versions
<1> QED
  BY <1>1, <1>2, <1>3

\* What publish does to the loop.
LEMMA PublishAnswers ==
  ASSUME EngineType, EngineType', PublishReturns
  PROVE  Failed \/ \E p \in Publication : Truthful(p) /\ Answered(p)
<1>1. version \in Versions /\ run'.id \in RunIds \cup {0}
  BY DEF EngineType
<1>2. CASE LatestRun({None})
  BY <1>1, <1>2, LatestRunReplies
<1>3. CASE live' = version /\ WithoutRun("published", {Clean})
  BY <1>1, <1>3, WithoutRunReplies, LoopAssumption
<1>4. CASE WithoutRun("blocked", Signatures)
  BY <1>1, <1>4, WithoutRunReplies
<1> QED
  BY <1>2, <1>3, <1>4 DEF PublishReturns

\* What resume does to the loop: its answer is about the very run.
LEMMA ResumeAnswers ==
  ASSUME EngineType, EngineType', runId \in RunIds \cup {0}, ResumeReturns
  PROVE  Failed \/ \E p \in Publication : p.run = runId /\ Truthful(p) /\ Answered(p)
<1>1. version \in Versions /\ run'.id \in RunIds \cup {0}
  BY DEF EngineType
<1>2. CASE AboutRun(runId, {"published"}, {None})
  BY <1>1, <1>2, AboutRunReplies DEF RunStates
<1>3. CASE runId = run.id /\ (RunAt(run.id, version) \/ UNCHANGED run)
           /\ LatestRun({None})
  <2>1. run'.id = runId
    BY <1>3 DEF RunAt
  <2> QED
    BY <1>1, <1>3, <2>1, LatestRunReplies
<1>4. CASE runId = run.id /\ UNCHANGED run /\ LatestRun((CheckStatus \ {"passed"}) \cup {None})
  BY <1>1, <1>4, LatestRunReplies
<1> QED
  BY <1>2, <1>3, <1>4 DEF ResumeReturns

LEMMA PreflightAnswers ==
  ASSUME EngineType, PreflightReturns
  PROVE  Failed \/ \E c \in Check : Answered(c)
<1> SUFFICES ASSUME ~Failed PROVE \E c \in Check : Answered(c)
  OBVIOUS
<1>1. PICK c \in [kind : {"check"}, status : CheckStatus, version : {version},
                  signature : Signatures, certificate : BOOLEAN] : Answered(c)
  BY DEF PreflightReturns
<1>2. c \in Check
  BY DEF EngineType, Check
<1> QED
  BY <1>1, <1>2

-------------------------------------------------------------------------------
(* The loop, one kind of step at a time *)

\* The world moves, the loop waits.
LEMMA WaitKeeps ==
  ASSUME LoopOK, aborted' \in BOOLEAN, live' >= live, EngineType, EngineType',
         UNCHANGED <<pc, call, count, counters, runId, current, history, result>>
  PROVE  LoopOK'
<1>1. LoopType'
  BY DEF LoopOK, LoopType, counters
<1>2. Shape' /\ LimitsOK'
  BY DEF LoopOK, Shape, LimitsOK, counters
<1>3. HandleOK'
  BY DEF LoopOK, HandleOK, Handle, HandedBack, Named
<1>4. SuccessOK'
  <2>1. Confirmed' <=> Confirmed
    BY DEF Confirmed
  <2>2. ASSUME Confirmed PROVE live' >= current.version
    <3>1. live >= current.version
      BY <2>2 DEF LoopOK, SuccessOK
    <3>2. current.version \in Versions
      BY <2>2 DEF LoopOK, LoopType, Confirmed, IsPublication, Publication, Check, NoReply
    <3> QED
      BY <3>1, <3>2 DEF EngineType, Versions
  <2> QED
    BY <2>1, <2>2 DEF LoopOK, SuccessOK
<1> QED
  BY <1>1, <1>2, <1>3, <1>4 DEF LoopOK

\* A call is answered.  A publish is only called while no run is known, and a resume
\* is answered about the known run.
LEMMA AnswerKeeps ==
  ASSUME LoopOK, EngineType', NEW reply \in Check \cup Publication, Answered(reply),
         Truthful(reply), pc = "calling",
         IsPublication(reply) => call \in {"publish", "resume"},
         call = "resume" => reply.run = runId
  PROVE  LoopOK'
<1> DEFINE e == [tool |-> call, ok |-> TRUE, reply |-> reply]
<1>1. /\ history' = Append(history, e) /\ current' = reply /\ pc' = "loop"
      /\ UNCHANGED <<call, count, used, rejects, stalls, lastSignature, afterEdit, runId, result, aborted>>
  BY DEF Answered, counters
<1>2. e \in Event
  BY DEF Event, LoopOK, LoopType
<1>3. /\ history' \in Seq(Event)
      /\ \A i \in Named' : \/ i \in Named /\ history'[i] = history[i]
                           \/ history'[i] = e /\ IsPublication(reply) /\ reply.run # 0
  BY <1>1, <1>2, Appended DEF LoopOK, LoopType
<1>4. LoopType'
  BY <1>1, <1>3 DEF LoopOK, LoopType
<1>5. Shape' /\ LimitsOK'
  <2>1. reply # NoReply
    BY DEF Check, Publication, NoReply
  <2> QED
    BY <1>1, <2>1 DEF LoopOK, Shape, LimitsOK
<1>6. HandleOK'
  <2>1. IsPublication(reply) /\ runId # 0 => reply.run = runId
    BY DEF LoopOK, HandleOK
  <2>2. Handle' = IF runId = 0 /\ IsPublication(reply) THEN reply.run ELSE runId
    BY <1>1 DEF Handle, HandedBack
  <2>3. ASSUME NEW i \in Named' PROVE history'[i].reply.run = Handle'
    <3>1. CASE i \in Named /\ history'[i] = history[i]
      <4>1. history[i].reply.run = runId /\ runId # 0
        BY <3>1 DEF LoopOK, HandleOK, Named
      <4> QED
        BY <3>1, <4>1, <2>2
    <3>2. CASE history'[i] = e /\ IsPublication(reply) /\ reply.run # 0
      BY <3>2, <2>1, <2>2
    <3> QED
      BY <1>3, <3>1, <3>2
  <2> QED
    BY <1>1, <2>1, <2>3 DEF HandleOK
<1>7. SuccessOK'
  <2>1. Confirmed' => live' >= current'.version
    BY <1>1 DEF Confirmed, Truthful
  <2>2. result' = NoResult
    BY <1>1 DEF LoopOK, Shape
  <2> QED
    BY <2>1, <2>2 DEF SuccessOK
<1> QED
  BY <1>4, <1>5, <1>6, <1>7 DEF LoopOK

CountersOK ==
  /\ used \in 0..(MaxRounds + 1) /\ rejects \in 0..3 /\ stalls \in 0..2
  /\ lastSignature \in Signatures \cup {None} /\ afterEdit \in BOOLEAN
  /\ LimitsOK

\* The three ways to go on without a reply.
Ended ==
  /\ pc' = "done" /\ UNCHANGED <<call, count>>
  /\ result'.status \in {"published", "waiting", "needs_input", "stopped"}
  /\ result'.status = "published" => Confirmed
  /\ result'.runId = HandedBack(runId', current')

Called(tool) ==
  pc' = "calling" /\ call' = tool /\ count' \in 0..(MaxCalls + 1) /\ UNCHANGED result

GoesOn == pc' \in {"loop", "deciding"} /\ UNCHANGED <<call, count, result>>

\* The loop goes on without a reply, remembering what the latest one said or waiting
\* for something that needs no more.
LEMMA MoveKeeps ==
  ASSUME LoopOK, EngineType, EngineType', live' >= live, UNCHANGED <<current, aborted>>,
         CountersOK', pc # "done",
         UNCHANGED history \/ \E tool \in Tools, ok \in BOOLEAN :
           history' = Append(history, [tool |-> tool, ok |-> ok, reply |-> NoReply]),
         Remember \/ (UNCHANGED runId /\ (pc # "loop" \/ pc' = "done")),
         \/ Ended
         \/ GoesOn /\ current # NoReply
         \/ \E tool \in Tools : /\ Called(tool)
                                /\ tool = "resume" => runId' # 0
                                /\ tool = "publish" => runId' = 0
                                /\ tool \in {"publish", "edit"} => current # NoReply
  PROVE  LoopOK'
<1>1. /\ history' \in Seq(Event)
      /\ \A i \in Named' : i \in Named /\ history'[i] = history[i]
  <2>1. CASE UNCHANGED history
    BY <2>1 DEF LoopOK, LoopType, Named
  <2>2. CASE \E tool \in Tools, ok \in BOOLEAN :
               history' = Append(history, [tool |-> tool, ok |-> ok, reply |-> NoReply])
    <3>1. PICK tool \in Tools, ok \in BOOLEAN :
                 history' = Append(history, [tool |-> tool, ok |-> ok, reply |-> NoReply])
      BY <2>2
    <3> DEFINE e == [tool |-> tool, ok |-> ok, reply |-> NoReply]
    <3>2. e \in Event /\ ~IsPublication(e.reply)
      BY DEF Event, IsPublication, NoReply
    <3> HIDE DEF e
    <3>3. history' = Append(history, e)
      BY <3>1 DEF e
    <3> QED
      BY <3>2, <3>3, Appended DEF LoopOK, LoopType
  <2> QED
    BY <2>1, <2>2
<1>2. /\ runId' \in RunIds \cup {0} /\ Handle' = Handle
      /\ IsPublication(current) /\ current.run # 0 /\ runId' # 0 => runId' = current.run
      /\ pc' \in {"calling", "deciding"} => Handle' = runId'
  <2>1. IsPublication(current) => current.run \in RunIds \cup {0}
    BY DEF LoopOK, LoopType, IsPublication, Publication, Check, NoReply
  <2>2. /\ runId \in RunIds \cup {0}
        /\ IsPublication(current) /\ current.run # 0 /\ runId # 0 => runId = current.run
        /\ pc \in {"start", "calling", "deciding"} => Handle = runId
    BY DEF LoopOK, LoopType, HandleOK
  <2>3. CASE Remember
    BY <2>1, <2>2, <2>3 DEF Remember, Handle, HandedBack
  <2>4. CASE UNCHANGED runId /\ (pc # "loop" \/ pc' = "done")
    <3>1. Handle' = Handle
      BY <2>4 DEF Handle, HandedBack
    <3>2. pc' \in {"calling", "deciding"} => pc \in {"start", "calling", "deciding"}
      BY <2>4 DEF LoopOK, LoopType
    <3> QED
      BY <2>2, <2>4, <3>1, <3>2
  <2> QED
    BY <2>3, <2>4
<1>3. /\ pc' \in {"calling", "loop", "deciding", "done"} /\ call' \in Tools
      /\ count' \in 0..(MaxCalls + 1)
  BY DEF LoopOK, LoopType, Ended, Called, GoesOn
<1>4. pc' # "done" => UNCHANGED result /\ result' = NoResult
  BY DEF LoopOK, Shape, Ended, Called, GoesOn
<1>5. pc' = "done" => Ended
  BY DEF Called, GoesOn
<1>6. LoopType'
  <2>1. result' # NoResult => result'.status \in {"published", "waiting", "needs_input", "stopped"}
    BY <1>4, <1>5 DEF Ended
  <2>2. current' \in Check \cup Publication \cup {NoReply} /\ aborted' \in BOOLEAN
    BY DEF LoopOK, LoopType
  <2> QED
    BY <1>1, <1>2, <1>3, <2>1, <2>2 DEF LoopType, CountersOK
<1>7. Shape'
  <2>1. pc' = "calling" /\ call' \in {"publish", "edit"} => current # NoReply
    BY DEF Ended, Called, GoesOn
  <2>2. pc' \in {"loop", "deciding"} => current # NoReply
    BY DEF Ended, Called, GoesOn
  <2> QED
    BY <1>4, <2>1, <2>2 DEF Shape
<1>8. HandleOK'
  <2>1. \A i \in Named' : history'[i].reply.run = Handle'
    BY <1>1, <1>2 DEF LoopOK, HandleOK
  <2>2. pc' = "done" => result'.runId = Handle'
    BY <1>5 DEF Ended, Handle
  <2>3. pc' = "calling" => /\ call' = "resume" => runId' # 0
                           /\ call' = "publish" => runId' = 0
    BY DEF Ended, Called, GoesOn
  <2> QED
    BY <1>2, <1>3, <2>1, <2>2, <2>3 DEF HandleOK
<1>9. SuccessOK'
  <2>1. Confirmed' <=> Confirmed
    BY DEF Confirmed
  <2>2. ASSUME Confirmed PROVE live' >= current.version
    <3>1. live >= current.version
      BY <2>2 DEF LoopOK, SuccessOK
    <3>2. current.version \in Versions
      BY <2>2 DEF LoopOK, LoopType, Confirmed, IsPublication, Publication, Check, NoReply
    <3> QED
      BY <3>1, <3>2 DEF EngineType, Versions
  <2>3. result' # NoResult => pc' = "done" /\ (result'.status = "published" => Confirmed)
    BY <1>4, <1>5 DEF Ended
  <2> QED
    BY <2>1, <2>2, <2>3 DEF SuccessOK
<1> QED
  BY <1>6, <1>7, <1>8, <1>9 DEF LoopOK, CountersOK

LEMMA BeginMoves ==
  ASSUME LoopType, NEW tool, Begin(tool)
  PROVE  Ended \/ Called(tool)
BY Begins, LoopAssumption DEF LoopType, Ended, Called

LEMMA ReturnEnds ==
  ASSUME NEW s \in {"waiting", "needs_input", "stopped"}, NEW r, Return(s, r)
  PROVE  Ended
BY Ends DEF Ended

-------------------------------------------------------------------------------
(* The actions of the loop *)

LEMMA StartKeeps ==
  ASSUME LoopOK, EngineType, EngineType', live' >= live, Start
  PROVE  LoopOK'
<1> DEFINE tool == IF runId # 0 THEN "resume" ELSE "preflight"
<1>1. /\ pc = "start" /\ UNCHANGED <<runId, current, history, aborted>>
      /\ UNCHANGED <<used, rejects, stalls, lastSignature, afterEdit>>
  BY DEF Start, counters
<1>2. Ended \/ Called(tool)
  BY BeginMoves DEF Start, LoopOK
<1>3. CountersOK'
  BY <1>1 DEF LoopOK, LoopType, LimitsOK, CountersOK
<1>4. tool \in Tools /\ (tool = "resume" => runId' # 0) /\ tool \notin {"publish", "edit"}
  BY <1>1 DEF Tools
<1> HIDE DEF tool
<1> QED
  BY <1>1, <1>2, <1>3, <1>4, MoveKeeps

\* Asking the model, or giving up on it.
LEMMA DiagnoseMoves ==
  ASSUME LoopOK, pc = "loop", Diagnose
  PROVE  CountersOK' /\ (Ended \/ GoesOn)
<1>1. /\ used \in 0..(MaxRounds + 1) /\ rejects \in 0..3 /\ stalls \in 0..2
      /\ lastSignature \in Signatures \cup {None} /\ afterEdit \in BOOLEAN
      /\ rejects < 3 /\ stalls < 2 /\ used <= MaxRounds
  BY DEF LoopOK, LoopType, LimitsOK
<1>2. Stalls \in 0..2
  BY <1>1 DEF Stalls
<1>3. CASE UNCHANGED counters /\ Return("stopped", "no_actionable_diagnostics")
  BY <1>1, <1>3, ReturnEnds DEF CountersOK, LimitsOK, counters
<1>4. CASE /\ stalls' = Stalls /\ afterEdit' = FALSE /\ UNCHANGED <<rejects, lastSignature>>
           /\ \/ stalls' >= 2 /\ Return("stopped", "no_progress") /\ UNCHANGED used
              \/ stalls' < 2 /\ used >= MaxRounds /\ used' = used + 1 /\ Return("stopped", "round_budget")
              \/ /\ stalls' < 2 /\ used < MaxRounds /\ used' = used + 1
                 /\ pc' = "deciding" /\ UNCHANGED <<call, count, result>>
  <2>1. Ended \/ GoesOn
    BY <1>4, ReturnEnds DEF GoesOn
  <2>2. used' \in 0..(MaxRounds + 1)
    BY <1>1, <1>4, LoopAssumption
  <2>3. pc' # "done" => stalls' < 2 /\ used' <= MaxRounds
    BY <1>1, <1>4, LoopAssumption DEF Return
  <2> QED
    BY <1>1, <1>2, <1>4, <2>1, <2>2, <2>3 DEF CountersOK, LimitsOK
<1> QED
  BY <1>3, <1>4 DEF Diagnose

LEMMA LookKeeps ==
  ASSUME LoopOK, EngineType, EngineType', live' >= live, Look
  PROVE  LoopOK'
<1>1. pc = "loop" /\ UNCHANGED <<current, history, aborted>>
  BY DEF Look
<1>2. current # NoReply
  BY <1>1 DEF LoopOK, Shape
<1>3. ASSUME UNCHANGED counters PROVE CountersOK'
  BY <1>1, <1>3 DEF LoopOK, LoopType, LimitsOK, CountersOK, counters
<1>4. CASE UNCHANGED <<runId, counters>> /\ Cancelled
  <2>1. Ended
    BY <1>4, ReturnEnds DEF Cancelled
  <2>2. UNCHANGED runId /\ pc' = "done"
    BY <1>4, <2>1 DEF Ended
  <2> QED
    BY <1>1, <1>3, <1>4, <2>1, <2>2, MoveKeeps
<1>5. CASE Remember /\ Act
  <2>1. CASE Confirmed /\ Return("published", "engine_confirmed") /\ UNCHANGED counters
    <3>1. Ended
      BY <2>1, Ends DEF Ended
    <3> QED
      BY <1>1, <1>3, <1>5, <2>1, <3>1, MoveKeeps
  <2>2. ASSUME NEW s \in {"waiting", "stopped"}, NEW r, Return(s, r), UNCHANGED counters
        PROVE  LoopOK'
    <3>1. Ended
      BY <2>2, ReturnEnds
    <3> QED
      BY <1>1, <1>3, <1>5, <2>2, <3>1, MoveKeeps
  <2>3. CASE Passed /\ UNCHANGED counters /\ Begin(IF runId # 0 THEN "resume" ELSE "publish")
    <3> DEFINE tool == IF runId # 0 THEN "resume" ELSE "publish"
    <3>1. runId' = runId
      BY <1>5, <2>3 DEF Passed, Remember
    <3>2. Ended \/ Called(tool)
      BY <2>3, BeginMoves DEF LoopOK
    <3>3. /\ tool \in Tools
          /\ tool = "resume" => runId' # 0
          /\ tool = "publish" => runId' = 0
      BY <3>1 DEF Tools
    <3> HIDE DEF tool
    <3>4. CountersOK'
      BY <1>3, <2>3
    <3>5. Ended \/ \E t \in Tools : /\ Called(t)
                                    /\ t = "resume" => runId' # 0
                                    /\ t = "publish" => runId' = 0
                                    /\ t \in {"publish", "edit"} => current # NoReply
      BY <1>2, <3>2, <3>3 DEF Tools
    <3> QED
      BY <1>1, <1>5, <3>4, <3>5, MoveKeeps
  <2>4. CASE Diagnose
    <3>1. CountersOK' /\ (Ended \/ GoesOn)
      BY <1>1, <2>4, DiagnoseMoves
    <3> QED
      BY <1>1, <1>2, <1>5, <3>1, MoveKeeps
  <2> QED
    BY <1>5, <2>1, <2>2, <2>3, <2>4 DEF Act
<1> QED
  BY <1>4, <1>5 DEF Look

LEMMA RejectedMoves ==
  ASSUME LoopOK, pc # "done", Rejected
  PROVE  CountersOK' /\ (Ended \/ GoesOn)
<1>1. Ended \/ GoesOn
  BY ReturnEnds DEF Rejected, GoesOn
<1>2. /\ used \in 0..(MaxRounds + 1) /\ rejects \in 0..3 /\ stalls \in 0..2
      /\ lastSignature \in Signatures \cup {None} /\ afterEdit \in BOOLEAN
      /\ rejects < 3 /\ stalls < 2 /\ used <= MaxRounds
  BY DEF LoopOK, LoopType, LimitsOK
<1>3. rejects' \in 0..3 /\ (pc' # "done" => rejects' < 3)
  BY <1>2 DEF Rejected, Return
<1> QED
  BY <1>1, <1>2, <1>3 DEF Rejected, CountersOK, LimitsOK

LEMMA DecideKeeps ==
  ASSUME LoopOK, EngineType, EngineType', live' >= live, NEW d, Decide(d)
  PROVE  LoopOK'
<1>1. pc = "deciding" /\ UNCHANGED <<runId, current, history, aborted>>
  BY DEF Decide
<1>2. current # NoReply
  BY <1>1 DEF LoopOK, Shape
<1>3. ASSUME UNCHANGED counters PROVE CountersOK'
  BY <1>1, <1>3 DEF LoopOK, LoopType, LimitsOK, CountersOK, counters
<1>4. CASE Rejected
  <2>1. CountersOK' /\ (Ended \/ GoesOn)
    BY <1>1, <1>4, RejectedMoves
  <2> QED
    BY <1>1, <1>2, <2>1, MoveKeeps
<1>5. ASSUME NEW s \in {"needs_input", "stopped"}, NEW r, Return(s, r), UNCHANGED counters
      PROVE  LoopOK'
  <2>1. Ended
    BY <1>5, ReturnEnds
  <2> QED
    BY <1>1, <1>3, <1>5, <2>1, MoveKeeps
<1>6. CASE Begin("edit") /\ UNCHANGED counters
  <2>1. Ended \/ Called("edit")
    BY <1>6, BeginMoves DEF LoopOK
  <2>2. Ended \/ \E t \in Tools : /\ Called(t)
                                  /\ t = "resume" => runId' # 0
                                  /\ t = "publish" => runId' = 0
                                  /\ t \in {"publish", "edit"} => current # NoReply
    BY <1>2, <2>1 DEF Tools
  <2> QED
    BY <1>1, <1>3, <1>6, <2>2, MoveKeeps
<1> QED
  BY <1>4, <1>5, <1>6 DEF Decide

LEMMA InterruptKeeps ==
  ASSUME LoopOK, EngineType, EngineType', live' >= live, Interrupt
  PROVE  LoopOK'
<1>1. pc = "deciding" /\ UNCHANGED <<runId, current, history, aborted>>
  BY DEF Interrupt
<1>2. CountersOK'
  BY <1>1 DEF Interrupt, LoopOK, LoopType, LimitsOK, CountersOK, counters
<1>3. Ended
  BY ReturnEnds DEF Interrupt, Cancelled
<1> QED
  BY <1>1, <1>2, <1>3, MoveKeeps

\* A failed call ends the loop.
LEMMA FailedKeeps ==
  ASSUME LoopOK, EngineType, EngineType', live' >= live, pc = "calling", Failed
  PROVE  LoopOK'
<1>1. UNCHANGED <<runId, current, aborted>>
  BY DEF Failed
<1>2. CountersOK'
  BY DEF Failed, LoopOK, LoopType, LimitsOK, CountersOK, counters
<1>3. Ended
  BY ReturnEnds DEF Failed
<1>4. call \in Tools /\ history' = Append(history, [tool |-> call, ok |-> FALSE, reply |-> NoReply])
  BY DEF Failed, Refused, LoopOK, LoopType
<1>5. \E tool \in Tools, ok \in BOOLEAN :
        history' = Append(history, [tool |-> tool, ok |-> ok, reply |-> NoReply])
  BY <1>4
<1> QED
  BY <1>1, <1>2, <1>3, <1>5, MoveKeeps

LEMMA RepliesKeep ==
  ASSUME LoopOK, EngineType, EngineType', live' >= live,
         PreflightReturns \/ PublishReturns \/ ResumeReturns
  PROVE  LoopOK'
<1>1. pc = "calling"
  BY DEF PreflightReturns, PublishReturns, ResumeReturns
<1>2. CASE Failed
  BY <1>1, <1>2, FailedKeeps
<1>3. CASE ~Failed /\ PreflightReturns
  <2>1. PICK c \in Check : Answered(c)
    BY <1>3, PreflightAnswers
  <2>2. ~IsPublication(c)
    BY DEF Check, IsPublication
  <2>3. call = "preflight" /\ Truthful(c)
    BY <1>3, <2>2 DEF PreflightReturns, Truthful
  <2> QED
    BY <1>1, <2>1, <2>2, <2>3, AnswerKeeps
<1>4. CASE ~Failed /\ PublishReturns
  <2>1. PICK p \in Publication : Truthful(p) /\ Answered(p)
    BY <1>4, PublishAnswers
  <2>2. call = "publish"
    BY <1>4 DEF PublishReturns
  <2> QED
    BY <1>1, <2>1, <2>2, AnswerKeeps
<1>5. CASE ~Failed /\ ResumeReturns
  <2>1. runId \in RunIds \cup {0}
    BY DEF LoopOK, LoopType
  <2>2. PICK p \in Publication : p.run = runId /\ Truthful(p) /\ Answered(p)
    BY <1>5, <2>1, ResumeAnswers
  <2>3. call = "resume"
    BY <1>5 DEF ResumeReturns
  <2> QED
    BY <1>1, <2>2, <2>3, AnswerKeeps
<1> QED
  BY <1>2, <1>3, <1>4, <1>5

LEMMA EditKeeps ==
  ASSUME LoopOK, EngineType, EngineType', live' >= live, EditReturns
  PROVE  LoopOK'
<1>1. pc = "calling" /\ call = "edit" /\ UNCHANGED <<runId, current, aborted>>
  BY DEF EditReturns
<1>2. current # NoReply
  BY <1>1 DEF LoopOK, Shape
<1>3. \E tool \in Tools, ok \in BOOLEAN :
        history' = Append(history, [tool |-> tool, ok |-> ok, reply |-> NoReply])
  BY <1>1 DEF EditReturns, Refused, Tools
<1>4. current.signature \in Signatures
  BY <1>2 DEF LoopOK, LoopType, Check, Publication
<1>5. ASSUME Begin("preflight"), CountersOK' PROVE LoopOK'
  <2>1. Ended \/ Called("preflight")
    BY <1>5, BeginMoves DEF LoopOK
  <2>2. Ended \/ \E t \in Tools : /\ Called(t)
                                  /\ t = "resume" => runId' # 0
                                  /\ t = "publish" => runId' = 0
                                  /\ t \in {"publish", "edit"} => current # NoReply
    BY <2>1 DEF Tools
  <2> QED
    BY <1>1, <1>3, <1>5, <2>2, MoveKeeps
<1>6. CASE /\ rejects' = 0 /\ lastSignature' = current.signature /\ afterEdit' = TRUE
           /\ UNCHANGED <<used, stalls>> /\ Begin("preflight")
  <2>1. CountersOK'
    BY <1>1, <1>4, <1>6 DEF LoopOK, LoopType, LimitsOK, CountersOK
  <2> QED
    BY <1>5, <1>6, <2>1
<1>7. CASE lastSignature' = None /\ UNCHANGED <<used, rejects, stalls, afterEdit>> /\ Begin("preflight")
  <2>1. CountersOK'
    BY <1>1, <1>7 DEF LoopOK, LoopType, LimitsOK, CountersOK
  <2> QED
    BY <1>5, <1>7, <2>1
<1>8. CASE Rejected
  <2>1. CountersOK' /\ (Ended \/ GoesOn)
    BY <1>1, <1>8, RejectedMoves
  <2> QED
    BY <1>1, <1>2, <1>3, <2>1, MoveKeeps
<1>9. CASE UNCHANGED counters /\ Return("stopped", "edit_refused")
  <2>1. CountersOK'
    BY <1>1, <1>9 DEF LoopOK, LoopType, LimitsOK, CountersOK, counters
  <2>2. Ended
    BY <1>9, ReturnEnds
  <2> QED
    BY <1>1, <1>3, <2>1, <2>2, MoveKeeps
<1> QED
  BY <1>6, <1>7, <1>8, <1>9 DEF EditReturns

-------------------------------------------------------------------------------
(* The invariant holds *)

LEMMA InvInit == Init => Inv
<1> SUFFICES ASSUME Init PROVE Inv
  OBVIOUS
<1>1. PICK open \in BOOLEAN :
        /\ run = [id |-> IF open THEN 1 ELSE 0, state |-> IF open THEN "open" ELSE "none", version |-> 1]
        /\ runId \in {0, run.id}
  BY DEF Init
<1>2. EngineType /\ EngineOK
  BY <1>1, LoopAssumption DEF Init, EngineType, EngineOK, Versions, RunIds
<1>3. runId \in RunIds \cup {0}
  BY <1>1, LoopAssumption DEF RunIds
<1>4. history \in Seq(Event) /\ DOMAIN history = {}
  BY DEF Init
<1>5. LoopType
  <2>1. /\ MaxCalls + 1 \in Nat /\ MaxRounds + 1 \in Nat
        /\ 0 \in 0..(MaxCalls + 1) /\ 0 \in 0..(MaxRounds + 1) /\ 0 \in 0..3 /\ 0 \in 0..2
    BY LoopAssumption
  <2>2. count \in 0..(MaxCalls + 1) /\ used \in 0..(MaxRounds + 1) /\ rejects \in 0..3 /\ stalls \in 0..2
    BY <2>1 DEF Init
  <2>3. /\ pc \in {"start", "calling", "loop", "deciding", "done"} /\ call \in Tools
        /\ lastSignature \in Signatures \cup {None}
        /\ current \in Check \cup Publication \cup {NoReply} /\ result = NoResult
    BY DEF Init, Tools
  <2>4. afterEdit \in BOOLEAN /\ aborted \in BOOLEAN
    BY DEF Init
  <2> QED
    BY <1>3, <1>4, <2>2, <2>3, <2>4 DEF LoopType
<1>6. Shape /\ LimitsOK
  BY LoopAssumption DEF Init, Shape, LimitsOK
<1>7. ~IsPublication(current)
  BY DEF Init, IsPublication, NoReply
<1>8. HandleOK /\ SuccessOK
  BY <1>4, <1>7 DEF Init, HandleOK, SuccessOK, Handle, HandedBack, Named, Confirmed
<1> QED
  BY <1>2, <1>5, <1>6, <1>8 DEF Inv, LoopOK

LEMMA InvStep == Inv /\ [Next]_vars => Inv'
<1> SUFFICES ASSUME Inv, [Next]_vars PROVE Inv'
  OBVIOUS
<1>1. LoopOK /\ EngineType /\ EngineType' /\ EngineOK' /\ live' >= live
  BY Moves, EngineStep DEF Inv
<1>2. CASE Start
  BY <1>1, <1>2, StartKeeps DEF Inv
<1>3. CASE Look
  BY <1>1, <1>3, LookKeeps DEF Inv
<1>4. CASE PreflightReturns \/ PublishReturns \/ ResumeReturns
  BY <1>1, <1>4, RepliesKeep DEF Inv
<1>5. CASE EditReturns
  BY <1>1, <1>5, EditKeeps DEF Inv
<1>6. CASE Interrupt
  BY <1>1, <1>6, InterruptKeeps DEF Inv
<1>7. ASSUME NEW d \in {"invalid", "ask", "stop", "throw", "patch"}, Decide(d) PROVE Inv'
  BY <1>1, <1>7, DecideKeeps DEF Inv
<1>8. CASE Abort \/ OtherEdits \/ OtherPublishes \/ UNCHANGED vars
  <2>1. aborted' \in BOOLEAN
    BY <1>1, <1>8 DEF Abort, OtherEdits, OtherPublishes, vars, LoopOK, LoopType
  <2>2. UNCHANGED <<pc, call, count, counters, runId, current, history, result>>
    BY <1>8 DEF Abort, OtherEdits, OtherPublishes, vars
  <2> QED
    BY <1>1, <2>1, <2>2, WaitKeeps DEF Inv
<1> QED
  BY <1>2, <1>3, <1>4, <1>5, <1>6, <1>7, <1>8 DEF Next, Replies

LEMMA Invariance == Spec => []Inv
<1> QED
  BY InvInit, InvStep, PTL DEF Spec

-------------------------------------------------------------------------------
(* What giving up rests on: the trace, what was on show when each batch was sent, and *)
(* what the stalls have counted.                                                     *)

\* Event j holds the reply that was on show before event i.
ShownAt(i, j) ==
  /\ j \in 1..(i - 1) /\ history[j].reply # NoReply
  /\ \A k \in 1..(i - 1) : history[k].reply # NoReply => k <= j

\* The edits, and the one still to come.
Batches == Edits \cup {Len(history) + 1}

NextBatch(i, n) == n \in Batches /\ n > i /\ \A m \in Batches : m > i => n <= m

LastEdit(i) == i \in Edits /\ \A k \in Edits : k <= i

LastAccepted == \E i \in Edits : LastEdit(i) /\ history[i].ok

\* The model is asked about this reply, and nothing else is done with it.
ToDiagnose ==
  ~Confirmed /\ ~InFlight /\ Awaits \notin Unfinished /\ ~Historical /\ ~Passed

\* The accepted edits whose effect the loop has looked at.
Counted == {i \in Edits : history[i].ok /\ ~(afterEdit /\ LastEdit(i))}

FruitlessFrom(i) == \A k \in Counted : k >= i => Fruitless(k)

TraceOK ==
  /\ Edits # {} => current # NoReply
  /\ current # NoReply =>
       \E j \in DOMAIN history : ShownAt(Len(history) + 1, j) /\ history[j].reply = current
  /\ \A i \in Edits : /\ \E j \in DOMAIN history : ShownAt(i, j)
                      /\ \E n \in Batches : NextBatch(i, n)

\* Only the next batch is sent from here, or the model is asked for it.
Settled ==
  \/ pc \in {"deciding", "done"}
  \/ pc = "calling" /\ call = "edit"
  \/ pc = "loop" /\ ToDiagnose

\* What was on show before the last edit is compared with the first thing to diagnose
\* after it, and from then on nothing is called but the next edit.
LookedAt ==
  /\ afterEdit => /\ \E i \in Edits : /\ LastEdit(i) /\ history[i].ok
                                      /\ lastSignature = Shown(i).signature
                  /\ pc # "deciding" /\ ~(pc = "calling" /\ call = "edit")
  /\ ~afterEdit /\ LastAccepted => Settled
  /\ pc = "deciding" => ToDiagnose

StallsOK ==
  /\ stalls >= 1 => \E i \in Counted : FruitlessFrom(i)
  /\ stalls >= 2 => \E i, j \in Counted : i < j /\ FruitlessFrom(i)

ReasonOK ==
  result # NoResult /\ result.reason = "no_progress" => stalls >= 2 /\ ~afterEdit

ProgressOK == TraceOK /\ LookedAt /\ StallsOK /\ ReasonOK

-------------------------------------------------------------------------------
(* The trace as it grows *)

LEMMA LeastIs ==
  ASSUME NEW S \in SUBSET Nat, NEW n \in S, \A m \in S : n <= m
  PROVE  (CHOOSE j \in S : \A k \in S : j <= k) = n
<1> DEFINE c == CHOOSE j \in S : \A k \in S : j <= k
<1>1. c \in S /\ \A k \in S : c <= k
  OBVIOUS
<1> HIDE DEF c
<1>2. c <= n /\ n <= c /\ c \in Nat /\ n \in Nat
  BY <1>1
<1>3. c = n
  BY <1>2
<1> QED
  BY <1>3 DEF c

LEMMA GreatestIs ==
  ASSUME NEW S \in SUBSET Nat, NEW n \in S, \A m \in S : m <= n
  PROVE  (CHOOSE j \in S : \A k \in S : k <= j) = n
<1> DEFINE c == CHOOSE j \in S : \A k \in S : k <= j
<1>1. c \in S /\ \A k \in S : k <= c
  OBVIOUS
<1> HIDE DEF c
<1>2. c <= n /\ n <= c /\ c \in Nat /\ n \in Nat
  BY <1>1
<1>3. c = n
  BY <1>2
<1> QED
  BY <1>3 DEF c

LEMMA ShownIs ==
  ASSUME NEW i \in Nat, NEW j, ShownAt(i, j)
  PROVE  Shown(i) = history[j].reply
<1> DEFINE replies == {k \in 1..(i - 1) : history[k].reply # NoReply}
<1>1. replies \in SUBSET Nat /\ j \in replies /\ \A m \in replies : m <= j
  BY DEF ShownAt
<1> HIDE DEF replies
<1>2. (CHOOSE c \in replies : \A k \in replies : k <= c) = j
  BY <1>1, GreatestIs
<1> QED
  BY <1>2 DEF Shown, replies

LEMMA ShownWillBe ==
  ASSUME NEW i \in Nat, NEW j, ShownAt(i, j)'
  PROVE  Shown(i)' = history'[j].reply
<1> DEFINE replies == {k \in 1..(i - 1) : history'[k].reply # NoReply}
<1>1. replies \in SUBSET Nat /\ j \in replies /\ \A m \in replies : m <= j
  BY DEF ShownAt
<1> HIDE DEF replies
<1>2. (CHOOSE c \in replies : \A k \in replies : k <= c) = j
  BY <1>1, GreatestIs
<1> QED
  BY <1>2 DEF Shown, replies

LEMMA FruitlessIs ==
  ASSUME history \in Seq(Event), NEW i \in Edits, NEW n, NextBatch(i, n)
  PROVE  Fruitless(i) <=> history[i].ok /\ Shown(i).signature = Shown(n).signature
<1> DEFINE later == {j \in Edits \cup {Len(history) + 1} : j > i}
<1>1. later \in SUBSET Nat /\ n \in later /\ \A m \in later : n <= m
  BY DEF NextBatch, Batches, Edits
<1> HIDE DEF later
<1>2. (CHOOSE j \in later : \A k \in later : j <= k) = n
  BY <1>1, LeastIs
<1> QED
  BY <1>2 DEF Fruitless, later

LEMMA FruitlessWillBe ==
  ASSUME history' \in Seq(Event), NEW i \in Edits', NEW n, NextBatch(i, n)'
  PROVE  Fruitless(i)' <=> history'[i].ok /\ Shown(i)'.signature = Shown(n)'.signature
<1> DEFINE later == {j \in Edits' \cup {Len(history') + 1} : j > i}
<1>1. later \in SUBSET Nat /\ n \in later /\ \A m \in later : n <= m
  BY DEF NextBatch, Batches, Edits
<1> HIDE DEF later
<1>2. (CHOOSE j \in later : \A k \in later : j <= k) = n
  BY <1>1, LeastIs
<1> QED
  BY <1>2 DEF Fruitless, later

\* One more event leaves the others and their replies where they are.
LEMMA Longer ==
  ASSUME history \in Seq(Event), NEW e \in Event, history' = Append(history, e)
  PROVE  /\ history' \in Seq(Event) /\ Len(history) \in Nat /\ Len(history') = Len(history) + 1
         /\ DOMAIN history = 1..Len(history) /\ DOMAIN history' = 1..(Len(history) + 1)
         /\ \A i \in 1..Len(history) : history'[i] = history[i]
         /\ history'[Len(history) + 1] = e
         /\ Edits' = Edits \cup (IF e.tool = "edit" THEN {Len(history) + 1} ELSE {})
         /\ Edits \in SUBSET (1..Len(history))
<1>1. /\ history' \in Seq(Event) /\ Len(history) \in Nat /\ Len(history') = Len(history) + 1
      /\ DOMAIN history = 1..Len(history) /\ DOMAIN history' = 1..(Len(history) + 1)
  OBVIOUS
<1>2. ASSUME NEW i \in 1..Len(history) PROVE history'[i] = history[i]
  OBVIOUS
<1>3. history'[Len(history) + 1] = e
  OBVIOUS
<1>4. Edits \in SUBSET (1..Len(history))
  BY <1>1 DEF Edits
<1>5. Edits' = Edits \cup (IF e.tool = "edit" THEN {Len(history) + 1} ELSE {})
  BY <1>1, <1>2, <1>3 DEF Edits
<1> QED
  BY <1>1, <1>2, <1>3, <1>4, <1>5

LEMMA ShownStays ==
  ASSUME history \in Seq(Event), NEW e \in Event, history' = Append(history, e),
         NEW i \in 1..(Len(history) + 1), NEW j, ShownAt(i, j)
  PROVE  ShownAt(i, j)' /\ Shown(i)' = Shown(i)
<1>1. /\ Len(history) \in Nat /\ i \in Nat
      /\ \A k \in 1..Len(history) : history'[k] = history[k]
  BY Longer
<1>2. \A k \in 1..(i - 1) : history'[k] = history[k]
  BY <1>1
<1>3. j \in 1..(i - 1)
  BY DEF ShownAt
<1>4. ShownAt(i, j)'
  BY <1>2, <1>3 DEF ShownAt
<1> QED
  BY <1>1, <1>2, <1>3, <1>4, ShownIs, ShownWillBe

\* Whether an edit was fruitless is settled by the batch that follows it.
LEMMA FruitStays ==
  ASSUME history \in Seq(Event), NEW e \in Event, history' = Append(history, e), TraceOK,
         NEW i \in Edits, e.tool = "edit" \/ \E k \in Edits : k > i
  PROVE  Fruitless(i)' <=> Fruitless(i)
<1>1. /\ history' \in Seq(Event) /\ Len(history) \in Nat /\ Len(history') = Len(history) + 1
      /\ \A k \in 1..Len(history) : history'[k] = history[k]
      /\ Edits' = Edits \cup (IF e.tool = "edit" THEN {Len(history) + 1} ELSE {})
      /\ Edits \in SUBSET (1..Len(history))
  BY Longer
<1>2. PICK n \in Batches : NextBatch(i, n)
  BY DEF TraceOK
<1>3. n \in Edits \/ (n = Len(history) + 1 /\ e.tool = "edit")
  BY <1>1, <1>2 DEF NextBatch, Batches
<1>4. NextBatch(i, n)'
  BY <1>1, <1>2, <1>3 DEF NextBatch, Batches
<1>5. PICK j1 \in DOMAIN history : ShownAt(i, j1)
  BY DEF TraceOK
<1>6. PICK j2 \in DOMAIN history : ShownAt(n, j2)
  BY <1>3 DEF TraceOK
<1>7. i \in 1..(Len(history) + 1) /\ n \in 1..(Len(history) + 1) /\ history'[i].ok = history[i].ok
  <2>1. i \in 1..Len(history) /\ history'[i] = history[i]
    BY <1>1
  <2>2. n \in Edits => n \in 1..Len(history)
    BY <1>1
  <2>3. i \in 1..(Len(history) + 1)
    BY <1>1, <2>1
  <2>4. n \in 1..(Len(history) + 1)
    BY <1>1, <1>3, <2>2
  <2> QED
    BY <2>1, <2>3, <2>4
<1>8. Shown(i)' = Shown(i) /\ Shown(n)' = Shown(n)
  BY <1>5, <1>6, <1>7, ShownStays
<1>9. i \in Edits'
  BY <1>1
<1> QED
  BY <1>1, <1>2, <1>4, <1>7, <1>8, <1>9, FruitlessIs, FruitlessWillBe

LEMMA TraceGrows ==
  ASSUME history \in Seq(Event), NEW e \in Event, history' = Append(history, e), TraceOK,
         e.tool = "edit" => current # NoReply,
         IF e.reply = NoReply THEN UNCHANGED current ELSE current' = e.reply
  PROVE  TraceOK'
<1>1. /\ history' \in Seq(Event) /\ Len(history) \in Nat /\ Len(history') = Len(history) + 1
      /\ DOMAIN history = 1..Len(history) /\ DOMAIN history' = 1..(Len(history) + 1)
      /\ \A k \in 1..Len(history) : history'[k] = history[k]
      /\ history'[Len(history) + 1] = e
      /\ Edits' = Edits \cup (IF e.tool = "edit" THEN {Len(history) + 1} ELSE {})
      /\ Edits \in SUBSET (1..Len(history))
  BY Longer
<1>2. Edits' # {} => current' # NoReply
  BY <1>1 DEF TraceOK
<1>3. ASSUME current' # NoReply
      PROVE  \E j \in DOMAIN history' : ShownAt(Len(history) + 1, j)' /\ history'[j].reply = current'
  <2>1. CASE e.reply # NoReply
    <3>1. ShownAt(Len(history) + 1, Len(history))'
      BY <1>1, <2>1 DEF ShownAt
    <3> QED
      BY <1>1, <2>1, <3>1
  <2>2. CASE e.reply = NoReply
    <3>1. PICK j \in DOMAIN history : ShownAt(Len(history) + 1, j) /\ history[j].reply = current
      BY <1>3, <2>2 DEF TraceOK
    <3>2. \A k \in 1..(Len(history) + 1) : history'[k].reply # NoReply => k \in 1..Len(history)
      BY <1>1, <2>2
    <3>3. ShownAt(Len(history) + 1, j)'
      BY <1>1, <3>1, <3>2 DEF ShownAt
    <3> QED
      BY <1>1, <2>2, <3>1, <3>3
  <2> QED
    BY <2>1, <2>2
<1>4. ASSUME NEW i \in Edits' PROVE \E j \in DOMAIN history' : ShownAt(i, j)'
  <2>1. i \in 1..(Len(history) + 1)
    BY <1>1
  <2>2. PICK j \in DOMAIN history : ShownAt(i, j)
    BY <1>1, <1>4 DEF TraceOK
  <2> QED
    BY <1>1, <2>1, <2>2, ShownStays
<1>5. ASSUME NEW i \in Edits' PROVE \E n \in Batches' : NextBatch(i, n)'
  <2>1. CASE i = Len(history) + 1
    <3>1. NextBatch(i, Len(history) + 1)'
      BY <1>1, <2>1 DEF NextBatch, Batches
    <3> QED
      BY <3>1 DEF NextBatch
  <2>2. CASE i # Len(history) + 1
    <3>1. i \in Edits
      BY <1>1, <2>2
    <3>2. PICK n \in Batches : NextBatch(i, n)
      BY <3>1 DEF TraceOK
    <3>3. CASE n \in Edits'
      <4>1. NextBatch(i, n)'
        BY <1>1, <3>2, <3>3 DEF NextBatch, Batches
      <4> QED
        BY <4>1 DEF NextBatch
    <3>4. CASE n \notin Edits'
      <4>1. n = Len(history) + 1 /\ e.tool # "edit"
        BY <1>1, <3>2, <3>4 DEF Batches
      <4>2. NextBatch(i, Len(history) + 1)'
        BY <1>1, <3>1, <3>2, <4>1 DEF NextBatch, Batches
      <4> QED
        BY <4>2 DEF NextBatch
    <3> QED
      BY <3>3, <3>4
  <2> QED
    BY <2>1, <2>2
<1> QED
  BY <1>2, <1>3, <1>4, <1>5 DEF TraceOK

-------------------------------------------------------------------------------
(* The steps *)

LEMMA StallsStay ==
  ASSUME StallsOK, UNCHANGED stalls, Counted' = Counted,
         \A i \in Counted : Fruitless(i)' <=> Fruitless(i)
  PROVE  StallsOK'
<1>1. \A i : FruitlessFrom(i)' <=> FruitlessFrom(i)
  BY DEF FruitlessFrom
<1> QED
  BY <1>1 DEF StallsOK

\* Another end, another reason.
LEMMA Reasons ==
  ASSUME Shape, pc # "done",
         \/ UNCHANGED result
         \/ \E tool \in Tools : Begin(tool)
         \/ \E s, r : r # "no_progress" /\ Return(s, r)
  PROVE  ReasonOK'
<1>1. result = NoResult
  BY DEF Shape
<1>2. UNCHANGED result \/ result'.reason # "no_progress"
  BY DEF Begin, Cancelled, Return
<1> QED
  BY <1>1, <1>2 DEF ReasonOK

\* Without a new event, only the place where the loop waits matters.
LEMMA QuietKeeps ==
  ASSUME ProgressOK, UNCHANGED <<history, current, stalls, lastSignature, afterEdit>>,
         afterEdit => pc' # "deciding" /\ ~(pc' = "calling" /\ call' = "edit"),
         ~afterEdit /\ LastAccepted => Settled',
         pc' = "deciding" => ToDiagnose,
         ReasonOK'
  PROVE  ProgressOK'
<1>1. Edits' = Edits /\ Batches' = Batches
  BY DEF Edits, Batches
<1>2. \A i : LastEdit(i)' <=> LastEdit(i)
  BY <1>1 DEF LastEdit
<1>3. \A i, j : /\ ShownAt(i, j)' <=> ShownAt(i, j)
                /\ NextBatch(i, j)' <=> NextBatch(i, j)
  BY <1>1 DEF ShownAt, NextBatch
<1>4. \A i : Shown(i)' = Shown(i)
  BY DEF Shown
<1>5. \A i : Fruitless(i)' <=> Fruitless(i)
  BY <1>1, <1>4 DEF Fruitless
<1>6. Counted' = Counted
  BY <1>1, <1>2 DEF Counted
<1>7. TraceOK'
  BY <1>1, <1>3 DEF ProgressOK, TraceOK
<1>8. StallsOK'
  BY <1>5, <1>6, StallsStay DEF ProgressOK
<1>9. LookedAt'
  <2>1. LastAccepted' <=> LastAccepted
    BY <1>1, <1>2 DEF LastAccepted
  <2>2. ToDiagnose' <=> ToDiagnose
    BY DEF ToDiagnose, Confirmed, InFlight, Awaits, Historical, Passed
  <2>3. afterEdit => \E i \in Edits : LastEdit(i) /\ history[i].ok /\ lastSignature = Shown(i).signature
    BY DEF ProgressOK, LookedAt
  <2>4. afterEdit' => \E i \in Edits' : (LastEdit(i) /\ history[i].ok /\ lastSignature = Shown(i).signature)'
    BY <1>1, <1>2, <1>4, <2>3
  <2> QED
    BY <2>1, <2>2, <2>4 DEF LookedAt
<1> QED
  BY <1>7, <1>8, <1>9 DEF ProgressOK

\* Where the loop ends or waits without a new event, and looks at nothing.
LEMMA EndKeeps ==
  ASSUME ProgressOK, UNCHANGED <<history, current, stalls, lastSignature, afterEdit>>,
         pc' = "done", ReasonOK'
  PROVE  ProgressOK'
BY QuietKeeps DEF Settled

\* A call that is not an edit is answered: the loop had not looked at the last edit
\* yet, or that was refused.
LEMMA CallKeeps ==
  ASSUME history \in Seq(Event), ProgressOK,
         NEW e \in Event, history' = Append(history, e), e.tool # "edit",
         pc = "calling", call # "edit", pc' \in {"loop", "done"},
         UNCHANGED <<stalls, lastSignature, afterEdit>>,
         IF e.reply = NoReply THEN UNCHANGED current ELSE current' = e.reply,
         ReasonOK'
  PROVE  ProgressOK'
<1>1. /\ DOMAIN history = 1..Len(history) /\ Len(history) \in Nat
      /\ \A i \in 1..Len(history) : history'[i] = history[i]
      /\ Edits' = Edits /\ Edits \in SUBSET (1..Len(history))
  BY Longer
<1>2. TraceOK'
  BY TraceGrows DEF ProgressOK
<1>3. afterEdit \/ ~LastAccepted
  BY DEF ProgressOK, LookedAt, Settled
<1>4. \A i : LastEdit(i)' <=> LastEdit(i)
  BY <1>1 DEF LastEdit
<1>5. \A i \in Edits : history'[i] = history[i]
  BY <1>1
<1>6. Counted' = Counted
  BY <1>1, <1>4, <1>5 DEF Counted
<1>7. ASSUME NEW i \in Counted PROVE Fruitless(i)' <=> Fruitless(i)
  <2>1. i \in Edits /\ ~LastEdit(i)
    BY <1>3 DEF Counted, LastAccepted
  <2>2. \E k \in Edits : k > i
    BY <1>1, <2>1 DEF LastEdit
  <2> QED
    BY <2>1, <2>2, FruitStays DEF ProgressOK
<1>8. StallsOK'
  BY <1>6, <1>7, StallsStay DEF ProgressOK
<1>9. LookedAt'
  <2>1. LastAccepted' <=> LastAccepted
    BY <1>1, <1>4, <1>5 DEF LastAccepted
  <2>2. ASSUME afterEdit
        PROVE  \E i \in Edits' : (LastEdit(i) /\ history[i].ok /\ lastSignature = Shown(i).signature)'
    <3>1. PICK i \in Edits : LastEdit(i) /\ history[i].ok /\ lastSignature = Shown(i).signature
      BY <2>2 DEF ProgressOK, LookedAt
    <3>2. PICK j \in DOMAIN history : ShownAt(i, j)
      BY DEF ProgressOK, TraceOK
    <3>3. i \in 1..Len(history)
      BY <1>1
    <3>4. i \in 1..(Len(history) + 1)
      BY <1>1, <3>3
    <3>5. Shown(i)' = Shown(i)
      BY <3>2, <3>4, ShownStays
    <3> QED
      BY <1>1, <1>4, <1>5, <3>1, <3>5
  <2> QED
    BY <1>3, <2>1, <2>2 DEF LookedAt
<1> QED
  BY <1>2, <1>8, <1>9 DEF ProgressOK

\* A batch is answered.  What the accepted edits before it led to is settled now.
LEMMA BatchKeeps ==
  ASSUME history \in Seq(Event), ProgressOK, current # NoReply,
         NEW e \in Event, history' = Append(history, e), e.tool = "edit", e.reply = NoReply,
         pc = "calling", call = "edit", pc' # "deciding", ~(pc' = "calling" /\ call' = "edit"),
         UNCHANGED <<current, stalls>>,
         IF e.ok THEN afterEdit' = TRUE /\ lastSignature' = current.signature
                 ELSE UNCHANGED afterEdit,
         e.ok \in BOOLEAN, ReasonOK'
  PROVE  ProgressOK'
<1>1. PICK m \in Nat : m = Len(history) + 1
  OBVIOUS
<1>2. /\ DOMAIN history = 1..Len(history) /\ Len(history) \in Nat
      /\ \A i \in 1..Len(history) : history'[i] = history[i]
      /\ history'[m] = e
      /\ Edits' = Edits \cup {m} /\ Edits \in SUBSET (1..Len(history))
  BY <1>1, Longer
<1>3. TraceOK'
  BY TraceGrows DEF ProgressOK
<1>4. afterEdit # TRUE
  BY DEF ProgressOK, LookedAt
<1>5. \A i : LastEdit(i)' <=> i = m
  <2>1. \A k \in Edits : k \in Nat /\ k < m
    BY <1>1, <1>2
  <2>2. ASSUME NEW i, LastEdit(i)' PROVE i = m
    <3>1. i \in Edits' /\ m <= i
      BY <1>2, <2>2 DEF LastEdit
    <3> QED
      BY <1>2, <2>1, <3>1
  <2>3. LastEdit(m)'
    BY <1>2, <2>1 DEF LastEdit
  <2> QED
    BY <2>2, <2>3
<1>6. \A i \in Edits : history'[i] = history[i] /\ i # m
  BY <1>1, <1>2
<1>7. Counted' = Counted
  <2>1. CASE e.ok
    BY <1>2, <1>4, <1>5, <1>6, <2>1 DEF Counted
  <2>2. CASE ~e.ok
    BY <1>2, <1>4, <1>5, <1>6, <2>2 DEF Counted
  <2> QED
    BY <2>1, <2>2
<1>8. \A i \in Counted : Fruitless(i)' <=> Fruitless(i)
  BY FruitStays DEF Counted, ProgressOK
<1>9. StallsOK'
  BY <1>7, <1>8, StallsStay DEF ProgressOK
<1>10. LookedAt'
  <2>1. CASE e.ok
    <3>1. PICK j \in DOMAIN history : ShownAt(Len(history) + 1, j) /\ history[j].reply = current
      BY DEF ProgressOK, TraceOK
    <3>2. m \in 1..(Len(history) + 1) /\ ShownAt(m, j)
      BY <1>1, <1>2, <3>1
    <3>3. Shown(m)' = current
      BY <3>1, <3>2, ShownStays, ShownIs
    <3>4. m \in Edits' /\ LastEdit(m)' /\ history'[m].ok /\ lastSignature' = Shown(m)'.signature
      BY <1>2, <1>5, <2>1, <3>3
    <3>5. \E i \in Edits' : (LastEdit(i) /\ history[i].ok /\ lastSignature = Shown(i).signature)'
      BY <3>4
    <3> QED
      BY <2>1, <3>5 DEF LookedAt
  <2>2. CASE ~e.ok
    <3>1. ~LastAccepted'
      BY <1>2, <1>5, <2>2 DEF LastAccepted
    <3> QED
      BY <1>4, <2>2, <3>1 DEF LookedAt
  <2> QED
    BY <2>1, <2>2
<1> QED
  BY <1>3, <1>9, <1>10 DEF ProgressOK

\* Looking at a reply to diagnose is where the last edit is counted.
LEMMA DiagnoseCounts ==
  ASSUME history \in Seq(Event), Shape, ProgressOK, pc = "loop", stalls \in 0..1, current # NoReply,
         UNCHANGED <<history, current>>, ToDiagnose, Diagnose
  PROVE  ProgressOK'
<1>1. CASE UNCHANGED counters /\ Return("stopped", "no_actionable_diagnostics")
  <2>1. ReasonOK'
    BY <1>1, Reasons
  <2>2. pc' = "done"
    BY <1>1, Ends
  <2> QED
    BY <1>1, <2>1, <2>2, EndKeeps DEF counters
<1>2. CASE /\ stalls' = Stalls /\ afterEdit' = FALSE /\ UNCHANGED lastSignature
           /\ \/ stalls' >= 2 /\ Return("stopped", "no_progress")
              \/ stalls' < 2 /\ Return("stopped", "round_budget")
              \/ stalls' < 2 /\ pc' = "deciding" /\ UNCHANGED result
  <2>1. Edits' = Edits /\ Batches' = Batches /\ \A i : LastEdit(i)' <=> LastEdit(i)
    BY DEF Edits, Batches, LastEdit
  <2>2. \A i, j : /\ ShownAt(i, j)' <=> ShownAt(i, j)
                  /\ NextBatch(i, j)' <=> NextBatch(i, j)
    BY <2>1 DEF ShownAt, NextBatch
  <2>3. \A i : Shown(i)' = Shown(i)
    BY DEF Shown
  <2>4. \A i : Fruitless(i)' <=> Fruitless(i)
    BY <2>1, <2>3 DEF Fruitless
  <2>5. TraceOK'
    BY <2>1, <2>2 DEF ProgressOK, TraceOK
  <2>6. pc' \in {"deciding", "done"}
    BY <1>2, Ends
  <2>7. LookedAt'
    <3>1. ToDiagnose'
      BY DEF ToDiagnose, Confirmed, InFlight, Awaits, Historical, Passed
    <3> QED
      BY <1>2, <2>6, <3>1 DEF LookedAt, Settled
  <2>8. ReasonOK'
    <3>1. CASE stalls' >= 2
      BY <1>2, <3>1 DEF ReasonOK
    <3>2. CASE ~(stalls' >= 2)
      BY <1>2, <3>2, Reasons
    <3> QED
      BY <3>1, <3>2
  <2>9. StallsOK'
    <3>1. CASE ~afterEdit
      <4>1. Counted' = Counted
        BY <1>2, <2>1, <3>1 DEF Counted
      <4>2. stalls' = stalls
        BY <1>2, <3>1 DEF Stalls
      <4> QED
        BY <2>4, <4>1, <4>2, StallsStay DEF ProgressOK
    <3>2. CASE afterEdit /\ current.signature # lastSignature
      BY <1>2, <3>2 DEF Stalls, StallsOK
    <3>3. CASE afterEdit /\ current.signature = lastSignature
      <4>1. PICK m \in Edits : LastEdit(m) /\ history[m].ok /\ lastSignature = Shown(m).signature
        BY <3>3 DEF ProgressOK, LookedAt
      <4>2. Len(history) \in Nat /\ Edits \in SUBSET (1..Len(history))
        BY DEF Edits
      <4>3. Counted' = Counted \cup {m}
        <5>1. ASSUME NEW i \in Edits, LastEdit(i) PROVE i = m
          BY <4>1, <4>2, <5>1 DEF LastEdit
        <5>2. \A i \in Edits : i = m \/ ~LastEdit(i)
          BY <5>1
        <5> QED
          BY <1>2, <2>1, <4>1, <5>2 DEF Counted
      <4>4. Fruitless(m)
        <5>1. NextBatch(m, Len(history) + 1)
          BY <4>1, <4>2 DEF NextBatch, Batches, LastEdit
        <5>2. PICK j \in DOMAIN history : ShownAt(Len(history) + 1, j) /\ history[j].reply = current
          BY DEF ProgressOK, TraceOK
        <5>3. Shown(Len(history) + 1) = current
          BY <4>2, <5>2, ShownIs
        <5> QED
          BY <3>3, <4>1, <5>1, <5>3, FruitlessIs
      <4>5. ASSUME NEW i \in Counted PROVE i < m
        BY <3>3, <4>1, <4>2 DEF Counted, LastEdit
      <4>6. ASSUME NEW i \in Counted, FruitlessFrom(i) PROVE FruitlessFrom(i)'
        BY <2>4, <4>3, <4>4, <4>6 DEF FruitlessFrom
      <4>7. FruitlessFrom(m)'
        <5>1. \A k \in Counted : ~(k >= m)
          BY <4>2, <4>5 DEF Counted
        <5> QED
          BY <2>4, <4>3, <4>4, <5>1 DEF FruitlessFrom
      <4>8. stalls' = stalls + 1
        BY <1>2, <3>3 DEF Stalls
      <4>9. stalls' >= 2 => \E i \in Counted : FruitlessFrom(i)
        BY <4>8 DEF ProgressOK, StallsOK
      <4>10. stalls' >= 2 => \E i, j \in Counted' : i < j /\ FruitlessFrom(i)'
        BY <4>3, <4>5, <4>6, <4>9
      <4>11. \E i \in Counted' : FruitlessFrom(i)'
        BY <4>3, <4>7
      <4> QED
        BY <4>10, <4>11 DEF StallsOK
    <3> QED
      BY <3>1, <3>2, <3>3
  <2> QED
    BY <2>5, <2>7, <2>8, <2>9 DEF ProgressOK
<1> QED
  BY <1>1, <1>2 DEF Diagnose

LEMMA StartProgress ==
  ASSUME Inv, ProgressOK, Start
  PROVE  ProgressOK'
<1>1. /\ pc = "start" /\ UNCHANGED <<history, current, stalls, lastSignature, afterEdit>>
      /\ \E tool \in {"resume", "preflight"} : Begin(tool)
  BY DEF Start, counters
<1>2. pc' = "done" \/ (pc' = "calling" /\ call' \in {"resume", "preflight"})
  BY <1>1, Begins
<1>3. ReasonOK'
  BY <1>1, Reasons DEF Tools, Inv, LoopOK
<1>4. ~(~afterEdit /\ LastAccepted)
  BY <1>1 DEF ProgressOK, LookedAt, Settled
<1> QED
  BY <1>1, <1>2, <1>3, <1>4, QuietKeeps

LEMMA LookProgress ==
  ASSUME Inv, ProgressOK, Look
  PROVE  ProgressOK'
<1>1. pc = "loop" /\ UNCHANGED <<history, current>> /\ Shape /\ current # NoReply
  BY DEF Look, Inv, LoopOK, Shape
<1>2. ASSUME NEW s, NEW r, Return(s, r), r # "no_progress", UNCHANGED counters PROVE ProgressOK'
  <2>1. ReasonOK' /\ pc' = "done"
    BY <1>1, <1>2, Reasons, Ends
  <2> QED
    BY <1>1, <1>2, <2>1, EndKeeps DEF counters
<1>3. CASE UNCHANGED counters /\ Cancelled
  BY <1>2, <1>3 DEF Cancelled
<1>4. CASE Act
  <2>1. CASE Passed /\ UNCHANGED counters /\ Begin(IF runId # 0 THEN "resume" ELSE "publish")
    <3>1. \E tool \in {"resume", "publish"} : Begin(tool)
      BY <2>1
    <3>2. pc' = "done" \/ (pc' = "calling" /\ call' \in {"resume", "publish"})
      BY <3>1, Begins
    <3>3. ReasonOK'
      BY <1>1, <3>1, Reasons DEF Tools
    <3>4. ~(~afterEdit /\ LastAccepted)
      BY <1>1, <2>1 DEF ProgressOK, LookedAt, Settled, ToDiagnose
    <3> QED
      BY <1>1, <2>1, <3>2, <3>3, <3>4, QuietKeeps DEF counters
  <2>2. CASE ToDiagnose /\ Diagnose
    <3>1. stalls \in 0..1 /\ history \in Seq(Event)
      BY <1>1 DEF Inv, LoopOK, LoopType, LimitsOK
    <3> QED
      BY <1>1, <2>2, <3>1, DiagnoseCounts
  <2>3. \A s : s \in Unfinished => s # "no_progress"
    BY DEF Unfinished
  <2> QED
    BY <1>2, <1>4, <2>1, <2>2, <2>3 DEF Act, ToDiagnose
<1> QED
  BY <1>3, <1>4 DEF Look

LEMMA DecideProgress ==
  ASSUME Inv, ProgressOK, NEW d, Decide(d)
  PROVE  ProgressOK'
<1>1. /\ pc = "deciding" /\ UNCHANGED <<history, current>> /\ Shape
      /\ ToDiagnose /\ ~afterEdit
  BY DEF Decide, Inv, LoopOK, ProgressOK, LookedAt
<1>2. ASSUME NEW s, NEW r, Return(s, r), r # "no_progress",
             UNCHANGED <<stalls, lastSignature, afterEdit>>
      PROVE  ProgressOK'
  <2>1. ReasonOK' /\ pc' = "done"
    BY <1>1, <1>2, Reasons, Ends
  <2> QED
    BY <1>1, <1>2, <2>1, EndKeeps
<1>3. CASE Rejected
  <2>1. CASE Return("stopped", "rejection_limit")
    BY <1>2, <1>3, <2>1 DEF Rejected
  <2>2. CASE pc' = "loop" /\ UNCHANGED result
    <3>1. ReasonOK'
      BY <1>1, <2>2, Reasons
    <3>2. ToDiagnose'
      BY <1>1 DEF ToDiagnose, Confirmed, InFlight, Awaits, Historical, Passed
    <3>3. Settled'
      BY <2>2, <3>2 DEF Settled
    <3> QED
      BY <1>1, <1>3, <2>2, <3>1, <3>3, QuietKeeps DEF Rejected
  <2> QED
    BY <1>3, <2>1, <2>2 DEF Rejected
<1>4. CASE Begin("edit") /\ UNCHANGED counters
  <2>1. pc' = "done" \/ (pc' = "calling" /\ call' = "edit")
    BY <1>4, Begins
  <2>2. ReasonOK'
    BY <1>1, <1>4, Reasons DEF Tools
  <2>3. Settled'
    BY <2>1 DEF Settled
  <2> QED
    BY <1>1, <1>4, <2>1, <2>2, <2>3, QuietKeeps DEF counters
<1> QED
  BY <1>2, <1>3, <1>4 DEF Decide, counters

LEMMA RepliesProgress ==
  ASSUME Inv, ProgressOK, PreflightReturns \/ PublishReturns \/ ResumeReturns, EngineType'
  PROVE  ProgressOK'
<1>1. pc = "calling" /\ call # "edit" /\ call \in Tools /\ history \in Seq(Event) /\ Shape
  BY DEF PreflightReturns, PublishReturns, ResumeReturns, Inv, LoopOK, LoopType
<1>2. CASE Failed
  <2> DEFINE e == [tool |-> call, ok |-> FALSE, reply |-> NoReply]
  <2>1. e \in Event /\ e.tool = call /\ e.reply = NoReply
    BY <1>1 DEF Event
  <2>2. history' = Append(history, e) /\ UNCHANGED <<stalls, lastSignature, afterEdit, current>>
    BY <1>2 DEF Failed, Refused, counters
  <2> HIDE DEF e
  <2>3. pc' = "done" /\ ReasonOK'
    BY <1>1, <1>2, Reasons, Ends DEF Failed
  <2> QED
    BY <1>1, <2>1, <2>2, <2>3, CallKeeps
<1>3. ASSUME NEW reply \in Check \cup Publication, Answered(reply) PROVE ProgressOK'
  <2> DEFINE e == [tool |-> call, ok |-> TRUE, reply |-> reply]
  <2>1. e \in Event /\ e.tool = call /\ e.reply = reply /\ reply # NoReply
    BY <1>1 DEF Event, Check, Publication, NoReply
  <2>2. /\ history' = Append(history, e) /\ UNCHANGED <<stalls, lastSignature, afterEdit>>
        /\ current' = reply /\ pc' = "loop" /\ UNCHANGED result
    BY <1>3 DEF Answered, counters
  <2> HIDE DEF e
  <2>3. ReasonOK'
    BY <1>1, <2>2, Reasons
  <2> QED
    BY <1>1, <2>1, <2>2, <2>3, CallKeeps
<1>4. Failed \/ \E reply \in Check \cup Publication : Answered(reply)
  <2>1. EngineType /\ runId \in RunIds \cup {0}
    BY DEF Inv, LoopOK, LoopType
  <2> QED
    BY <2>1, PreflightAnswers, PublishAnswers, ResumeAnswers
<1> QED
  BY <1>2, <1>3, <1>4

LEMMA EditProgress ==
  ASSUME Inv, ProgressOK, EditReturns
  PROVE  ProgressOK'
<1>1. /\ pc = "calling" /\ call = "edit" /\ UNCHANGED current /\ history \in Seq(Event) /\ Shape
      /\ current # NoReply
  BY DEF EditReturns, Inv, LoopOK, LoopType, Shape
<1>2. CASE /\ history' = Append(history, [tool |-> "edit", ok |-> TRUE, reply |-> NoReply])
           /\ lastSignature' = current.signature /\ afterEdit' = TRUE
           /\ UNCHANGED stalls /\ Begin("preflight")
  <2> DEFINE e == [tool |-> "edit", ok |-> TRUE, reply |-> NoReply]
  <2>1. e \in Event /\ e.tool = "edit" /\ e.reply = NoReply /\ e.ok
    BY DEF Event, Tools
  <2>2. history' = Append(history, e)
    BY <1>2
  <2> HIDE DEF e
  <2>3. pc' = "done" \/ (pc' = "calling" /\ call' = "preflight")
    BY <1>2, Begins
  <2>4. ReasonOK'
    BY <1>1, <1>2, Reasons DEF Tools
  <2>5. pc' # "deciding" /\ ~(pc' = "calling" /\ call' = "edit") /\ e.ok \in BOOLEAN
    BY <2>1, <2>3 DEF Event
  <2> QED
    BY <1>1, <1>2, <2>1, <2>2, <2>4, <2>5, BatchKeeps
<1>3. CASE /\ history' = Refused /\ UNCHANGED <<stalls, afterEdit>>
           /\ Begin("preflight") \/ Rejected \/ Return("stopped", "edit_refused")
  <2> DEFINE e == [tool |-> "edit", ok |-> FALSE, reply |-> NoReply]
  <2>1. e \in Event /\ e.tool = "edit" /\ e.reply = NoReply /\ ~e.ok /\ e.ok \in BOOLEAN
    BY DEF Event, Tools
  <2>2. history' = Append(history, e)
    BY <1>1, <1>3 DEF Refused
  <2> HIDE DEF e
  <2>3. pc' \in {"done", "loop"} \/ (pc' = "calling" /\ call' = "preflight")
    BY <1>3, Begins, Ends DEF Rejected
  <2>4. ReasonOK'
    BY <1>1, <1>3, Reasons DEF Tools, Rejected
  <2>5. pc' # "deciding" /\ ~(pc' = "calling" /\ call' = "edit")
    BY <2>3
  <2> QED
    BY <1>1, <1>3, <2>1, <2>2, <2>4, <2>5, BatchKeeps
<1> QED
  BY <1>2, <1>3 DEF EditReturns, Rejected, counters

LEMMA ProgressInit == Init => ProgressOK
<1> SUFFICES ASSUME Init PROVE ProgressOK
  OBVIOUS
<1>1. Edits = {} /\ current = NoReply /\ ~afterEdit /\ stalls = 0 /\ pc = "start" /\ result = NoResult
  BY DEF Init, Edits
<1>2. TraceOK
  BY <1>1 DEF TraceOK
<1>3. LookedAt
  BY <1>1 DEF LookedAt, LastAccepted
<1>4. StallsOK /\ ReasonOK
  BY <1>1 DEF StallsOK, ReasonOK
<1> QED
  BY <1>2, <1>3, <1>4 DEF ProgressOK

LEMMA ProgressStep == Inv /\ ProgressOK /\ [Next]_vars => ProgressOK'
<1> SUFFICES ASSUME Inv, ProgressOK, [Next]_vars PROVE ProgressOK'
  OBVIOUS
<1>1. CASE Start
  BY <1>1, StartProgress
<1>2. CASE Look
  BY <1>2, LookProgress
<1>3. CASE PreflightReturns \/ PublishReturns \/ ResumeReturns
  BY <1>3, InvStep, RepliesProgress DEF Inv
<1>4. CASE EditReturns
  BY <1>4, EditProgress
<1>5. ASSUME NEW d, Decide(d) PROVE ProgressOK'
  BY <1>5, DecideProgress
<1>6. CASE Interrupt
  <2>1. /\ pc # "done" /\ pc' = "done" /\ Return("stopped", "cancelled_or_timed_out")
        /\ UNCHANGED <<history, current, stalls, lastSignature, afterEdit>>
    BY <1>6, Ends DEF Interrupt, Cancelled, counters
  <2>2. ReasonOK'
    BY <2>1, Reasons DEF Inv, LoopOK
  <2> QED
    BY <2>1, <2>2, EndKeeps
<1>7. CASE Abort \/ OtherEdits \/ OtherPublishes \/ UNCHANGED vars
  <2>1. UNCHANGED <<pc, call, history, current, stalls, lastSignature, afterEdit, result>>
    BY <1>7 DEF Abort, OtherEdits, OtherPublishes, vars, counters
  <2>2. ReasonOK'
    BY <2>1 DEF ProgressOK, ReasonOK
  <2>3. Settled' <=> Settled
    BY <2>1 DEF Settled, ToDiagnose, Confirmed, InFlight, Awaits, Historical, Passed
  <2> QED
    BY <2>1, <2>2, <2>3, QuietKeeps DEF ProgressOK, LookedAt
<1> QED
  BY <1>1, <1>2, <1>3, <1>4, <1>5, <1>6, <1>7 DEF Next, Replies

-------------------------------------------------------------------------------
(* The theorems *)

\* The loop and the engine beside it keep their types.
THEOREM Typing == Spec => []TypeOK
<1>1. Inv => TypeOK
  <2> SUFFICES ASSUME Inv PROVE TypeOK
    OBVIOUS
  <2>1. \A i \in DOMAIN history : history[i] \in Event
    BY DEF Inv, LoopOK, LoopType
  <2> QED
    BY <2>1 DEF Inv, EngineType, LoopOK, LoopType, TypeOK
<1> QED
  BY <1>1, Invariance, PTL

\* However the loop ends, its result names the run its replies were about: the abort,
\* the budgets and every error path carry it along (result() in repair.ts).
THEOREM RunIsKept == Spec => []RunIsHandedBack
<1>1. Inv => RunIsHandedBack
  BY DEF Inv, LoopOK, HandleOK, RunIsHandedBack
<1> QED
  BY <1>1, Invariance, PTL

\* All that the loop is told of is one run, and it publishes only while it has been
\* told of none, for any number of rounds, calls, edits and other clients.
THEOREM OneRun == Spec => []OneRunPerLoop
<1>1. Inv => OneRunPerLoop
  <2> SUFFICES ASSUME Inv PROVE OneRunPerLoop
    OBVIOUS
  <2>1. \A i \in Named : history[i].reply.run = Handle
    BY DEF Inv, LoopOK, HandleOK
  <2>2. pc = "calling" /\ call = "publish" => Handle = 0
    BY DEF Inv, LoopOK, HandleOK
  <2>3. pc = "calling" /\ call = "publish" => Named = {}
    BY <2>1, <2>2 DEF Named
  <2> QED
    BY <2>1, <2>3 DEF OneRunPerLoop
<1> QED
  BY <1>1, Invariance, PTL

\* Where the loop reports success, the engine has published the version its result
\* shows, or a later one, whatever other clients did meanwhile.
THEOREM SuccessIsTrue == Spec => []SuccessIsConfirmed
<1>1. Inv => SuccessIsConfirmed
  BY DEF Inv, LoopOK, SuccessOK, SuccessIsConfirmed
<1> QED
  BY <1>1, Invariance, PTL

\* Two accepted edits in a row have shown the model the same nodes and diagnostics
\* again before the loop gives up for lack of progress: an edit that is still unchecked,
\* a refused batch, an invalid decision and whatever was called meanwhile do not count,
\* for any budgets and any number of edits by others (repair.ts, stalls).
THEOREM GivingUpIsEarned == Spec => []NoProgressIsEarned
<1>1. ProgressOK => NoProgressIsEarned
  <2> SUFFICES ASSUME ProgressOK, result # NoResult, result.reason = "no_progress"
               PROVE  \E i, j \in Edits : /\ i < j /\ history[i].ok /\ history[j].ok
                                          /\ \A k \in Edits : k >= i /\ history[k].ok => Fruitless(k)
    BY DEF NoProgressIsEarned
  <2>1. stalls >= 2 /\ ~afterEdit
    BY DEF ProgressOK, ReasonOK
  <2>2. PICK i, j \in Counted : i < j /\ FruitlessFrom(i)
    BY <2>1 DEF ProgressOK, StallsOK
  <2> QED
    BY <2>1, <2>2 DEF Counted, FruitlessFrom
<1>2. Inv /\ ProgressOK /\ [Next]_vars => (Inv /\ ProgressOK)'
  BY InvStep, ProgressStep
<1> QED
  BY <1>1, <1>2, InvInit, ProgressInit, PTL DEF Spec
===============================================================================
