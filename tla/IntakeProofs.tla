----------------------------- MODULE IntakeProofs -----------------------------
(***************************************************************************)
(* Proofs about what enters the site: the invariant ImportInv and the      *)
(* action property TaskOnlyAdvances of ImportTask, for packages of every   *)
(* size and any number of attempts, restarts and failing calls; and the    *)
(* invariant ChecksInv of SubmitChecks, for any searches, saves, updates   *)
(* and failing calls; and the invariant TransferInv of TransferRequests,   *)
(* for any requests, keys and changes beside them.                         *)
(***************************************************************************)
EXTENDS ImportTask, SubmitChecks, TransferRequests, SequenceTheorems, WellFoundedInduction, TLAPS

RunType == [at : Steps, seen : SUBSET Positions, next : 1..Problems + 1, parsed : BOOLEAN,
            wrote : BOOLEAN, aborted : BOOLEAN, error : Errors]

(* What an invocation in state r knows when the positions in done are      *)
(* imported: the items it saw imported and all before its next position    *)
(* are; it seals or resolves a task only when all positions are.           *)
RunFact(r, done) ==
    /\ r.seen \subseteq done
    /\ r.at \in {"access", "convert", "parse"} => r.seen # Positions
    /\ r.at \in {"announce", "advance", "write", "commit", "record"} =>
          /\ r.next \in Positions
          /\ \A q \in Positions : q < r.next => q \in done
    /\ r.at = "record" => r.next \in done
    /\ r.at \in {"seal", "resolve"} => done = Positions

RunFacts == \A e \in Runs : RunFact(run[e], Imported)

(* The inductive invariant.                                                *)
IInv == ImportInv /\ RunFacts

-----------------------------------------------------------------------------
LEMMA LeastNumber ==
    ASSUME NEW T \in SUBSET Nat, T # {}
    PROVE  \E x \in T : \A y \in T : x <= y
<1>. DEFINE Below == {ss \in Nat \X Nat : ss[1] < ss[2]}
<1>1. IsWellFoundedOn(Below, Nat)
  BY NatLessThanWellFounded DEF OpToRel
<1>2. \A x \in T, y \in T : y < x => <<y, x>> \in Below
  OBVIOUS
<1>. HIDE DEF Below
<1>. T \subseteq Nat
  OBVIOUS
<1>3. \E x \in T : \A y \in T : ~(<<y, x>> \in Below)
  BY ONLY <1>1, T # {}, T \subseteq Nat, WFMin, Zenon
<1>4. PICK x \in T : \A y \in T : ~(<<y, x>> \in Below)
  BY <1>3
<1>5. \A y \in T : ~(y < x)
  BY <1>2, <1>4, Zenon
<1>. QED BY <1>4, <1>5

(* The next position of an invocation: no position it did not see imported *)
(* lies between.                                                           *)
LEMMA PendingFacts ==
    ASSUME NEW e \in Runs, NEW p \in 1..(Problems + 1)
    PROVE  /\ Pending(e, p) \in p..(Problems + 1)
           /\ \A q \in Positions : q >= p /\ q < Pending(e, p) => q \in run[e].seen
           /\ Pending(e, p) \in Positions => Pending(e, p) \notin run[e].seen
<1>. USE ImportAssumption DEF ImportAssumption, Positions
<1>. DEFINE left == {q \in Positions \ run[e].seen : q >= p}
<1>1. CASE left = {}
  BY <1>1 DEF Pending
<1>2. CASE left # {}
  <2>. left \in SUBSET Nat
    OBVIOUS
  <2>1. \E q \in left : \A r \in left : q <= r
    BY <1>2, LeastNumber, Zenon
  <2>2. Pending(e, p) = CHOOSE q \in left : \A r \in left : q <= r
    BY <1>2 DEF Pending
  <2>3. Pending(e, p) \in left /\ \A r \in left : Pending(e, p) <= r
    BY <2>1, <2>2
  <2>. QED BY <2>3
<1>. QED BY <1>1, <1>2

-----------------------------------------------------------------------------
(* The queue entry.                                                        *)
LEMMA ReportFacts ==
    ASSUME LifeTypeOK, NEW e, NEW outcome, Report(e, outcome)
    PROVE  /\ LifeTypeOK'
           /\ phase'[Task] = "succeeded" => phase[Task] = "succeeded" \/ outcome = "succeeded"
<1>. USE TaskAssumption, MaxAttemptsAssumption
     DEF TaskAssumption, MaxAttemptsAssumption, LifeTypeOK, Phases, Final
<1>1. CASE UNCHANGED lifeVars
  BY <1>1 DEF lifeVars
<1>2. ASSUME NEW p \in {"succeeded", "queued", "failed"}, LeaveFor(Task, p),
             p = "succeeded" => outcome = "succeeded"
      PROVE  /\ LifeTypeOK'
             /\ phase'[Task] = "succeeded" => phase[Task] = "succeeded" \/ outcome = "succeeded"
  BY <1>2 DEF LeaveFor
<1>. QED BY <1>1, <1>2 DEF Report, Succeed, Retry, GiveUp

LEMMA QueueFacts ==
    ASSUME LifeTypeOK,
           Submit(Task) \/ Grant(Task) \/ Reclaim({Task}) \/ Lapse({Task}) \/ UNCHANGED lifeVars
    PROVE  LifeTypeOK' /\ (phase'[Task] = "succeeded" => phase[Task] = "succeeded")
BY TaskAssumption, MaxAttemptsAssumption
   DEF TaskAssumption, MaxAttemptsAssumption, LifeTypeOK, Phases, Final, Submit, Grant, Reclaim, Lapse,
       lifeVars

-----------------------------------------------------------------------------
(* The database: what the invariant says of the row, the items and the     *)
(* problems, and what each statement does to them.                         *)
RowInv ==
    /\ task \in {"absent", "queued", "running", "succeeded", "failed"}
    /\ progress \in {0, 30, 60, 100}
    /\ items \in [Positions -> {"queued", "failed", "succeeded"}]
    /\ created \in [Positions -> Nat]
    /\ OneProblemPerPosition /\ SealedIsComplete /\ FailedIsEmpty

RowAdvances ==
    /\ RowInv'
    /\ Imported \subseteq Imported'
    /\ task \in {"succeeded", "failed"} => task' = task
    /\ progress' >= progress

LEMMA StatementsKeep ==
    ASSUME RowInv,
           \/ Untouched \/ StartRow \/ MarkFirstFailed \/ FailRow
           \/ \E new \in {30, 60} : SetProgress(new)
           \/ \E p \in Positions : WriteProblem(p)
           \/ CompleteRow /\ Imported = Positions
           \/ task = "absent" /\ task' = "queued" /\ UNCHANGED <<progress, items, created>>
    PROVE  RowAdvances
<1>. USE DEF RowInv, RowAdvances, OneProblemPerPosition, SealedIsComplete, FailedIsEmpty, Imported
<1>1. CASE Untouched
  BY <1>1 DEF Untouched, taskVars
<1>2. CASE StartRow \/ (task = "absent" /\ task' = "queued" /\ UNCHANGED <<progress, items, created>>)
  BY <1>2 DEF StartRow
<1>3. CASE MarkFirstFailed
  <2>1. 1 \in Positions
    BY ImportAssumption DEF ImportAssumption, Positions
  <2>2. CASE Untouched
    BY <1>1, <2>2
  <2>3. CASE task = "running" /\ items[1] # "succeeded" /\ items' = [items EXCEPT ![1] = "failed"]
             /\ UNCHANGED <<task, progress, created>>
    BY <2>1, <2>3
  <2>. QED BY <1>3, <2>2, <2>3 DEF MarkFirstFailed
<1>4. CASE FailRow
  BY <1>4 DEF FailRow, MayFail, Untouched, taskVars
<1>5. ASSUME NEW new \in {30, 60}, SetProgress(new) PROVE RowAdvances
  BY <1>5 DEF SetProgress, ProgressAccepted
<1>6. ASSUME NEW p \in Positions, WriteProblem(p) PROVE RowAdvances
  <2>1. CASE Untouched
    BY <1>1, <2>1
  <2>2. CASE WriteAccepted(p)
    <3>1. /\ created' = [created EXCEPT ![p] = @ + 1] /\ items' = [items EXCEPT ![p] = "succeeded"]
          /\ UNCHANGED <<task, progress>> /\ task = "running" /\ items[p] # "succeeded"
      BY <1>6, <2>2 DEF WriteProblem, WriteAccepted
    <3>. QED BY <3>1
  <2>. QED BY <1>6, <2>1, <2>2 DEF WriteProblem
<1>7. CASE CompleteRow /\ Imported = Positions
  BY <1>7 DEF CompleteRow, Untouched, taskVars
<1>. QED BY <1>1, <1>2, <1>3, <1>4, <1>5, <1>6, <1>7

-----------------------------------------------------------------------------
(* A step of one handler invocation.                                       *)
RunStep(e) ==
    \E new \in RunType : run' = [run EXCEPT ![e] = new] /\ RunFact(new, Imported')

QueueStep(e) ==
    \/ UNCHANGED lifeVars
    \/ \E outcome \in {"succeeded", "permanent", "retryable"} :
          Report(e, outcome) /\ (outcome = "succeeded" => task' = "succeeded")

HandlerStep(e) ==
    /\ RowAdvances /\ QueueStep(e) /\ RunStep(e)
    /\ UNCHANGED envVars /\ faults' \in 0..MaxFaults

(* A step leaves the other invocations right: imported stays imported.     *)
LEMMA FactsLast ==
    ASSUME RowInv, RowAdvances, NEW r \in RunType, RunFact(r, Imported)
    PROVE  RunFact(r, Imported')
<1>1. Imported \subseteq Imported' /\ Imported' \subseteq Positions
  BY DEF RowAdvances, Imported
<1>. QED BY <1>1 DEF RunFact, RunType

LEMMA HandlerStepKeeps ==
    ASSUME IInv, NEW e \in Runs, HandlerStep(e)
    PROVE  IInv' /\ RowAdvances
<1>1. RowInv /\ LifeTypeOK /\ run \in [Runs -> RunType] /\ RunFacts
  BY DEF IInv, ImportInv, TypeOK, RowInv, RunType
<1>2. RowAdvances /\ QueueStep(e) /\ RunStep(e) /\ UNCHANGED envVars /\ faults' \in 0..MaxFaults
  BY DEF HandlerStep
<1>3. LifeTypeOK' /\ QueueSuccessIsReal'
  <2>1. phase[Task] = "succeeded" => task' = "succeeded"
    BY <1>2 DEF IInv, ImportInv, QueueSuccessIsReal, RowAdvances
  <2>2. CASE UNCHANGED lifeVars
    BY <1>1, <2>1, <2>2 DEF lifeVars, LifeTypeOK, QueueSuccessIsReal
  <2>3. ASSUME NEW outcome, Report(e, outcome), outcome = "succeeded" => task' = "succeeded"
        PROVE  LifeTypeOK' /\ QueueSuccessIsReal'
    BY <1>1, <2>1, <2>3, ReportFacts DEF QueueSuccessIsReal
  <2>. QED BY <1>2, <2>2, <2>3 DEF QueueStep
<1>4. run' \in [Runs -> RunType] /\ RunFacts'
  <2>1. PICK new \in RunType : run' = [run EXCEPT ![e] = new] /\ RunFact(new, Imported')
    BY <1>2 DEF RunStep
  <2>2. ASSUME NEW d \in Runs PROVE RunFact(run'[d], Imported')
    <3>1. CASE d = e
      BY <1>1, <2>1, <3>1
    <3>2. CASE d # e
      <4>1. run'[d] = run[d] /\ run[d] \in RunType /\ RunFact(run[d], Imported)
        BY <1>1, <2>1, <3>2 DEF RunFacts
      <4>. QED BY <1>1, <1>2, <4>1, FactsLast
    <3>. QED BY <3>1, <3>2
  <2>. QED BY <1>1, <2>1, <2>2 DEF RunFacts
<1>5. TypeOK'
  BY <1>2, <1>3, <1>4 DEF IInv, ImportInv, TypeOK, RowAdvances, RowInv, envVars, RunType
<1>. QED
  BY <1>2, <1>3, <1>4, <1>5 DEF IInv, ImportInv, RowAdvances, RowInv

(* How the steps of a handler end.                                         *)
LEMMA Continues ==
    ASSUME IInv, NEW e \in Runs, NEW step \in Steps, Continue(e, step),
           RunFact([run[e] EXCEPT !.at = step], Imported')
    PROVE  QueueStep(e) /\ RunStep(e)
<1>1. run[e] \in RunType
  BY DEF IInv, ImportInv, TypeOK, RunType
<1>2. [run[e] EXCEPT !.at = step] \in RunType
  BY <1>1 DEF RunType
<1>3. run' = [run EXCEPT ![e] = [run[e] EXCEPT !.at = step]] /\ UNCHANGED lifeVars
  BY DEF Continue
<1>. QED BY <1>2, <1>3 DEF RunStep, QueueStep

(* What a step that neither seals nor writes has to know.                  *)
Plain == Steps \ {"access", "convert", "parse", "announce", "advance", "write", "commit",
                  "record", "seal", "resolve"}

LEMMA ContinuesPlainly ==
    ASSUME IInv, NEW e \in Runs, NEW step \in Plain, Continue(e, step), RowAdvances
    PROVE  QueueStep(e) /\ RunStep(e)
<1>1. run[e] \in RunType /\ run[e].seen \subseteq Imported' /\ step \in Steps
  BY DEF IInv, ImportInv, TypeOK, RunType, RunFacts, RunFact, RowAdvances, Plain
<1>2. RunFact([run[e] EXCEPT !.at = step], Imported')
  BY <1>1 DEF RunFact, RunType, Plain
<1>. QED BY <1>1, <1>2, Continues

LEMMA Raises ==
    ASSUME IInv, NEW e \in Runs, NEW error \in Errors, Raise(e, error), RowAdvances
    PROVE  QueueStep(e) /\ RunStep(e)
<1>. DEFINE new == [run[e] EXCEPT !.at = "catch", !.error = error]
<1>1. run[e] \in RunType /\ run[e].seen \subseteq Imported'
  BY DEF IInv, ImportInv, TypeOK, RunType, RunFacts, RunFact, RowAdvances
<1>2. new \in RunType /\ RunFact(new, Imported')
  BY <1>1 DEF RunFact, RunType, Steps
<1>3. run' = [run EXCEPT ![e] = new] /\ UNCHANGED lifeVars
  BY DEF Raise
<1>. QED BY <1>2, <1>3 DEF RunStep, QueueStep

LEMMA Finishes ==
    ASSUME IInv, NEW e \in Runs, NEW outcome \in {"succeeded", "permanent", "retryable"},
           NEW error \in Errors, Finish(e, outcome, error), RowAdvances,
           outcome = "succeeded" => task' = "succeeded"
    PROVE  QueueStep(e) /\ RunStep(e)
<1>. DEFINE new == [NoRun EXCEPT !.at = "ended", !.seen = run[e].seen, !.error = error]
<1>1. run[e] \in RunType /\ run[e].seen \subseteq Imported'
  BY DEF IInv, ImportInv, TypeOK, RunType, RunFacts, RunFact, RowAdvances
<1>2. NoRun \in RunType
  BY ImportAssumption DEF NoRun, RunType, Steps, Errors, ImportAssumption
<1>3. run[e].seen \in SUBSET Positions /\ 1 \in 1..Problems + 1
  BY <1>1, ImportAssumption DEF RunType, ImportAssumption
<1>4. new \in RunType
  BY <1>2, <1>3 DEF RunType, Steps
<1>5. RunFact(new, Imported')
  BY <1>1, <1>2 DEF RunFact, RunType
<1>6. run' = [run EXCEPT ![e] = new] /\ Report(e, outcome)
  BY DEF Finish
<1>. QED BY <1>4, <1>5, <1>6 DEF RunStep, QueueStep

-----------------------------------------------------------------------------
(* Every step of a handler, and every call of its that throws, is such a   *)
(* step.                                                                   *)
LEMMA HandlerSteps ==
    ASSUME IInv, NEW e \in Runs, Handler(e)
    PROVE  HandlerStep(e)
<1>. USE DEF At
<1>1. run[e] \in RunType /\ RunFact(run[e], Imported) /\ RowInv /\ Imported \subseteq Positions
      /\ faults \in 0..MaxFaults
  BY DEF IInv, ImportInv, TypeOK, RowInv, RunType, RunFacts, Imported
<1>2. SUFFICES RowAdvances /\ QueueStep(e) /\ RunStep(e) /\ Quiet
  BY <1>1 DEF HandlerStep, Quiet
<1>3. ASSUME Untouched PROVE RowAdvances /\ Imported' = Imported /\ task' = task
  BY <1>1, <1>3, StatementsKeep DEF Untouched, taskVars, Imported
<1>4. CASE Start(e) \/ Last(e)
  <2>1. StartRow /\ RowAdvances /\ Quiet
    BY <1>1, <1>4, StatementsKeep DEF Start, Last
  <2>2. CASE task' = "running"
    <3>1. \E step \in {"items", "count"} : Continue(e, step)
      BY <1>4, <2>2 DEF Start, Last
    <3>. QED BY <2>1, <3>1, ContinuesPlainly DEF Plain, Steps
  <2>3. CASE task' # "running"
    <3>1. \E outcome \in {"succeeded", "permanent"} :
            Finish(e, outcome, "none") /\ (outcome = "succeeded" => task' = "succeeded")
      BY <1>4, <2>3 DEF Start, Last
    <3>. QED BY <2>1, <3>1, Finishes DEF Errors
  <2>. QED BY <2>2, <2>3
<1>5. CASE ReadItems(e)
  <2>1. RowAdvances /\ Imported' = Imported /\ UNCHANGED lifeVars /\ Quiet
    BY <1>3, <1>5 DEF ReadItems
  <2>2. PICK step \in {"seal", "access"} :
          /\ run' = [run EXCEPT ![e].seen = Imported, ![e].at = step]
          /\ step = "seal" <=> Imported = Positions
    BY <1>5 DEF ReadItems
  <2>. DEFINE new == [run[e] EXCEPT !.seen = Imported, !.at = step]
  <2>3. new \in RunType /\ run' = [run EXCEPT ![e] = new]
    BY <1>1, <2>2 DEF RunType, Steps
  <2>4. RunFact(new, Imported')
    BY <1>1, <2>1, <2>2 DEF RunFact, RunType
  <2>. QED BY <2>1, <2>3, <2>4 DEF RunStep, QueueStep
<1>6. CASE Access(e)
  <2>1. RowAdvances /\ Imported' = Imported /\ Quiet
    BY <1>3, <1>6 DEF Access
  <2>2. CASE Continue(e, "convert")
    <3>1. RunFact([run[e] EXCEPT !.at = "convert"], Imported')
      BY <1>1, <1>6, <2>1 DEF RunFact, RunType, Access
    <3>. QED BY <2>1, <2>2, <3>1, Continues DEF Steps
  <2>3. CASE Raise(e, "package")
    BY <2>1, <2>3, Raises DEF Errors
  <2>. QED BY <1>6, <2>2, <2>3 DEF Access
<1>7. CASE Convert(e)
  <2>1. RowAdvances /\ Quiet /\ Imported' = Imported
    BY <1>1, <1>7, StatementsKeep DEF Convert, SetProgress, Imported
  <2>2. CASE Continue(e, "parse")
    <3>1. RunFact([run[e] EXCEPT !.at = "parse"], Imported')
      BY <1>1, <1>7, <2>1 DEF RunFact, RunType, Convert
    <3>. QED BY <2>1, <2>2, <3>1, Continues DEF Steps
  <2>3. ASSUME NEW error \in {"refused", "temporary"}, Raise(e, error)
        PROVE  QueueStep(e) /\ RunStep(e)
    BY <2>1, <2>3, Raises DEF Errors
  <2>. QED BY <1>7, <2>1, <2>2, <2>3 DEF Convert
<1>8. CASE Parse(e)
  <2>1. RowAdvances /\ Imported' = Imported /\ Quiet
    BY <1>3, <1>8 DEF Parse
  <2>2. CASE Raise(e, "package")
    BY <2>1, <2>2, Raises DEF Errors
  <2>3. CASE /\ run' = [run EXCEPT ![e].parsed = TRUE, ![e].next = Pending(e, 1),
                                  ![e].at = "announce"]
             /\ UNCHANGED lifeVars
    <3>1. PICK n : n = Pending(e, 1)
      OBVIOUS
    <3>2. 1 \in 1..Problems + 1 /\ Problems \in Nat
      BY ImportAssumption DEF ImportAssumption
    <3>3. /\ n \in 1..Problems + 1
          /\ \A q \in Positions : q >= 1 /\ q < n => q \in run[e].seen
      BY <3>1, <3>2, PendingFacts
    <3>4. run[e].seen # Positions /\ run[e].seen \subseteq Imported
      BY <1>1, <1>8 DEF RunFact, Parse
    <3>5. n \in Positions /\ \A q \in Positions : q < n => q \in Imported
      <4>1. \A q \in Positions : q \in Nat /\ q >= 1 /\ q < Problems + 1
        BY <3>2 DEF Positions
      <4>2. n # Problems + 1
        BY <1>1, <3>3, <3>4, <4>1
      <4>3. n \in Positions
        BY <3>2, <3>3, <4>2 DEF Positions
      <4>. QED BY <3>3, <3>4, <4>1, <4>3
    <3>. DEFINE new == [run[e] EXCEPT !.parsed = TRUE, !.next = n, !.at = "announce"]
    <3>6. new \in RunType
      BY <1>1, <3>3 DEF RunType, Steps
    <3>7. run' = [run EXCEPT ![e] = new]
      BY <2>3, <3>1
    <3>8. RunFact(new, Imported')
      BY <1>1, <2>1, <3>4, <3>5 DEF RunFact, RunType
    <3>. QED BY <2>1, <2>3, <3>6, <3>7, <3>8 DEF RunStep, QueueStep
  <2>. QED BY <1>8, <2>2, <2>3 DEF Parse
<1>9. CASE Announce(e) \/ Advance(e)
  <2>1. RowAdvances /\ Quiet /\ Imported' = Imported
    BY <1>1, <1>3, <1>9, StatementsKeep DEF Announce, Advance, SetProgress, Imported
  <2>2. ASSUME NEW step \in {"advance", "write"}, Continue(e, step)
        PROVE  QueueStep(e) /\ RunStep(e)
    <3>1. RunFact([run[e] EXCEPT !.at = step], Imported')
      BY <1>1, <1>9, <2>1 DEF RunFact, RunType, Announce, Advance
    <3>. QED BY <2>1, <2>2, <3>1, Continues DEF Steps
  <2>3. CASE Raise(e, "temporary")
    BY <2>1, <2>3, Raises DEF Errors
  <2>. QED BY <1>9, <2>1, <2>2, <2>3 DEF Announce, Advance
<1>10. CASE Write(e)
  <2>1. RowAdvances /\ Imported' = Imported /\ Quiet
    BY <1>3, <1>10 DEF Write
  <2>2. CASE Raise(e, "package")
    BY <2>1, <2>2, Raises DEF Errors
  <2>3. ASSUME NEW step \in {"record", "commit"}, Continue(e, step),
               step = "record" => items[run[e].next] = "succeeded"
        PROVE  QueueStep(e) /\ RunStep(e)
    <3>1. run[e].next \in Positions /\ \A q \in Positions : q < run[e].next => q \in Imported
      BY <1>1, <1>10 DEF RunFact, Write
    <3>2. step = "record" => run[e].next \in Imported
      BY <2>3, <3>1 DEF Imported
    <3>3. RunFact([run[e] EXCEPT !.at = step], Imported')
      BY <1>1, <2>1, <3>1, <3>2 DEF RunFact, RunType
    <3>. QED BY <2>1, <2>3, <3>3, Continues DEF Steps
  <2>. QED BY <1>10, <2>1, <2>2, <2>3 DEF Write
<1>11. CASE Commit(e)
  <2>1. run[e].next \in Positions /\ \A q \in Positions : q < run[e].next => q \in Imported
    BY <1>1, <1>11 DEF RunFact, Commit
  <2>2. RowAdvances /\ Quiet
    BY <1>1, <1>3, <1>11, <2>1, StatementsKeep DEF Commit
  <2>3. ASSUME NEW error \in {"package", "temporary"}, Raise(e, error)
        PROVE  QueueStep(e) /\ RunStep(e)
    BY <2>2, <2>3, Raises DEF Errors
  <2>4. ASSUME Continue(e, "record"), items'[run[e].next] = "succeeded"
        PROVE  QueueStep(e) /\ RunStep(e)
    <3>1. run[e].next \in Imported' /\ Imported \subseteq Imported'
      BY <2>1, <2>2, <2>4 DEF Imported, RowAdvances
    <3>2. RunFact([run[e] EXCEPT !.at = "record"], Imported')
      BY <1>1, <2>1, <3>1 DEF RunFact, RunType
    <3>. QED BY <2>2, <2>4, <3>2, Continues DEF Steps
  <2>. QED BY <1>11, <2>2, <2>3, <2>4 DEF Commit
<1>12. CASE Record(e)
  <2>1. RowAdvances /\ Imported' = Imported /\ Quiet
    BY <1>3, <1>12 DEF Record
  <2>2. CASE Raise(e, "package")
    BY <2>1, <2>2, Raises DEF Errors
  <2>3. CASE task = "running"
    <3>1. PICK n : n = Pending(e, run[e].next + 1)
      OBVIOUS
    <3>2. /\ run[e].next \in Positions /\ run[e].next \in Imported
          /\ \A q \in Positions : q < run[e].next => q \in Imported
          /\ run[e].seen \subseteq Imported
      BY <1>1, <1>12 DEF RunFact, Record
    <3>3. Problems \in Nat /\ run[e].next \in Nat /\ run[e].next + 1 \in 1..Problems + 1
      BY <3>2, ImportAssumption DEF ImportAssumption, Positions
    <3>4. /\ n \in (run[e].next + 1)..Problems + 1
          /\ \A q \in Positions : q >= run[e].next + 1 /\ q < n => q \in run[e].seen
      BY <3>1, <3>3, PendingFacts
    <3>5. \A q \in Positions : q < n => q \in Imported
      <4>1. ASSUME NEW q \in Positions, q < n PROVE q \in Imported
        <5>1. q < run[e].next \/ q = run[e].next \/ q >= run[e].next + 1
          BY <3>3 DEF Positions
        <5>. QED BY <3>2, <3>4, <4>1, <5>1
      <4>. QED BY <4>1
    <3>6. PICK step \in {"seal", "write"} :
            /\ step = "seal" <=> n > Problems
            /\ run' = [run EXCEPT ![e].wrote = TRUE, ![e].next = n, ![e].at = step]
            /\ UNCHANGED lifeVars
      BY <1>12, <2>3, <3>1 DEF Record
    <3>7. step = "write" => n \in Positions
      BY <3>3, <3>4, <3>6 DEF Positions
    <3>8. step = "seal" => Imported = Positions
      <4>1. ASSUME step = "seal", NEW q \in Positions PROVE q < n
        BY <3>3, <3>4, <3>6, <4>1 DEF Positions
      <4>. QED BY <1>1, <3>5, <4>1
    <3>. DEFINE new == [run[e] EXCEPT !.wrote = TRUE, !.next = n, !.at = step]
    <3>9. new \in RunType
      <4>1. n \in 1..Problems + 1 /\ step \in Steps
        BY <3>3, <3>4, <3>6 DEF Steps
      <4>. QED BY <1>1, <4>1 DEF RunType
    <3>10. run' = [run EXCEPT ![e] = new]
      BY <3>6
    <3>11. RunFact(new, Imported')
      BY <1>1, <2>1, <3>2, <3>5, <3>7, <3>8 DEF RunFact, RunType
    <3>. QED BY <2>1, <3>6, <3>9, <3>10, <3>11 DEF RunStep, QueueStep
  <2>. QED BY <1>12, <2>1, <2>2, <2>3 DEF Record
<1>13. CASE Seal(e) \/ Resolve(e)
  <2>1. Imported = Positions
    BY <1>1, <1>13 DEF RunFact, Seal, Resolve
  <2>2. RowAdvances /\ Quiet
    BY <1>1, <1>13, <2>1, StatementsKeep DEF Seal, Resolve
  <2>3. CASE task' = "succeeded"
    <3>1. Finish(e, "succeeded", "none")
      BY <1>13, <2>3 DEF Seal, Resolve
    <3>. QED BY <2>2, <2>3, <3>1, Finishes DEF Errors
  <2>4. CASE Raise(e, "temporary")
    BY <2>2, <2>4, Raises DEF Errors
  <2>5. CASE Finish(e, "retryable", "temporary")
    BY <2>2, <2>5, Finishes DEF Errors
  <2>. QED BY <1>13, <2>3, <2>4, <2>5 DEF Seal, Resolve
<1>14. CASE Catch(e) \/ Count(e)
  <2>1. RowAdvances /\ Imported' = Imported /\ Quiet
    BY <1>3, <1>14 DEF Catch, Count
  <2>2. ASSUME NEW step \in {"count", "last", "mark"}, Continue(e, step)
        PROVE  QueueStep(e) /\ RunStep(e)
    BY <2>1, <2>2, ContinuesPlainly DEF Plain, Steps
  <2>3. ASSUME Imported = Positions, Continue(e, "resolve")
        PROVE  QueueStep(e) /\ RunStep(e)
    <3>1. RunFact([run[e] EXCEPT !.at = "resolve"], Imported')
      BY <1>1, <2>1, <2>3 DEF RunFact, RunType
    <3>. QED BY <2>1, <2>3, <3>1, Continues DEF Steps
  <2>4. ASSUME NEW error \in Errors, Finish(e, "retryable", error)
        PROVE  QueueStep(e) /\ RunStep(e)
    BY <2>1, <2>4, Finishes
  <2>5. CASE Catch(e)
    BY <1>1, <2>1, <2>2, <2>4, <2>5 DEF Catch, RunType
  <2>6. CASE Count(e)
    BY <2>1, <2>2, <2>3, <2>4, <2>6 DEF Count, Errors
  <2>. QED BY <1>14, <2>5, <2>6
<1>15. CASE Mark(e)
  <2>1. RowAdvances /\ Quiet /\ Continue(e, "bury")
    BY <1>1, <1>15, StatementsKeep DEF Mark
  <2>. QED BY <2>1, ContinuesPlainly DEF Plain, Steps
<1>16. CASE Bury(e)
  <2>1. RowAdvances /\ Quiet
    BY <1>1, <1>16, StatementsKeep DEF Bury
  <2>2. ASSUME Imported = Positions, Continue(e, "resolve")
        PROVE  QueueStep(e) /\ RunStep(e)
    <3>1. Imported' = Positions
      BY <2>1, <2>2 DEF RowAdvances, Imported
    <3>2. RunFact([run[e] EXCEPT !.at = "resolve"], Imported')
      BY <1>1, <2>2, <3>1 DEF RunFact, RunType
    <3>. QED BY <2>1, <2>2, <3>2, Continues DEF Steps
  <2>3. ASSUME NEW outcome \in {"permanent", "retryable"}, NEW error \in {"none", "temporary"},
               Finish(e, outcome, error)
        PROVE  QueueStep(e) /\ RunStep(e)
    BY <2>1, <2>3, Finishes DEF Errors
  <2>. QED BY <1>16, <2>1, <2>2, <2>3 DEF Bury
<1>. QED
  BY <1>4, <1>5, <1>6, <1>7, <1>8, <1>9, <1>10, <1>11, <1>12, <1>13, <1>14, <1>15, <1>16
     DEF Handler

LEMMA ThrowSteps ==
    ASSUME IInv, NEW e \in Runs, StoreErrs(e)
    PROVE  HandlerStep(e)
<1>. USE DEF At
<1>1. run[e] \in RunType /\ RunFact(run[e], Imported) /\ RowInv /\ Imported \subseteq Positions
  BY DEF IInv, ImportInv, TypeOK, RowInv, RunType, RunFacts, Imported
<1>2. UNCHANGED envVars /\ faults' \in 0..MaxFaults
  BY ImportAssumption DEF StoreErrs, IInv, ImportInv, TypeOK, ImportAssumption
<1>3. RowAdvances
  <2>1. Untouched \/ Statement(e)
    BY DEF StoreErrs
  <2>2. CASE Untouched
    BY <1>1, <2>2, StatementsKeep
  <2>3. CASE Statement(e)
    <3>1. CASE At(e, "start") \/ At(e, "last") \/ At(e, "convert") \/ At(e, "advance")
      BY <1>1, <2>3, <3>1, StatementsKeep DEF Statement
    <3>2. CASE At(e, "commit")
      <4>1. run[e].next \in Positions /\ WriteProblem(run[e].next)
        BY <1>1, <2>3, <3>2 DEF RunFact, Statement
      <4>. QED BY <1>1, <4>1, StatementsKeep
    <3>3. CASE At(e, "mark") \/ At(e, "bury")
      BY <1>1, <2>3, <3>3, StatementsKeep DEF Statement
    <3>4. CASE run[e].at \notin {"start", "last", "convert", "advance", "commit", "mark", "bury"}
      BY <1>1, <2>3, <3>4, StatementsKeep DEF Statement
    <3>. QED BY <3>1, <3>2, <3>3, <3>4
  <2>. QED BY <2>1, <2>2, <2>3
<1>4. ASSUME NEW error \in {"temporary", "package"}, Raise(e, error)
      PROVE  QueueStep(e) /\ RunStep(e)
  BY <1>3, <1>4, Raises DEF Errors
<1>5. ASSUME At(e, "commit"), items'[run[e].next] = "succeeded", Continue(e, "record")
      PROVE  QueueStep(e) /\ RunStep(e)
  <2>1. run[e].next \in Positions /\ \A q \in Positions : q < run[e].next => q \in Imported
    BY <1>1, <1>5 DEF RunFact
  <2>2. run[e].next \in Imported' /\ Imported \subseteq Imported'
    BY <1>3, <1>5, <2>1 DEF Imported, RowAdvances
  <2>3. RunFact([run[e] EXCEPT !.at = "record"], Imported')
    BY <1>1, <2>1, <2>2 DEF RunFact, RunType
  <2>. QED BY <1>3, <1>5, <2>3, Continues DEF Steps
<1>6. ASSUME Continue(e, "bury") PROVE QueueStep(e) /\ RunStep(e)
  BY <1>3, <1>6, ContinuesPlainly DEF Plain, Steps
<1>7. ASSUME Finish(e, "retryable", "temporary") PROVE QueueStep(e) /\ RunStep(e)
  BY <1>3, <1>7, Finishes DEF Errors
<1>8. QueueStep(e) /\ RunStep(e)
  BY <1>4, <1>5, <1>6, <1>7 DEF StoreErrs
<1>. QED BY <1>2, <1>3, <1>8 DEF HandlerStep

(* The steps around the handlers leave the row alone or insert it.         *)
OtherStep ==
    \/ CreateRow \/ Enqueue \/ Lease \/ TakeBack \/ LeaseLapses \/ Revoke \/ Restart
    \/ \E e \in Runs : Timeout(e) \/ HeartbeatFails(e)

LEMMA OtherStepsKeep ==
    ASSUME IInv, OtherStep \/ UNCHANGED vars
    PROVE  IInv' /\ RowAdvances
<1>1. RowInv /\ LifeTypeOK /\ run \in [Runs -> RunType] /\ RunFacts /\ QueueSuccessIsReal
      /\ allowed \in BOOLEAN /\ valid \in BOOLEAN /\ restarts \in 0..MaxRestarts
      /\ faults \in 0..MaxFaults
  BY DEF IInv, ImportInv, TypeOK, RowInv, RunType
<1>2. RowAdvances
  <2>1. Untouched \/ (task = "absent" /\ task' = "queued" /\ UNCHANGED <<progress, items, created>>)
    BY DEF OtherStep, Untouched, taskVars, vars, CreateRow, Enqueue, Lease, TakeBack, LeaseLapses,
           Revoke, Restart, Timeout, HeartbeatFails
  <2>. QED BY <1>1, <2>1, StatementsKeep
<1>3. /\ allowed' \in BOOLEAN /\ valid' \in BOOLEAN /\ restarts' \in 0..MaxRestarts
      /\ faults' \in 0..MaxFaults
  <2>1. CASE Restart
    BY <1>1, <2>1, ImportAssumption DEF Restart, ImportAssumption
  <2>2. CASE Revoke
    BY <1>1, <2>2 DEF Revoke
  <2>3. CASE UNCHANGED <<envVars, faults>>
    BY <1>1, <2>3 DEF envVars
  <2>. QED BY <2>1, <2>2, <2>3 DEF OtherStep, envVars, vars, CreateRow, Enqueue, Lease, TakeBack,
                                   LeaseLapses, Timeout, HeartbeatFails
<1>4. LifeTypeOK' /\ (phase'[Task] = "succeeded" => phase[Task] = "succeeded")
  <2>1. CASE Restart
    BY <2>1, TaskAssumption, MaxAttemptsAssumption
       DEF Restart, ProcessRestarts, LifeTypeOK, Phases, Final, TaskAssumption, MaxAttemptsAssumption
  <2>2. ASSUME NEW e \in Runs, Timeout(e)
        PROVE  LifeTypeOK' /\ (phase'[Task] = "succeeded" => phase[Task] = "succeeded")
    BY <1>1, <2>2, ReportFacts DEF Timeout, RunTimesOut
  <2>3. CASE UNCHANGED vars \/ CreateRow \/ Enqueue \/ Lease \/ TakeBack \/ LeaseLapses \/ Revoke
             \/ \E e \in Runs : HeartbeatFails(e)
    <3>1. Submit(Task) \/ Grant(Task) \/ Reclaim({Task}) \/ Lapse({Task}) \/ UNCHANGED lifeVars
      BY <2>3 DEF vars, lifeVars, CreateRow, Enqueue, Lease, LeaseTo, TakeBack, TakeBackTask,
                  LeaseLapses, TaskLapses, Revoke, HeartbeatFails, RunLosesLease
    <3>. QED BY <1>1, <3>1, QueueFacts
  <2>. QED BY <2>1, <2>2, <2>3 DEF OtherStep
<1>5. run' \in [Runs -> RunType] /\ RunFacts'
  <2>1. [NoRun EXCEPT !.at = "start"] \in RunType /\ NoRun \in RunType
    <3>1. NoRun \in RunType
      BY ImportAssumption DEF NoRun, RunType, Steps, Errors, ImportAssumption
    <3>. QED BY <3>1 DEF RunType, Steps
  <2>2. RunFact([NoRun EXCEPT !.at = "start"], Imported') /\ RunFact(NoRun, Imported')
    BY DEF NoRun, RunFact
  <2>3. \A d \in Runs : RunFact(run[d], Imported')
    BY <1>1, <1>2, FactsLast DEF RunFacts
  <2>4. CASE Lease
    <3>1. run' = [run EXCEPT ![issued + 1] = [NoRun EXCEPT !.at = "start"]]
      BY <2>4 DEF Lease, LeaseTo
    <3>2. \A d \in Runs : run'[d] = run[d] \/ run'[d] = [NoRun EXCEPT !.at = "start"]
      BY <1>1, <3>1
    <3>3. run' \in [Runs -> RunType]
      BY <1>1, <2>1, <3>1
    <3>. QED BY <2>2, <2>3, <3>2, <3>3 DEF RunFacts
  <2>5. CASE Restart
    <3>1. run' = [e \in Runs |-> NoRun]
      BY <2>5 DEF Restart, ProcessRestarts
    <3>. QED BY <2>1, <2>2, <3>1 DEF RunFacts
  <2>6. ASSUME NEW e \in Runs, Timeout(e) \/ HeartbeatFails(e)
        PROVE  run' \in [Runs -> RunType] /\ RunFacts'
    <3>. DEFINE new == [run[e] EXCEPT !.aborted = TRUE]
    <3>1. run' = [run EXCEPT ![e] = new]
      BY <2>6 DEF Timeout, RunTimesOut, HeartbeatFails, RunLosesLease
    <3>2. new \in RunType /\ RunFact(run[e], Imported')
      BY <1>1, <2>3 DEF RunType
    <3>3. RunFact(new, Imported')
      BY <1>1, <3>2 DEF RunFact, RunType
    <3>4. \A d \in Runs : run'[d] = run[d] \/ run'[d] = new
      BY <1>1, <3>1
    <3>5. run' \in [Runs -> RunType]
      BY <1>1, <3>1, <3>2
    <3>. QED BY <2>3, <3>3, <3>4, <3>5 DEF RunFacts
  <2>7. CASE UNCHANGED run
    BY <1>1, <2>3, <2>7 DEF RunFacts
  <2>. QED BY <2>4, <2>5, <2>6, <2>7 DEF OtherStep, vars, CreateRow, Enqueue, TakeBack, TakeBackTask,
                                          LeaseLapses, TaskLapses, Revoke
<1>6. TypeOK'
  BY <1>2, <1>3, <1>4, <1>5 DEF TypeOK, RowAdvances, RowInv, RunType
<1>7. QueueSuccessIsReal'
  BY <1>1, <1>2, <1>4 DEF QueueSuccessIsReal, RowAdvances
<1>. QED BY <1>2, <1>5, <1>6, <1>7 DEF IInv, ImportInv, RowAdvances, RowInv

-----------------------------------------------------------------------------
LEMMA InitHolds == ASSUME Init PROVE IInv
<1>1. NoRun \in RunType /\ \A done : RunFact(NoRun, done)
  BY ImportAssumption DEF NoRun, RunType, Steps, Errors, ImportAssumption, RunFact
<1>2. LifeTypeOK /\ phase[Task] = "absent"
  BY TaskAssumption, MaxAttemptsAssumption
     DEF Init, LifeInit, LifeTypeOK, Phases, Final, TaskAssumption, MaxAttemptsAssumption
<1>3. run \in [Runs -> RunType] /\ RunFacts
  BY <1>1 DEF Init, RunFacts
<1>4. TypeOK
  BY <1>2, <1>3, ImportAssumption DEF Init, TypeOK, RunType, ImportAssumption
<1>5. RowInv /\ QueueSuccessIsReal
  BY <1>2 DEF Init, RowInv, OneProblemPerPosition, SealedIsComplete, FailedIsEmpty, QueueSuccessIsReal
<1>. QED BY <1>3, <1>4, <1>5 DEF IInv, ImportInv, RowInv

LEMMA Step == ASSUME IInv, [Next]_vars PROVE IInv' /\ RowAdvances
<1>1. ASSUME NEW e \in Runs, Handler(e) \/ StoreErrs(e) PROVE IInv' /\ RowAdvances
  BY <1>1, HandlerSteps, ThrowSteps, HandlerStepKeeps
<1>2. CASE OtherStep \/ UNCHANGED vars
  BY <1>2, OtherStepsKeep
<1>. QED BY <1>1, <1>2 DEF Next, OtherStep

(* The row, the items, the problems and the queue entry of an import never *)
(* contradict each other: one problem per position, success only when all  *)
(* exist, failure only when none does.                                     *)
THEOREM ImportsAreSafe == Spec => []ImportInv
<1>1. Init => IInv
  BY InitHolds
<1>2. IInv /\ [Next]_vars => IInv'
  BY Step
<1>3. IInv => ImportInv
  BY DEF IInv
<1>. QED BY <1>1, <1>2, <1>3, PTL DEF Spec

(* The outcome of an import is final and its progress never falls.         *)
THEOREM ImportsOnlyAdvance == Spec => TaskOnlyAdvances
<1>1. Init => IInv
  BY InitHolds
<1>2. IInv /\ [Next]_vars => IInv'
  BY Step
<1>3. IInv /\ [Next]_vars =>
        [/\ task \in {"succeeded", "failed"} => task' = task
         /\ progress' >= progress]_vars
  BY Step DEF RowAdvances
<1>. QED BY <1>1, <1>2, <1>3, PTL DEF Spec, TaskOnlyAdvances

-----------------------------------------------------------------------------
(* The search for similar problems.                                        *)
SearchSteps == {"idle", "settings", "secrets", "put", "ask", "commit", "sync", "upsert", "apply",
                "ended"}
Early    == {"settings", "secrets", "put", "ask", "commit"}
Statuses == {"draft", "pending_review", "approved", "rejected"}
Bases    == {"none", "block", "continue", "gone"}
Verdicts == {"none", "complete", "partial", "unavailable"}

SearchType == [at : SearchSteps, kind : {"none", "submit", "manual", "apply"}, revision : Saves,
               status : Statuses, round : Saves, content : Contents \cup {0}, mode : SearchModes,
               basis : Bases, tries : Nat, answer : Answers]
RoundType  == [submitted : Contents, revision : Nat, basis : Bases, opening : Verdicts,
               open : BOOLEAN, used : SUBSET Nat]
ItemType   == [id : Nat, round : Nat, content : Contents \cup {0}, status : Verdicts,
               expires : 0..LastTick]

(* What a request r has read is the problem, if the revision is the same.  *)
Seen(r) ==
    r.at \in Early =>
        /\ r.kind \in {"submit", "manual"} /\ r.content \in Contents /\ r.revision \in 1..Revision
        /\ r.kind = "submit" => r.status \in {"draft", "rejected"}
        /\ r.revision = Revision =>
              r.status = problem.status /\ r.round = problem.round /\ r.content = problem.content

(* What it tells the index was saved.                                      *)
Told(r) == r.at \in {"sync", "upsert"} => r.revision \in 1..Revision /\ r.content = saved[r.revision]

(* What it knows of the settings.                                          *)
Configured(r) ==
    /\ r.at \in {"secrets", "put", "ask"} => r.basis \in {"block", "continue"}
    /\ r.at = "put" => r.mode = "local"
    /\ plugin.revision = 1 =>
          /\ r.at \in {"secrets", "put", "ask", "apply"} => r.mode = plugin.mode
          /\ r.at = "ask" /\ r.mode = "local" => sources = "local"

(* The answer it comes back with.                                          *)
Justified(r) ==
    r.at = "commit" =>
        /\ r.answer.status = "none" => r.answer = Nothing
        /\ r.answer # Nothing => r.answer.content = r.content
        /\ r.answer = Nothing <=> r.basis = "none"
        /\ r.basis = "block" => r.answer.status = "complete"

Blank(r) == r.at = "idle" => r = NoSearch

Sound(r) == Seen(r) /\ Told(r) /\ Configured(r) /\ Justified(r) /\ Blank(r)

(* The problem, its rounds and items: only the last round is open, and     *)
(* nothing was used of it.                                                 *)
ProblemInv ==
    /\ problem \in [status : Statuses, round : Saves, content : Contents]
    /\ saved \in Seq(Contents) /\ Revision \in 1..MaxSaves
    /\ rounds \in Seq(RoundType) /\ reviewItems \in SUBSET ItemType /\ serial \in Nat
    /\ problem.content = saved[Revision]
    /\ Len(rounds) = problem.round /\ problem.round < Revision
    /\ problem.status = "pending_review" => problem.round >= 1
    /\ \A n \in DOMAIN rounds : /\ rounds[n].revision \in 2..Revision
                                /\ rounds[n].open => rounds[n].used = {}
    /\ \A i \in reviewItems : i.round \in 1..problem.round
    /\ OpenedAsChecked /\ OneItemPerContent /\ UsedItemsRemain

PluginInv ==
    /\ plugin \in [enabled : BOOLEAN, mode : SearchModes, failure : {"block", "continue"},
                   keyed : BOOLEAN, revision : 1..1 + MaxUpdates]
    /\ clock \in 0..LastTick - 1 /\ disturbances \in 0..MaxDisturbances

ServerInv ==
    /\ cache \in [Keys -> Answers] /\ sources \in {"yuantiji", "local"}
    /\ indexed \in [revision : Saves, content : Contents \cup {0}] /\ indexed.revision <= Revision
    /\ IndexIsSaved /\ CacheIsTrue

SearchInv ==
    /\ search \in [Searches -> SearchType]
    /\ \A q \in Searches : Sound(search[q]) /\ search[q].tries < RetryAttempts

(* The inductive invariant.                                                *)
ChecksIInv == ProblemInv /\ PluginInv /\ ServerInv /\ SearchInv

-----------------------------------------------------------------------------
(* What a step does to the requests that do not take it.                   *)
ProblemMoves ==
    \/ UNCHANGED <<problem, saved>>
    \/ \E c \in Contents : saved' = Append(saved, c)

ServerMoves ==
    \/ plugin' = plugin /\ sources' \in {sources, "local"}
    \/ plugin' = plugin /\ (plugin.revision = 1 => plugin.mode = "server")
    \/ plugin'.revision # 1

LEMMA SavedGrows ==
    ASSUME saved \in Seq(Contents), ProblemMoves
    PROVE  /\ saved' \in Seq(Contents)
           /\ Revision \in Nat /\ Revision' \in Nat
           /\ \/ Revision' = Revision /\ saved' = saved /\ problem' = problem
              \/ Revision' = Revision + 1
           /\ \A n \in 1..Revision : saved'[n] = saved[n]
<1>1. CASE UNCHANGED <<problem, saved>>
  BY <1>1 DEF Revision
<1>2. ASSUME NEW c \in Contents, saved' = Append(saved, c)
      PROVE  /\ saved' \in Seq(Contents) /\ Revision \in Nat /\ Revision' = Revision + 1
             /\ \A n \in 1..Revision : saved'[n] = saved[n]
  BY <1>2, AppendProperties DEF Revision
<1>. QED BY <1>1, <1>2 DEF ProblemMoves

LEMMA OthersStaySound ==
    ASSUME saved \in Seq(Contents), NEW r \in SearchType, Sound(r), ProblemMoves, ServerMoves
    PROVE  Sound(r)'
<1>1. Seen(r)'
  BY SavedGrows DEF Sound, Seen
<1>2. Told(r)'
  BY SavedGrows DEF Sound, Told
<1>3. Configured(r)'
  BY DEF Sound, Configured, ServerMoves
<1>. QED BY <1>1, <1>2, <1>3 DEF Sound, Justified, Blank

LEMMA RequestMoves ==
    ASSUME ProblemInv, SearchInv, ProblemMoves, ServerMoves, NEW q \in Searches,
           NEW row \in SearchType, search' = [search EXCEPT ![q] = row],
           row.tries < RetryAttempts, Sound(row)'
    PROVE  SearchInv'
<1>. USE DEF SearchInv
<1>1. search' \in [Searches -> SearchType]
  OBVIOUS
<1>2. ASSUME NEW p \in Searches, p # q
      PROVE  Sound(search[p])' /\ search'[p].tries < RetryAttempts
  <2>1. PICK r \in SearchType : r = search[p]
    OBVIOUS
  <2>2. Sound(r)
    BY <2>1, Zenon
  <2>3. Sound(r)'
    BY <2>2, OthersStaySound DEF ProblemInv
  <2>4. search'[p] = r
    BY <1>2, <2>1
  <2>5. Sound(search[p])'
    BY <2>3, <2>4, Zenon
  <2>. QED BY <2>1, <2>4, <2>5
<1>3. search'[q] = row
  OBVIOUS
<1>4. Sound(search[q])'
  BY <1>3, Zenon
<1>5. search'[q].tries < RetryAttempts
  BY <1>3
<1>6. \A p \in Searches : Sound(search[p])' /\ search'[p].tries < RetryAttempts
  <2>. TAKE p \in Searches
  <2>1. CASE p = q
    BY <2>1, <1>4, <1>5
  <2>2. CASE p # q
    BY <2>2, <1>2
  <2>. QED BY <2>1, <2>2
<1>. QED BY <1>1, <1>6

-----------------------------------------------------------------------------
(* The request that takes the step, and what it holds afterwards.          *)
GoodMove(q) ==
    \E row \in SearchType : /\ row.tries < RetryAttempts /\ Sound(row)'
                           /\ search' = [search EXCEPT ![q] = row]

StandsStill == UNCHANGED <<problem, saved, plugin>>

LEMMA GoodMoves ==
    ASSUME ProblemInv, SearchInv, ProblemMoves, ServerMoves, NEW q \in Searches, GoodMove(q)
    PROVE  SearchInv'
<1>1. PICK row \in SearchType : /\ row.tries < RetryAttempts /\ Sound(row)'
                               /\ search' = [search EXCEPT ![q] = row]
  BY DEF GoodMove
<1>. QED BY <1>1, RequestMoves

LEMMA NoSearchTyped ==
    /\ NoSearch \in SearchType /\ NoSearch.at = "idle" /\ NoSearch.tries < RetryAttempts
    /\ Nothing \in Answers
BY SubmitAssumption
   DEF SubmitAssumption, NoSearch, SearchType, SearchSteps, Saves, Statuses, SearchModes, Bases,
       Answers, Nothing, LastTick

LEMMA EndsGood ==
    ASSUME SearchInv, NEW q \in Searches, Ends(q)
    PROVE  GoodMove(q)
<1>1. PICK row : row = [NoSearch EXCEPT !.at = "ended"]
  OBVIOUS
<1>2. row \in SearchType /\ row.at = "ended" /\ row.tries < RetryAttempts
  BY <1>1, NoSearchTyped DEF SearchType, SearchSteps
<1>3. Sound(row)'
  BY <1>2 DEF Sound, Seen, Told, Configured, Justified, Blank, Early
<1>. QED BY <1>1, <1>2, <1>3 DEF GoodMove, Ends

LEMMA AnsweredGood ==
    ASSUME SearchInv, StandsStill, NEW q \in Searches, search[q].at \in Early,
           NEW b \in {"block", "continue", "gone"}, NEW a \in Answers,
           a.status # "none", a.content = search[q].content, b = "block" => a.status = "complete",
           Answered(q, b, a)
    PROVE  GoodMove(q)
<1>1. search[q] \in SearchType /\ search[q].tries < RetryAttempts /\ Seen(search[q])
  BY DEF SearchInv, Sound
<1>2. PICK row : row = [search[q] EXCEPT !.at = "commit", !.basis = b, !.answer = a]
  OBVIOUS
<1>3. row \in SearchType /\ row.tries < RetryAttempts
  BY <1>1, <1>2 DEF SearchType, SearchSteps, Bases
<1>4. /\ row.at = "commit" /\ row.basis = b /\ row.answer = a /\ row.kind = search[q].kind
      /\ row.content = search[q].content /\ row.revision = search[q].revision
      /\ row.status = search[q].status /\ row.round = search[q].round
  BY <1>1, <1>2 DEF SearchType
<1>5. Seen(row)'
  BY <1>1, <1>4 DEF Seen, StandsStill, Revision, Early
<1>6. a # Nothing
  BY DEF Nothing
<1>7. Sound(row)'
  BY <1>4, <1>5, <1>6 DEF Sound, Told, Configured, Justified, Blank
<1>8. search' = [search EXCEPT ![q] = row]
  BY <1>2 DEF Answered, SearchInv
<1>. QED BY <1>3, <1>7, <1>8 DEF GoodMove

LEMMA UnavailableAnswer ==
    ASSUME SearchInv, NEW q \in Searches
    PROVE  /\ Unavailable(q) \in Answers /\ Unavailable(q).status = "unavailable"
           /\ Unavailable(q).content = search[q].content
<1>1. search[q].content \in Contents \cup {0}
  BY DEF SearchInv, SearchType
<1>. QED BY <1>1 DEF Unavailable, Answers, LastTick

LEMMA FallGood ==
    ASSUME SearchInv, StandsStill, NEW q \in Searches, search[q].at \in Early, Fall(q)
    PROVE  GoodMove(q)
<1>1. CASE search[q].basis = "continue"
  BY <1>1, UnavailableAnswer, AnsweredGood DEF Fall
<1>2. CASE search[q].basis # "continue"
  BY <1>2, EndsGood DEF Fall
<1>. QED BY <1>1, <1>2

LEMMA LookUpGood ==
    ASSUME SearchInv, ServerInv, PluginInv, StandsStill, NEW q \in Searches,
           search[q].at \in {"secrets", "put"}, LookUp(q),
           search[q].mode = "local" => sources' = "local"
    PROVE  GoodMove(q)
<1>1. /\ search[q] \in SearchType /\ search[q].tries < RetryAttempts
      /\ Seen(search[q]) /\ Configured(search[q]) /\ search[q].content \in Contents
  BY DEF SearchInv, Sound, Seen, Early
<1>2. Key(q) \in Keys /\ Key(q)[2] = search[q].content
  BY <1>1 DEF Key, Keys, SearchType
<1>3. search[q].basis \in {"block", "continue"}
  BY <1>1 DEF Configured
<1>4. CASE Reusable(cache[Key(q)])
  <2>1. PICK a : a = cache[Key(q)]
    OBVIOUS
  <2>2. a \in Answers /\ a.status = "complete"
    BY <1>2, <1>4, <2>1 DEF ServerInv, Reusable
  <2>3. a # Nothing
    BY <2>2 DEF Nothing
  <2>4. a.content = search[q].content
    BY <1>2, <2>1, <2>3 DEF ServerInv, CacheIsTrue
  <2>5. Answered(q, search[q].basis, a)
    BY <1>4, <2>1 DEF LookUp
  <2>. QED BY <1>3, <2>2, <2>4, <2>5, AnsweredGood DEF Early
<1>5. CASE ~Reusable(cache[Key(q)])
  <2>1. PICK row : row = [search[q] EXCEPT !.at = "ask", !.tries = 0]
    OBVIOUS
  <2>2. row \in SearchType /\ row.tries < RetryAttempts
    <3>1. row \in SearchType /\ row.tries = 0
      BY <1>1, <2>1 DEF SearchType, SearchSteps
    <3>. QED BY <3>1, SubmitAssumption DEF SubmitAssumption
  <2>3. /\ row.at = "ask" /\ row.basis = search[q].basis /\ row.mode = search[q].mode
        /\ row.kind = search[q].kind
        /\ row.content = search[q].content /\ row.revision = search[q].revision
        /\ row.status = search[q].status /\ row.round = search[q].round
    BY <1>1, <2>1 DEF SearchType
  <2>4. Seen(row)'
    BY <1>1, <2>3 DEF Seen, StandsStill, Revision, Early
  <2>5. Configured(row)'
    BY <1>1, <1>3, <2>3 DEF Configured, StandsStill
  <2>6. Sound(row)'
    BY <2>3, <2>4, <2>5 DEF Sound, Told, Justified, Blank
  <2>7. search' = [search EXCEPT ![q] = row]
    BY <1>5, <2>1 DEF LookUp, SearchInv
  <2>. QED BY <2>2, <2>6, <2>7 DEF GoodMove
<1>. QED BY <1>4, <1>5

LEMMA CallFailsGood ==
    ASSUME SearchInv, StandsStill, NEW q \in Searches, search[q].at \in {"put", "ask"}, CallFails(q),
           sources' \in {sources, "local"}
    PROVE  GoodMove(q)
<1>1. CASE Fall(q)
  BY <1>1, FallGood DEF Early
<1>2. CASE /\ search[q].tries + 1 < RetryAttempts
           /\ search' = [search EXCEPT ![q].tries = @ + 1]
  <2>1. search[q] \in SearchType /\ Seen(search[q]) /\ Configured(search[q])
    BY DEF SearchInv, Sound
  <2>2. PICK row : row = [search[q] EXCEPT !.tries = search[q].tries + 1]
    OBVIOUS
  <2>3. row \in SearchType /\ row.tries < RetryAttempts
    BY <1>2, <2>1, <2>2 DEF SearchType
  <2>4. /\ row.at = search[q].at /\ row.basis = search[q].basis /\ row.mode = search[q].mode
        /\ row.kind = search[q].kind
        /\ row.content = search[q].content /\ row.revision = search[q].revision
        /\ row.status = search[q].status /\ row.round = search[q].round
    BY <2>1, <2>2 DEF SearchType
  <2>5. Seen(row)' /\ Configured(row)'
    BY <2>1, <2>4 DEF Seen, Configured, StandsStill, Revision
  <2>6. Sound(row)'
    BY <2>4, <2>5 DEF Sound, Told, Justified, Blank
  <2>7. search' = [search EXCEPT ![q] = row]
    BY <1>2, <2>2 DEF SearchInv
  <2>. QED BY <2>3, <2>6, <2>7 DEF GoodMove
<1>. QED BY <1>1, <1>2 DEF CallFails

-----------------------------------------------------------------------------
(* What the parts of the state owe to the steps that leave them alone.     *)
LEMMA ProblemKeeps ==
    ASSUME ProblemInv, UNCHANGED ProblemVars
    PROVE  ProblemInv'
BY DEF ProblemInv, ProblemVars, Revision, OpenedAsChecked, OneItemPerContent, UsedItemsRemain

LEMMA ServerKeeps ==
    ASSUME ProblemInv, ServerInv, ProblemMoves, UNCHANGED <<cache, indexed>>,
           sources' \in {"yuantiji", "local"},
           plugin' = plugin \/ plugin'.revision # 1
    PROVE  ServerInv'
<1>1. CacheIsTrue'
  BY DEF ServerInv, CacheIsTrue
<1>2. IndexIsSaved' /\ indexed.revision <= Revision'
  BY SavedGrows DEF ProblemInv, ServerInv, IndexIsSaved, Saves
<1>. QED BY <1>1, <1>2 DEF ServerInv

LEMMA PluginKeeps ==
    ASSUME PluginInv, UNCHANGED <<plugin, clock>>, UNCHANGED disturbances \/ Disturbed
    PROVE  PluginInv'
BY SubmitAssumption DEF PluginInv, Disturbed, SubmitAssumption

(* A step of one request that leaves problem and server as they are.       *)
LEMMA RequestOnly ==
    ASSUME ChecksIInv, NEW q \in Searches, GoodMove(q), UNCHANGED <<ProblemVars, ServerVars>>,
           UNCHANGED <<plugin, clock>>, UNCHANGED disturbances \/ Disturbed
    PROVE  ChecksIInv'
<1>. USE DEF ChecksIInv
<1>1. ProblemMoves /\ ServerMoves
  BY DEF ProblemMoves, ServerMoves, ProblemVars, ServerVars
<1>2. ProblemInv' /\ PluginInv' /\ ServerInv'
  BY <1>1, ProblemKeeps, PluginKeeps, ServerKeeps DEF ServerInv, ServerVars
<1>3. SearchInv'
  BY <1>1, GoodMoves
<1>. QED BY <1>2, <1>3

LEMMA BeginSearchKeeps ==
    ASSUME ChecksIInv, NEW q \in Searches, BeginSearch(q)
    PROVE  ChecksIInv'
<1>. USE DEF ChecksIInv
<1>1. PICK kind \in {"submit", "manual"} :
          /\ kind = "submit" => problem.status \in {"draft", "rejected"}
          /\ search' = [search EXCEPT ![q] = [search[q] EXCEPT
                !.at = IF plugin.enabled THEN "settings" ELSE "commit",
                !.kind = kind, !.revision = Revision, !.status = problem.status,
                !.round = problem.round, !.content = problem.content]]
  BY DEF BeginSearch, SearchInv
<1>2. search[q] = NoSearch
  BY DEF BeginSearch, Standing, SearchInv, Sound, Blank
<1>3. PICK step \in {"settings", "commit"} : step = IF plugin.enabled THEN "settings" ELSE "commit"
  OBVIOUS
<1>4. PICK row : row = [NoSearch EXCEPT
                !.at = step, !.kind = kind, !.revision = Revision, !.status = problem.status,
                !.round = problem.round, !.content = problem.content]
  OBVIOUS
<1>5. /\ row.at = step /\ row.kind = kind /\ row.revision = Revision /\ row.status = problem.status
      /\ row.round = problem.round /\ row.content = problem.content /\ row.basis = "none"
      /\ row.tries = 0 /\ row.answer = Nothing
  BY <1>4 DEF NoSearch
<1>6. /\ problem.status \in Statuses /\ problem.round \in Saves /\ problem.content \in Contents
      /\ Revision \in Saves /\ Revision \in 1..Revision
  BY SubmitAssumption DEF ProblemInv, Saves, SubmitAssumption
<1>7. row \in SearchType
  BY <1>4, <1>6, NoSearchTyped DEF SearchType, SearchSteps
<1>8. Sound(row)'
  <2>1. UNCHANGED <<problem, saved, plugin, sources>>
    BY DEF BeginSearch, ProblemVars, ServerVars
  <2>2. Seen(row)'
    BY <1>1, <1>5, <1>6, <2>1 DEF Seen, Revision
  <2>. QED BY <1>5, <2>2 DEF Sound, Told, Configured, Justified, Blank
<1>9. GoodMove(q)
  <2>1. row.tries < RetryAttempts
    BY <1>5, SubmitAssumption DEF SubmitAssumption
  <2>2. search' = [search EXCEPT ![q] = row]
    BY <1>1, <1>2, <1>3, <1>4
  <2>. QED BY <1>7, <1>8, <2>1, <2>2 DEF GoodMove
<1>. QED BY <1>9, RequestOnly DEF BeginSearch

LEMMA ReadSettingsKeeps ==
    ASSUME ChecksIInv, NEW q \in Searches, ReadSettings(q)
    PROVE  ChecksIInv'
<1>. USE DEF ChecksIInv
<1>1. StandsStill /\ search[q].at = "settings"
  BY DEF ReadSettings, Standing, StandsStill, ProblemVars
<1>2. CASE Ends(q)
  BY <1>2, EndsGood, RequestOnly DEF ReadSettings
<1>3. CASE Answered(q, "gone", Unavailable(q))
  <2>1. GoodMove(q)
    BY <1>1, <1>3, UnavailableAnswer, AnsweredGood DEF Early
  <2>. QED BY <2>1, RequestOnly DEF ReadSettings
<1>4. CASE search' = [search EXCEPT ![q].at = "secrets", ![q].mode = plugin.mode,
                                    ![q].basis = plugin.failure]
  <2>1. /\ search[q] \in SearchType /\ search[q].tries < RetryAttempts /\ Seen(search[q])
    BY DEF SearchInv, Sound
  <2>2. PICK row : row = [search[q] EXCEPT !.at = "secrets", !.mode = plugin.mode,
                                           !.basis = plugin.failure]
    OBVIOUS
  <2>3. plugin.mode \in SearchModes /\ plugin.failure \in {"block", "continue"}
    BY DEF PluginInv
  <2>4. row \in SearchType /\ row.tries < RetryAttempts
    BY <2>1, <2>2, <2>3 DEF SearchType, SearchSteps, Bases
  <2>5. /\ row.at = "secrets" /\ row.basis = plugin.failure /\ row.mode = plugin.mode
        /\ row.kind = search[q].kind
        /\ row.content = search[q].content /\ row.revision = search[q].revision
        /\ row.status = search[q].status /\ row.round = search[q].round
    BY <2>1, <2>2 DEF SearchType
  <2>6. Seen(row)'
    BY <1>1, <2>1, <2>5 DEF Seen, StandsStill, Revision, Early
  <2>7. Configured(row)'
    BY <1>1, <2>3, <2>5 DEF Configured, StandsStill
  <2>8. Sound(row)'
    BY <2>5, <2>6, <2>7 DEF Sound, Told, Justified, Blank
  <2>9. search' = [search EXCEPT ![q] = row]
    BY <1>4, <2>2 DEF SearchInv
  <2>. QED BY <2>4, <2>8, <2>9, RequestOnly DEF GoodMove, ReadSettings
<1>. QED BY <1>2, <1>3, <1>4 DEF ReadSettings

LEMMA ReadSecretsKeeps ==
    ASSUME ChecksIInv, NEW q \in Searches, ReadSecrets(q)
    PROVE  ChecksIInv'
<1>. USE DEF ChecksIInv
<1>1. StandsStill /\ search[q].at = "secrets" /\ UNCHANGED sources
  BY DEF ReadSecrets, Standing, StandsStill, ProblemVars, ServerVars
<1>2. CASE Ends(q)
  BY <1>2, EndsGood, RequestOnly DEF ReadSecrets
<1>3. CASE Fall(q)
  BY <1>1, <1>3, FallGood, RequestOnly DEF ReadSecrets, Early
<1>4. CASE search[q].mode # "local" /\ LookUp(q)
  BY <1>1, <1>4, LookUpGood, RequestOnly DEF ReadSecrets
<1>5. CASE search[q].mode = "local" /\ GoTo(q, "put")
  <2>1. /\ search[q] \in SearchType /\ search[q].tries < RetryAttempts
        /\ Seen(search[q]) /\ Configured(search[q])
    BY DEF SearchInv, Sound
  <2>2. PICK row : row = [search[q] EXCEPT !.at = "put"]
    OBVIOUS
  <2>3. row \in SearchType /\ row.tries < RetryAttempts
    BY <2>1, <2>2 DEF SearchType, SearchSteps
  <2>4. /\ row.at = "put" /\ row.basis = search[q].basis /\ row.mode = search[q].mode
        /\ row.kind = search[q].kind
        /\ row.content = search[q].content /\ row.revision = search[q].revision
        /\ row.status = search[q].status /\ row.round = search[q].round
    BY <2>1, <2>2 DEF SearchType
  <2>5. Seen(row)'
    BY <1>1, <2>1, <2>4 DEF Seen, StandsStill, Revision, Early
  <2>6. Configured(row)'
    BY <1>1, <1>5, <2>1, <2>4 DEF Configured, StandsStill
  <2>7. Sound(row)'
    BY <2>4, <2>5, <2>6 DEF Sound, Told, Justified, Blank
  <2>8. search' = [search EXCEPT ![q] = row]
    BY <1>5, <2>2 DEF GoTo, SearchInv
  <2>. QED BY <2>3, <2>7, <2>8, RequestOnly DEF GoodMove, ReadSecrets
<1>. QED BY <1>2, <1>3, <1>4, <1>5 DEF ReadSecrets

(* A call that leaves the problem as it is and may configure the server.   *)
LEMMA CallKeeps ==
    ASSUME ChecksIInv, NEW q \in Searches, GoodMove(q), UNCHANGED ProblemVars,
           UNCHANGED <<plugin, clock, cache, indexed>>, ServerMoves, sources' \in {"yuantiji", "local"},
           UNCHANGED disturbances \/ Disturbed
    PROVE  ChecksIInv'
<1>. USE DEF ChecksIInv
<1>1. ProblemMoves
  BY DEF ProblemMoves, ProblemVars
<1>2. ProblemInv' /\ PluginInv' /\ ServerInv'
  BY <1>1, ProblemKeeps, PluginKeeps, ServerKeeps
<1>3. SearchInv'
  BY <1>1, GoodMoves
<1>. QED BY <1>2, <1>3

LEMMA PutSourcesKeeps ==
    ASSUME ChecksIInv, NEW q \in Searches, PutSources(q)
    PROVE  ChecksIInv'
<1>. USE DEF ChecksIInv
<1>1. StandsStill /\ search[q].at = "put" /\ UNCHANGED ProblemVars
      /\ UNCHANGED <<plugin, clock, cache, indexed>>
  BY DEF PutSources, Standing, StandsStill, ProblemVars
<1>2. search[q].mode = "local" /\ sources \in {"yuantiji", "local"}
  BY <1>1 DEF SearchInv, Sound, Configured, ServerInv
<1>3. CASE sources' = search[q].mode /\ LookUp(q) /\ UNCHANGED disturbances
  <2>1. GoodMove(q)
    BY <1>1, <1>2, <1>3, LookUpGood
  <2>. QED BY <1>1, <1>2, <1>3, <2>1, CallKeeps DEF ServerMoves
<1>4. CASE sources' \in {sources, search[q].mode} /\ CallFails(q)
  <2>1. GoodMove(q)
    BY <1>1, <1>2, <1>4, CallFailsGood
  <2>. QED BY <1>1, <1>2, <1>4, <2>1, CallKeeps DEF ServerMoves, CallFails
<1>. QED BY <1>3, <1>4 DEF PutSources

LEMMA TimesOutKeeps ==
    ASSUME ChecksIInv, NEW q \in Searches, TimesOut(q)
    PROVE  ChecksIInv'
BY EndsGood, RequestOnly DEF ChecksIInv, TimesOut

LEMMA AskKeeps ==
    ASSUME ChecksIInv, NEW q \in Searches, Ask(q)
    PROVE  ChecksIInv'
<1>. USE DEF ChecksIInv
<1>1. /\ StandsStill /\ search[q].at = "ask" /\ UNCHANGED ProblemVars
      /\ UNCHANGED <<plugin, clock, sources, indexed>>
  BY DEF Ask, Standing, StandsStill, ProblemVars
<1>2. /\ search[q].content \in Contents /\ search[q].mode \in SearchModes
      /\ search[q].basis \in {"block", "continue"}
      /\ plugin.revision = 1 /\ search[q].mode = "local" => sources = "local"
  BY <1>1 DEF SearchInv, SearchType, Sound, Seen, Configured, Early
<1>3. CASE CallFails(q) /\ UNCHANGED cache
  <2>1. GoodMove(q)
    BY <1>1, <1>3, CallFailsGood
  <2>. QED BY <1>1, <1>3, <2>1, RequestOnly DEF CallFails, ServerVars
<1>4. CASE Disturbed /\ UNCHANGED cache /\ search[q].basis = "block" /\ Ends(q)
  BY <1>1, <1>4, EndsGood, RequestOnly DEF ServerVars
<1>5. ASSUME Disturbed, UNCHANGED cache, search[q].basis # "block",
             NEW status \in {"partial", "unavailable"},
             Answered(q, search[q].basis, [Unavailable(q) EXCEPT !.status = status])
      PROVE  ChecksIInv'
  <2>1. PICK a : a = [Unavailable(q) EXCEPT !.status = status]
    OBVIOUS
  <2>2. a \in Answers /\ a.status # "none" /\ a.content = search[q].content
    BY <2>1, UnavailableAnswer DEF Answers
  <2>3. GoodMove(q)
    BY <1>1, <1>2, <1>5, <2>1, <2>2, AnsweredGood DEF Early
  <2>. QED BY <1>1, <1>5, <2>3, RequestOnly DEF ServerVars
<1>6. ASSUME NEW until \in {0, clock + 1}, NEW answer,
             answer = [content |-> search[q].content, status |-> "complete",
                       sources |-> sources, expires |-> until],
             Answered(q, search[q].basis, answer), UNCHANGED disturbances,
             cache' = IF until > clock THEN [cache EXCEPT ![Key(q)] = answer] ELSE cache
      PROVE  ChecksIInv'
  <2>1. answer \in Answers
    <3>1. until \in 0..LastTick
      BY DEF PluginInv, LastTick
    <3>2. sources \in {"none", "yuantiji", "local"}
      BY DEF ServerInv
    <3>. QED BY <1>2, <1>6, <3>1, <3>2 DEF Answers
  <2>2. GoodMove(q)
    BY <1>1, <1>2, <1>6, <2>1, AnsweredGood DEF Early
  <2>3. ProblemMoves /\ ServerMoves
    BY <1>1 DEF ProblemMoves, ServerMoves, StandsStill
  <2>4. ProblemInv' /\ PluginInv' /\ SearchInv'
    BY <1>1, <1>6, <2>2, <2>3, ProblemKeeps, PluginKeeps, GoodMoves
  <2>5. Key(q) \in Keys /\ Key(q)[1] = search[q].mode /\ Key(q)[2] = search[q].content
    BY <1>2 DEF Key, Keys
  <2>6. cache' \in [Keys -> Answers]
    BY <1>6, <2>1, <2>5 DEF ServerInv
  <2>7. CacheIsTrue'
    <3>1. ASSUME NEW k \in Keys, cache'[k] # Nothing
          PROVE  /\ cache'[k].status = "complete" /\ cache'[k].content = k[2]
                 /\ plugin.revision = 1 /\ k[1] = "local" => cache'[k].sources = "local"
      <4>1. CASE cache'[k] = cache[k]
        BY <3>1, <4>1 DEF ServerInv, CacheIsTrue
      <4>2. CASE k = Key(q) /\ cache'[k] = answer
        BY <1>2, <1>6, <2>5, <4>2
      <4>. QED BY <1>6, <2>5, <4>1, <4>2 DEF ServerInv
    <3>. QED BY <1>1, <3>1 DEF CacheIsTrue
  <2>8. ServerInv'
    BY <1>1, <2>6, <2>7 DEF ServerInv, IndexIsSaved, StandsStill, Revision
  <2>. QED BY <2>4, <2>8
<1>. QED BY <1>3, <1>4, <1>5, <1>6 DEF Ask

LEMMA StartSyncKeeps ==
    ASSUME ChecksIInv, NEW q \in Searches, StartSync(q)
    PROVE  ChecksIInv'
<1>. USE DEF ChecksIInv
<1>1. CASE Ends(q)
  BY <1>1, EndsGood, RequestOnly DEF StartSync
<1>2. CASE GoTo(q, "upsert")
  <2>1. /\ search[q] \in SearchType /\ search[q].tries < RetryAttempts
        /\ Told(search[q]) /\ search[q].at = "sync"
    BY DEF SearchInv, Sound, StartSync, Standing
  <2>2. PICK row : row = [search[q] EXCEPT !.at = "upsert"]
    OBVIOUS
  <2>3. /\ row \in SearchType /\ row.tries < RetryAttempts /\ row.at = "upsert"
        /\ row.content = search[q].content /\ row.revision = search[q].revision
    BY <2>1, <2>2 DEF SearchType, SearchSteps
  <2>4. Told(row)'
    BY <2>1, <2>3 DEF Told, StartSync, ProblemVars, Revision
  <2>5. Sound(row)'
    BY <2>3, <2>4 DEF Sound, Seen, Configured, Justified, Blank, Early
  <2>6. search' = [search EXCEPT ![q] = row]
    BY <1>2, <2>2 DEF GoTo, SearchInv
  <2>. QED BY <2>3, <2>5, <2>6, RequestOnly DEF GoodMove, StartSync
<1>. QED BY <1>1, <1>2 DEF StartSync

LEMMA UpsertKeeps ==
    ASSUME ChecksIInv, NEW q \in Searches, Upsert(q)
    PROVE  ChecksIInv'
<1>. USE DEF ChecksIInv
<1>1. /\ search[q].at = "upsert" /\ Ends(q) /\ UNCHANGED <<ProblemVars, plugin, cache, clock>>
      /\ sources' \in {sources, "local"} /\ (UNCHANGED disturbances \/ Disturbed)
  BY DEF Upsert, Standing
<1>2. ProblemMoves /\ ServerMoves /\ GoodMove(q)
  BY <1>1, EndsGood DEF ProblemMoves, ServerMoves, ProblemVars
<1>3. ProblemInv' /\ PluginInv' /\ SearchInv'
  BY <1>1, <1>2, ProblemKeeps, PluginKeeps, GoodMoves
<1>4. sources' \in {"yuantiji", "local"} /\ CacheIsTrue'
  BY <1>1 DEF ServerInv, CacheIsTrue
<1>5. UNCHANGED <<saved, Revision>>
  BY <1>1 DEF ProblemVars, Revision
<1>6. CASE UNCHANGED indexed
  BY <1>1, <1>3, <1>4, <1>5, <1>6 DEF ServerInv, IndexIsSaved
<1>7. CASE indexed' = [revision |-> search[q].revision, content |-> search[q].content]
  <2>1. /\ search[q].revision \in Saves /\ search[q].content \in Contents \cup {0}
        /\ search[q].revision \in 1..Revision /\ search[q].content = saved[search[q].revision]
    BY <1>1 DEF SearchInv, SearchType, Sound, Told
  <2>2. /\ indexed' \in [revision : Saves, content : Contents \cup {0}]
        /\ indexed'.revision <= Revision /\ indexed'.content = saved[indexed'.revision]
    BY <1>7, <2>1
  <2>. QED BY <1>1, <1>3, <1>4, <1>5, <2>2 DEF ServerInv, IndexIsSaved
<1>8. UNCHANGED indexed \/ indexed' = [revision |-> search[q].revision, content |-> search[q].content]
  BY DEF Upsert
<1>. QED BY <1>6, <1>7, <1>8

-----------------------------------------------------------------------------
(* The steps that write the problem.                                       *)
LEMMA SaveFacts ==
    ASSUME ProblemInv, NEW c \in Contents, saved' = Append(saved, c), Revision < MaxSaves
    PROVE  /\ ProblemMoves
           /\ saved' \in Seq(Contents) /\ Revision \in Nat
           /\ Revision' = Revision + 1 /\ Revision' \in 1..MaxSaves
           /\ saved'[Revision + 1] = c
           /\ \A n \in 1..Revision : saved'[n] = saved[n]
BY AppendProperties, SubmitAssumption DEF ProblemInv, ProblemMoves, Revision, SubmitAssumption

LEMMA TellGood ==
    ASSUME ProblemInv, SearchInv, NEW q \in Searches, NEW c \in Contents,
           saved' = Append(saved, c), Revision < MaxSaves, Tell(q, c)
    PROVE  GoodMove(q)
<1>1. Revision + 1 \in Saves /\ Revision' = Revision + 1 /\ saved'[Revision + 1] = c /\ Revision \in Nat
  <2>1. /\ Revision' = Revision + 1 /\ saved'[Revision + 1] = c /\ Revision \in Nat
        /\ Revision' \in 1..MaxSaves
    BY SaveFacts
  <2>. QED BY <2>1 DEF Saves
<1>2. PICK k \in Saves : k = Revision + 1
  BY <1>1
<1>8. k \in 1..Revision' /\ saved'[k] = c
  <2>1. k = Revision'
    BY <1>1, <1>2
  <2>2. saved'[k] = c
    BY <1>1, <1>2
  <2>3. k \in Nat /\ k >= 1
    BY <1>1, <1>2
  <2>. QED BY <2>1, <2>2, <2>3
<1>3. PICK row : row = [NoSearch EXCEPT !.at = "sync", !.content = c, !.revision = k]
  OBVIOUS
<1>4. /\ row \in SearchType /\ row.at = "sync" /\ row.tries < RetryAttempts
      /\ row.content = c /\ row.revision = k
  BY <1>3, NoSearchTyped DEF SearchType, SearchSteps
<1>5. Told(row)'
  BY <1>8, <1>4 DEF Told
<1>6. Sound(row)'
  BY <1>4, <1>5 DEF Sound, Seen, Configured, Justified, Blank, Early
<1>7. search' = [search EXCEPT ![q] = row]
  BY <1>2, <1>3 DEF Tell
<1>. QED BY <1>4, <1>6, <1>7 DEF GoodMove

LEMMA SearchKeeps ==
    ASSUME ProblemInv, SearchInv, ProblemMoves, ServerMoves, UNCHANGED search
    PROVE  SearchInv'
<1>1. ASSUME NEW p \in Searches PROVE Sound(search[p])'
  <2>1. PICK r \in SearchType : r = search[p]
    BY DEF SearchInv
  <2>2. Sound(r)
    BY <2>1, Zenon DEF SearchInv
  <2>3. Sound(r)'
    BY <2>2, OthersStaySound DEF ProblemInv
  <2>4. search'[p] = r
    BY <2>1
  <2>. QED BY <2>3, <2>4, Zenon
<1>. QED BY <1>1 DEF SearchInv

(* Rounds and items stay, the contents are saved once more or changed.     *)
LEMMA EditKeeps ==
    ASSUME ProblemInv, NEW c \in Contents, Revision < MaxSaves,
           problem' = [problem EXCEPT !.content = c], saved' = Append(saved, c),
           UNCHANGED <<rounds, reviewItems, serial>>
    PROVE  ProblemInv'
<1>1. /\ saved' \in Seq(Contents) /\ Revision \in Nat
      /\ Revision' = Revision + 1 /\ Revision' \in 1..MaxSaves /\ saved'[Revision + 1] = c
      /\ \A n \in 1..Revision : saved'[n] = saved[n]
  BY SaveFacts
<1>2. /\ problem' \in [status : Statuses, round : Saves, content : Contents]
      /\ problem'.status = problem.status /\ problem'.round = problem.round /\ problem'.content = c
  BY DEF ProblemInv
<1>3. \A n \in DOMAIN rounds : rounds[n].revision \in 2..Revision
  BY DEF ProblemInv
<1>4. OpenedAsChecked'
  <2>1. \A n \in DOMAIN rounds : saved'[rounds[n].revision - 1] = saved[rounds[n].revision - 1]
    <3>. TAKE n \in DOMAIN rounds
    <3>1. PICK k : k = rounds[n].revision - 1
      OBVIOUS
    <3>2. rounds[n].revision \in 2..Revision
      BY <1>3
    <3>3. k \in 1..Revision
      BY <1>1, <3>1, <3>2
    <3>. QED BY <1>1, <3>1, <3>3
  <2>2. UNCHANGED <<rounds, reviewItems>> /\ OpenedAsChecked
    BY DEF ProblemInv
  <2>. QED BY <2>1, <2>2, ZenonT(30) DEF OpenedAsChecked
<1>5. OneItemPerContent' /\ UsedItemsRemain'
  BY DEF ProblemInv, OneItemPerContent, UsedItemsRemain
<1>6. /\ rounds' \in Seq(RoundType) /\ reviewItems' \in SUBSET ItemType /\ serial' \in Nat
      /\ Len(rounds') = problem'.round
      /\ problem'.status = "pending_review" => problem'.round >= 1
      /\ \A i \in reviewItems' : i.round \in 1..problem'.round
  BY <1>2 DEF ProblemInv
<1>7. problem'.round < Revision'
  BY <1>1, <1>2 DEF ProblemInv, Saves
<1>8. \A n \in DOMAIN rounds' : /\ rounds'[n].revision \in 2..Revision'
                                /\ rounds'[n].open => rounds'[n].used = {}
  BY <1>1, <1>3 DEF ProblemInv
<1>. QED BY <1>1, <1>2, <1>4, <1>5, <1>6, <1>7, <1>8 DEF ProblemInv

LEMMA EditContentsKeeps ==
    ASSUME ChecksIInv, EditContents
    PROVE  ChecksIInv'
<1>. USE DEF ChecksIInv
<1>1. PICK c \in Contents : problem' = [problem EXCEPT !.content = c] /\ saved' = Append(saved, c)
  BY DEF EditContents
<1>2. /\ Revision < MaxSaves
      /\ UNCHANGED <<rounds, reviewItems, serial, ServerVars, plugin, search, clock, disturbances>>
  BY DEF EditContents
<1>3. ProblemInv' /\ ProblemMoves
  BY <1>1, <1>2, EditKeeps, SaveFacts
<1>4. ServerMoves
  BY <1>2 DEF ServerMoves, ServerVars
<1>5. SearchInv'
  BY <1>2, <1>3, <1>4, SearchKeeps
<1>6. ServerInv' /\ PluginInv'
  BY <1>2, <1>3, ServerKeeps, PluginKeeps DEF ServerInv, ServerVars
<1>. QED BY <1>3, <1>5, <1>6

LEMMA EditFrozenKeeps ==
    ASSUME ChecksIInv, NEW q \in Searches, EditFrozen(q)
    PROVE  ChecksIInv'
<1>. USE DEF ChecksIInv
<1>1. PICK c \in Contents : /\ problem' = [problem EXCEPT !.content = c] /\ saved' = Append(saved, c)
                            /\ Tell(q, c)
  BY DEF EditFrozen
<1>2. /\ Revision < MaxSaves
      /\ UNCHANGED <<rounds, reviewItems, serial, ServerVars, plugin, clock, disturbances>>
  BY DEF EditFrozen
<1>3. ProblemInv' /\ ProblemMoves /\ GoodMove(q)
  BY <1>1, <1>2, EditKeeps, SaveFacts, TellGood
<1>4. ServerMoves
  BY <1>2 DEF ServerMoves, ServerVars
<1>5. SearchInv'
  BY <1>3, <1>4, GoodMoves
<1>6. ServerInv' /\ PluginInv'
  BY <1>2, <1>3, ServerKeeps, PluginKeeps DEF ServerInv, ServerVars
<1>. QED BY <1>3, <1>5, <1>6

LEMMA UpdatePluginKeeps ==
    ASSUME ChecksIInv, UpdatePlugin
    PROVE  ChecksIInv'
<1>. USE DEF ChecksIInv
<1>1. PICK next \in [enabled : BOOLEAN, mode : SearchModes, failure : {"block", "continue"},
                     keyed : BOOLEAN, revision : {plugin.revision + 1}] : plugin' = next
  BY DEF UpdatePlugin
<1>2. plugin.revision <= MaxUpdates /\ UNCHANGED <<ProblemVars, ServerVars, search, clock, disturbances>>
  BY DEF UpdatePlugin
<1>3. plugin.revision + 1 \in 1..1 + MaxUpdates /\ plugin.revision + 1 # 1
  BY <1>2, SubmitAssumption DEF PluginInv, SubmitAssumption
<1>4. plugin'.revision # 1 /\ PluginInv'
  BY <1>1, <1>2, <1>3 DEF PluginInv
<1>5. ProblemMoves /\ ServerMoves
  BY <1>2, <1>4 DEF ProblemMoves, ServerMoves, ProblemVars
<1>6. ProblemInv' /\ ServerInv' /\ SearchInv'
  BY <1>2, <1>4, <1>5, ProblemKeeps, ServerKeeps, SearchKeeps DEF ServerInv, ServerVars
<1>. QED BY <1>4, <1>6

LEMMA TickKeeps ==
    ASSUME ChecksIInv, Tick
    PROVE  ChecksIInv'
<1>. USE DEF ChecksIInv
<1>1. clock < LastTick - 1 /\ clock' = clock + 1
      /\ UNCHANGED <<ProblemVars, ServerVars, plugin, search, disturbances>>
  BY DEF Tick
<1>2. PluginInv'
  BY <1>1 DEF PluginInv, LastTick
<1>3. ProblemMoves /\ ServerMoves
  BY <1>1 DEF ProblemMoves, ServerMoves, ProblemVars, ServerVars
<1>4. ProblemInv' /\ ServerInv' /\ SearchInv'
  BY <1>1, <1>3, ProblemKeeps, ServerKeeps, SearchKeeps DEF ServerInv, ServerVars
<1>. QED BY <1>2, <1>4

LEMMA BeginApplyKeeps ==
    ASSUME ChecksIInv, NEW q \in Searches, BeginApply(q)
    PROVE  ChecksIInv'
<1>. USE DEF ChecksIInv
<1>1. search[q] = NoSearch /\ search[q] \in SearchType
  BY DEF BeginApply, Standing, SearchInv, Sound, Blank
<1>2. PICK row : row = [NoSearch EXCEPT !.at = "apply", !.kind = "apply", !.mode = plugin.mode]
  OBVIOUS
<1>3. /\ row \in SearchType /\ row.tries < RetryAttempts /\ row.at = "apply" /\ row.mode = plugin.mode
  <2>1. plugin.mode \in SearchModes
    BY DEF PluginInv
  <2>. QED BY <1>2, <2>1, NoSearchTyped DEF SearchType, SearchSteps
<1>4. Sound(row)'
  BY <1>3 DEF Sound, Seen, Told, Configured, Justified, Blank, Early, BeginApply
<1>5. search' = [search EXCEPT ![q] = row]
  BY <1>1, <1>2 DEF BeginApply, SearchInv
<1>. QED BY <1>3, <1>4, <1>5, RequestOnly DEF GoodMove, BeginApply

LEMMA ApplySettingsKeeps ==
    ASSUME ChecksIInv, NEW q \in Searches, ApplySettings(q)
    PROVE  ChecksIInv'
<1>. USE DEF ChecksIInv
<1>1. PICK configured \in {"local", "yuantiji"} :
         /\ configured = IF search[q].mode = "local" THEN "local" ELSE "yuantiji"
         /\ sources' \in {sources, configured} /\ (UNCHANGED disturbances \/ Disturbed)
  BY DEF ApplySettings
<1>2. /\ search[q].at = "apply" /\ Ends(q)
      /\ UNCHANGED ProblemVars /\ UNCHANGED <<plugin, cache, indexed, clock>>
  BY DEF ApplySettings, Standing
<1>3. plugin.revision = 1 => search[q].mode = plugin.mode
  BY <1>2 DEF SearchInv, Sound, Configured
<1>4. ServerMoves
  BY <1>1, <1>2, <1>3 DEF ServerMoves, PluginInv, SearchModes
<1>5. sources' \in {"yuantiji", "local"}
  BY <1>1 DEF ServerInv
<1>. QED BY <1>1, <1>2, <1>4, <1>5, EndsGood, CallKeeps

-----------------------------------------------------------------------------
(* The steps that open, answer and close a round.                          *)
LEMMA CommitFacts ==
    ASSUME ProblemInv, SearchInv, NEW q \in Searches, search[q].at = "commit"
    PROVE  /\ search[q] \in SearchType /\ search[q].content \in Contents
           /\ search[q].answer \in Answers /\ search[q].basis \in Bases
           /\ search[q].answer.status \in Verdicts
           /\ search[q].answer = Nothing <=> search[q].answer.status = "none"
           /\ search[q].answer # Nothing => search[q].answer.content = search[q].content
           /\ search[q].answer = Nothing <=> search[q].basis = "none"
           /\ search[q].basis = "block" => search[q].answer.status = "complete"
           /\ Unmoved(q) => /\ search[q].round = problem.round
                            /\ search[q].content = problem.content
<1>1. /\ search[q] \in SearchType /\ Seen(search[q]) /\ Justified(search[q])
  BY DEF SearchInv, Sound
<1>2. /\ search[q].content \in Contents /\ search[q].answer \in Answers /\ search[q].basis \in Bases
  BY <1>1 DEF Seen, Early, SearchType
<1>3. search[q].answer.status \in Verdicts
  BY <1>2 DEF Answers, Verdicts
<1>4. search[q].answer = Nothing <=> search[q].answer.status = "none"
  BY <1>1 DEF Justified, Nothing
<1>5. Unmoved(q) => search[q].round = problem.round /\ search[q].content = problem.content
  BY <1>1 DEF Seen, Early, Unmoved
<1>. QED BY <1>1, <1>2, <1>3, <1>4, <1>5 DEF Justified

LEMMA ItemTyped ==
    ASSUME ProblemInv, SearchInv, NEW q \in Searches, search[q].at = "commit", NEW n \in Nat
    PROVE  /\ Item(q, n) \in ItemType /\ Item(q, n).round = n
           /\ Item(q, n).content = search[q].answer.content
<1>1. search[q].answer \in Answers /\ serial \in Nat
  BY CommitFacts DEF ProblemInv
<1>2. /\ search[q].answer.content \in Contents \cup {0} /\ search[q].answer.status \in Verdicts
      /\ search[q].answer.expires \in 0..LastTick
  BY <1>1 DEF Answers, Verdicts
<1>. QED BY <1>1, <1>2 DEF Item, ItemType

LEMMA WriteSubmissionKeeps ==
    ASSUME ProblemInv, SearchInv, NEW q \in Searches, search[q].at = "commit", Unmoved(q),
           WriteSubmission(q)
    PROVE  ProblemInv'
<1>1. PICK c \in Contents, b \in Bases, v \in Verdicts :
         c = search[q].content /\ b = search[q].basis /\ v = search[q].answer.status
  BY CommitFacts
<1>2. PICK d \in Nat : d = problem.round
  BY DEF ProblemInv, Saves
<1>3. /\ c = problem.content /\ search[q].round = d
      /\ v = "none" <=> b = "none"
      /\ b = "block" => v = "complete"
  BY <1>1, <1>2, CommitFacts
<1>4. Revision < MaxSaves /\ saved' = Append(saved, c)
  BY <1>1 DEF WriteSubmission
<1>5. /\ saved' \in Seq(Contents) /\ Revision \in Nat
      /\ Revision' = Revision + 1 /\ Revision' \in 1..MaxSaves /\ saved'[Revision + 1] = c
      /\ \A n \in 1..Revision : saved'[n] = saved[n]
  BY <1>4, SaveFacts
<1>6. problem' = [status |-> "pending_review", round |-> d + 1, content |-> c]
  BY <1>1, <1>3 DEF WriteSubmission
<1>7. d < Revision /\ d + 1 \in Saves
  <2>1. d < Revision
    BY <1>2 DEF ProblemInv
  <2>. QED BY <1>4, <1>5, <2>1, SubmitAssumption DEF Saves, SubmitAssumption
<1>8. /\ problem' \in [status : Statuses, round : Saves, content : Contents]
      /\ problem'.round = d + 1 /\ problem'.content = c
  BY <1>6, <1>7 DEF Statuses
<1>9. PICK k \in Nat : k = Revision + 1
  BY <1>5
<1>10. PICK new : new = [submitted |-> c, revision |-> k, basis |-> b, opening |-> v,
                         open |-> TRUE, used |-> {}]
  OBVIOUS
<1>11. /\ new \in RoundType /\ new.submitted = c /\ new.revision = k /\ new.basis = b
       /\ new.opening = v /\ new.open = TRUE /\ new.used = {}
  BY <1>10 DEF RoundType
<1>12. rounds' = Append(rounds, new)
  BY <1>1, <1>9, <1>10 DEF WriteSubmission
<1>13. /\ rounds' \in Seq(RoundType) /\ Len(rounds') = d + 1 /\ rounds'[d + 1] = new
       /\ \A n \in 1..d : rounds'[n] = rounds[n]
       /\ DOMAIN rounds = 1..d /\ DOMAIN rounds' = 1..(d + 1)
  <2>1. rounds \in Seq(RoundType) /\ Len(rounds) = d
    BY <1>2 DEF ProblemInv
  <2>. QED BY <1>11, <1>12, <2>1, AppendProperties
<1>14. PICK item \in ItemType :
          /\ item = Item(q, d + 1) /\ item.round = d + 1 /\ item.content = search[q].answer.content
  BY ItemTyped
<1>15. \/ v = "none" /\ UNCHANGED <<reviewItems, serial>>
       \/ /\ v # "none" /\ item.content = c
          /\ reviewItems' = reviewItems \cup {item} /\ serial' = serial + 1
  BY <1>1, <1>3, <1>14, CommitFacts DEF WriteSubmission
<1>16. /\ reviewItems' \in SUBSET ItemType /\ serial' \in Nat /\ reviewItems \subseteq reviewItems'
  BY <1>14, <1>15 DEF ProblemInv
<1>17. \A i \in reviewItems : i.round \in 1..d
  BY <1>2 DEF ProblemInv
<1>18. \A i \in reviewItems' : i.round \in 1..(d + 1)
  BY <1>14, <1>15, <1>17
<1>19. OneItemPerContent'
  <2>1. \A i, j \in reviewItems : i.round = j.round /\ i.content = j.content => i = j
    BY DEF ProblemInv, OneItemPerContent
  <2>2. \A i \in reviewItems : i.round # item.round
    BY <1>14, <1>17
  <2>. QED BY <1>15, <2>1, <2>2 DEF OneItemPerContent
<1>20. UsedItemsRemain'
  <2>1. ASSUME NEW n \in DOMAIN rounds', NEW u \in rounds'[n].used
        PROVE  \E i \in reviewItems' : i.id = u /\ i.round = n
    <3>1. n \in 1..d /\ rounds'[n] = rounds[n]
      BY <1>11, <1>13, <2>1
    <3>2. \E i \in reviewItems : i.id = u /\ i.round = n
      BY <1>13, <2>1, <3>1 DEF ProblemInv, UsedItemsRemain
    <3>. QED BY <1>16, <3>2
  <2>. QED BY <2>1 DEF UsedItemsRemain
<1>21. \A n \in DOMAIN rounds' : /\ rounds'[n].revision \in 2..Revision'
                                 /\ rounds'[n].open => rounds'[n].used = {}
  <2>. TAKE n \in DOMAIN rounds'
  <2>1. CASE n \in 1..d
    BY <1>5, <1>13, <2>1 DEF ProblemInv
  <2>2. CASE n = d + 1
    BY <1>2, <1>5, <1>7, <1>9, <1>11, <1>13, <2>2
  <2>. QED BY <1>13, <2>1, <2>2
<1>22. OpenedAsChecked'
  <2>1. ASSUME NEW n \in 1..d
        PROVE  /\ rounds'[n].submitted = saved'[rounds'[n].revision - 1]
               /\ rounds'[n].opening = "none" <=> rounds'[n].basis = "none"
               /\ rounds'[n].basis = "block" => rounds'[n].opening = "complete"
               /\ rounds'[n].open /\ rounds'[n].opening # "none" =>
                     \E i \in reviewItems' : i.round = n /\ i.content = rounds'[n].submitted
    <3>1. rounds'[n] = rounds[n] /\ n \in DOMAIN rounds
      BY <1>13
    <3>2. rounds[n].revision \in 2..Revision
      BY <3>1 DEF ProblemInv
    <3>3. PICK m : m = rounds[n].revision - 1
      OBVIOUS
    <3>4. m \in 1..Revision
      BY <1>5, <3>2, <3>3
    <3>5. saved'[m] = saved[m]
      BY <1>5, <3>4
    <3>. QED BY <1>16, <3>1, <3>3, <3>5 DEF ProblemInv, OpenedAsChecked
  <2>2. saved'[Revision] = c /\ k - 1 = Revision
    BY <1>3, <1>5, <1>9 DEF ProblemInv
  <2>3. v # "none" => \E i \in reviewItems' : i.round = d + 1 /\ i.content = c
    BY <1>14, <1>15
  <2>4. /\ rounds'[d + 1].submitted = saved'[rounds'[d + 1].revision - 1]
        /\ rounds'[d + 1].opening = "none" <=> rounds'[d + 1].basis = "none"
        /\ rounds'[d + 1].basis = "block" => rounds'[d + 1].opening = "complete"
        /\ rounds'[d + 1].open /\ rounds'[d + 1].opening # "none" =>
              \E i \in reviewItems' : i.round = d + 1 /\ i.content = rounds'[d + 1].submitted
    BY <1>3, <1>11, <1>13, <2>2, <2>3
  <2>5. \A n \in DOMAIN rounds' : n \in 1..d \/ n = d + 1
    BY <1>13
  <2>. QED BY <2>1, <2>4, <2>5 DEF OpenedAsChecked
<1>23. /\ problem'.content = saved'[Revision'] /\ Len(rounds') = problem'.round
       /\ problem'.round < Revision' /\ problem'.round >= 1
  BY <1>2, <1>5, <1>7, <1>8, <1>13
<1>24. \A i \in reviewItems' : i.round \in 1..problem'.round
  BY <1>8, <1>18
<1>. QED BY <1>5, <1>8, <1>13, <1>16, <1>19, <1>20, <1>21, <1>22, <1>23, <1>24 DEF ProblemInv

LEMMA CommitSubmissionKeeps ==
    ASSUME ChecksIInv, NEW q \in Searches, CommitSubmission(q)
    PROVE  ChecksIInv'
<1>. USE DEF ChecksIInv
<1>1. search[q].at = "commit" /\ UNCHANGED <<ServerVars, plugin, clock, disturbances>>
  BY DEF CommitSubmission, Standing
<1>2. CASE Unmoved(q) /\ WriteSubmission(q)
  <2>1. PICK c \in Contents : c = search[q].content
    BY <1>1, CommitFacts
  <2>2. Revision < MaxSaves /\ saved' = Append(saved, c) /\ Tell(q, c)
    BY <1>2, <2>1 DEF WriteSubmission
  <2>3. ProblemInv' /\ ProblemMoves /\ GoodMove(q)
    BY <1>1, <1>2, <2>2, WriteSubmissionKeeps, SaveFacts, TellGood
  <2>4. ServerMoves
    BY <1>1 DEF ServerMoves, ServerVars
  <2>5. SearchInv'
    BY <2>3, <2>4, GoodMoves
  <2>6. ServerInv' /\ PluginInv'
    BY <1>1, <2>3, ServerKeeps, PluginKeeps DEF ServerInv, ServerVars
  <2>. QED BY <2>3, <2>5, <2>6
<1>3. CASE ~Unmoved(q) /\ Ends(q) /\ UNCHANGED ProblemVars
  BY <1>1, <1>3, EndsGood, RequestOnly
<1>. QED BY <1>2, <1>3 DEF CommitSubmission

LEMMA CommitManualKeeps ==
    ASSUME ChecksIInv, NEW q \in Searches, CommitManual(q)
    PROVE  ChecksIInv'
<1>. USE DEF ChecksIInv
<1>1. /\ search[q].at = "commit" /\ Ends(q)
      /\ UNCHANGED <<problem, saved, rounds, ServerVars, plugin, clock, disturbances>>
  BY DEF CommitManual, Standing
<1>2. CASE UNCHANGED <<reviewItems, serial>>
  BY <1>1, <1>2, EndsGood, RequestOnly DEF ProblemVars
<1>3. ASSUME problem.content = search[q].content, search[q].answer # Nothing,
             problem.status = "pending_review", rounds[problem.round].open,
             reviewItems' = {i \in reviewItems : ~Supersedes(q, i)} \cup {Item(q, problem.round)},
             serial' = serial + 1
      PROVE  ChecksIInv'
  <2>1. PICK c \in Contents, d \in Nat : c = search[q].content /\ d = problem.round
    BY <1>1, CommitFacts DEF ProblemInv, Saves
  <2>2. d \in 1..d /\ d \in DOMAIN rounds /\ rounds[d].used = {}
    <3>1. d \in 1..d /\ d \in DOMAIN rounds
      BY <1>3, <2>1 DEF ProblemInv
    <3>. QED BY <1>3, <2>1, <3>1 DEF ProblemInv
  <2>3. PICK item \in ItemType : /\ item = Item(q, d) /\ item.round = d /\ item.content = c
    BY <1>1, <1>3, <2>1, ItemTyped, CommitFacts
  <2>4. reviewItems' = {i \in reviewItems : ~(i.round = d /\ i.content = c)} \cup {item}
    BY <1>3, <2>1, <2>3 DEF Supersedes
  <2>5. reviewItems' \in SUBSET ItemType /\ serial' \in Nat
    BY <1>3, <2>4 DEF ProblemInv
  <2>6. \A i \in reviewItems' : i.round \in 1..d
    BY <2>1, <2>2, <2>3, <2>4 DEF ProblemInv
  <2>7. OneItemPerContent'
    <3>1. \A i, j \in reviewItems : i.round = j.round /\ i.content = j.content => i = j
      BY DEF ProblemInv, OneItemPerContent
    <3>. QED BY <2>3, <2>4, <3>1 DEF OneItemPerContent
  <2>8. UsedItemsRemain'
    <3>1. ASSUME NEW n \in DOMAIN rounds, NEW u \in rounds[n].used
          PROVE  \E i \in reviewItems' : i.id = u /\ i.round = n
      <4>1. n # d
        BY <2>2, <3>1
      <4>2. PICK i \in reviewItems : i.id = u /\ i.round = n
        BY <3>1 DEF ProblemInv, UsedItemsRemain
      <4>. QED BY <2>4, <4>1, <4>2
    <3>. QED BY <1>1, <3>1 DEF UsedItemsRemain
  <2>9. OpenedAsChecked'
    <3>1. ASSUME NEW n \in DOMAIN rounds, NEW s,
                 \E i \in reviewItems : i.round = n /\ i.content = s
          PROVE  \E i \in reviewItems' : i.round = n /\ i.content = s
      <4>1. PICK i \in reviewItems : i.round = n /\ i.content = s
        BY <3>1
      <4>2. CASE i.round = d /\ i.content = c
        BY <2>3, <2>4, <4>1, <4>2
      <4>3. CASE ~(i.round = d /\ i.content = c)
        BY <2>4, <4>1, <4>3
      <4>. QED BY <4>2, <4>3
    <3>2. UNCHANGED <<saved, rounds>> /\ OpenedAsChecked
      BY <1>1 DEF ProblemInv
    <3>3. \A n \in DOMAIN rounds :
             (\E i \in reviewItems : i.round = n /\ i.content = rounds[n].submitted) =>
             (\E i \in reviewItems' : i.round = n /\ i.content = rounds[n].submitted)
      BY <3>1
    <3>. QED BY <3>2, <3>3 DEF OpenedAsChecked
  <2>10. ProblemInv'
    <3>1. UNCHANGED <<problem, saved, rounds, Revision>>
      BY <1>1 DEF Revision
    <3>. QED BY <2>1, <2>5, <2>6, <2>7, <2>8, <2>9, <3>1 DEF ProblemInv
  <2>11. ProblemMoves /\ ServerMoves
    BY <1>1 DEF ProblemMoves, ServerMoves, ServerVars
  <2>12. SearchInv' /\ ServerInv' /\ PluginInv'
    BY <1>1, <2>11, EndsGood, GoodMoves, ServerKeeps, PluginKeeps DEF ServerInv, ServerVars
  <2>. QED BY <2>10, <2>12
<1>. QED BY <1>2, <1>3 DEF CommitManual, Unchanged

LEMMA DecideRoundKeeps ==
    ASSUME ChecksIInv, DecideRound
    PROVE  ChecksIInv'
<1>. USE DEF ChecksIInv
<1>1. PICK outcome \in {"approved", "rejected"}, chosen \in SUBSET {i \in reviewItems : Usable(i)} :
         /\ problem' = [problem EXCEPT !.status = outcome]
         /\ rounds' = [rounds EXCEPT ![problem.round].open = FALSE,
                                     ![problem.round].used = {i.id : i \in chosen}]
  BY DEF DecideRound
<1>2. /\ problem.status = "pending_review" /\ Revision < MaxSaves
      /\ saved' = Append(saved, problem.content)
      /\ UNCHANGED <<reviewItems, serial, ServerVars, plugin, search, clock, disturbances>>
  BY DEF DecideRound
<1>3. PICK c \in Contents, d \in Nat : c = problem.content /\ d = problem.round
  BY DEF ProblemInv, Saves
<1>4. /\ ProblemMoves /\ saved' \in Seq(Contents) /\ Revision \in Nat
      /\ Revision' = Revision + 1 /\ Revision' \in 1..MaxSaves /\ saved'[Revision + 1] = c
      /\ \A n \in 1..Revision : saved'[n] = saved[n]
  BY <1>2, <1>3, SaveFacts
<1>5. /\ problem' \in [status : Statuses, round : Saves, content : Contents]
      /\ problem'.round = d /\ problem'.content = c
  BY <1>1, <1>3 DEF ProblemInv, Statuses
<1>6. /\ rounds \in Seq(RoundType) /\ Len(rounds) = d /\ DOMAIN rounds = 1..d
      /\ d \in DOMAIN rounds
  BY <1>2, <1>3 DEF ProblemInv
<1>7. PICK used \in SUBSET Nat : /\ used = {i.id : i \in chosen}
                                /\ \A u \in used : \E i \in reviewItems : i.id = u /\ i.round = d
  <2>1. \A i \in chosen : i \in reviewItems /\ i.round = d
    BY <1>3 DEF Usable
  <2>2. \A i \in chosen : i.id \in Nat
    BY <2>1 DEF ProblemInv, ItemType
  <2>3. PICK used : used = {i.id : i \in chosen}
    OBVIOUS
  <2>4. used \in SUBSET Nat
    BY <2>2, <2>3
  <2>5. \A u \in used : \E i \in reviewItems : i.id = u /\ i.round = d
    BY <2>1, <2>3
  <2>. QED BY <2>3, <2>4, <2>5
<1>8. PICK closed : closed = [rounds[d] EXCEPT !.open = FALSE, !.used = used]
  OBVIOUS
<1>9. rounds[d] \in RoundType
  BY <1>6, ElementOfSeq
<1>10. /\ closed \in RoundType /\ closed.open = FALSE /\ closed.used = used
       /\ closed.submitted = rounds[d].submitted /\ closed.revision = rounds[d].revision
       /\ closed.basis = rounds[d].basis /\ closed.opening = rounds[d].opening
  BY <1>8, <1>9 DEF RoundType
<1>11. rounds' = [rounds EXCEPT ![d] = closed]
  BY <1>1, <1>3, <1>6, <1>7, <1>8
<1>12. rounds' \in Seq(RoundType) /\ Len(rounds') = d /\ DOMAIN rounds' = 1..d
  BY <1>6, <1>10, <1>11, ExceptSeq
<1>13. rounds'[d] = closed /\ \A n \in 1..d : n # d => rounds'[n] = rounds[n]
  BY <1>6, <1>11
<1>14. \A n \in 1..d : rounds[n].revision \in 2..Revision
  BY <1>6 DEF ProblemInv
<1>15. \A n \in 1..d : /\ rounds'[n].submitted = rounds[n].submitted
                       /\ rounds'[n].revision = rounds[n].revision
                       /\ rounds'[n].basis = rounds[n].basis /\ rounds'[n].opening = rounds[n].opening
                       /\ rounds'[n].open => rounds[n].open /\ rounds'[n].used = rounds[n].used
  BY <1>10, <1>13
<1>16. OpenedAsChecked'
  <2>1. ASSUME NEW n \in 1..d PROVE saved'[rounds[n].revision - 1] = saved[rounds[n].revision - 1]
    <3>1. PICK k : k = rounds[n].revision - 1
      OBVIOUS
    <3>2. rounds[n].revision \in 2..Revision
      BY <1>14
    <3>3. k \in 1..Revision
      BY <1>4, <3>1, <3>2
    <3>. QED BY <1>4, <3>1, <3>3
  <2>2. UNCHANGED reviewItems /\ OpenedAsChecked
    BY <1>2 DEF ProblemInv
  <2>. QED BY <1>6, <1>12, <1>15, <2>1, <2>2 DEF OpenedAsChecked
<1>17. OneItemPerContent'
  BY <1>2 DEF ProblemInv, OneItemPerContent
<1>18. UsedItemsRemain'
  <2>1. ASSUME NEW n \in 1..d, NEW u \in rounds'[n].used
        PROVE  \E i \in reviewItems : i.id = u /\ i.round = n
    <3>1. CASE n = d
      <4>1. rounds'[n].used = used
        BY <1>10, <1>13, <3>1
      <4>2. u \in used
        BY <2>1, <4>1
      <4>. QED BY <1>7, <3>1, <4>2
    <3>2. CASE n # d
      <4>1. rounds'[n] = rounds[n] /\ n \in DOMAIN rounds
        BY <1>6, <1>13, <3>2
      <4>2. UsedItemsRemain /\ u \in rounds[n].used
        BY <2>1, <4>1 DEF ProblemInv
      <4>. QED BY <4>1, <4>2 DEF UsedItemsRemain
    <3>. QED BY <3>1, <3>2
  <2>. QED BY <1>2, <1>12, <2>1 DEF UsedItemsRemain
<1>19. \A n \in DOMAIN rounds' : /\ rounds'[n].revision \in 2..Revision'
                                 /\ rounds'[n].open => rounds'[n].used = {}
  <2>1. \A n \in 1..d : rounds[n].open => rounds[n].used = {}
    BY <1>6 DEF ProblemInv
  <2>. QED BY <1>4, <1>12, <1>14, <1>15, <2>1
<1>20. /\ reviewItems' \in SUBSET ItemType /\ serial' \in Nat
       /\ \A i \in reviewItems' : i.round \in 1..problem'.round
       /\ problem'.round >= 1
  BY <1>2, <1>3, <1>5 DEF ProblemInv
<1>21. /\ problem'.content = saved'[Revision'] /\ Len(rounds') = problem'.round
       /\ problem'.round < Revision'
  BY <1>3, <1>4, <1>5, <1>12 DEF ProblemInv
<1>22. ProblemInv'
  BY <1>4, <1>5, <1>12, <1>16, <1>17, <1>18, <1>19, <1>20, <1>21 DEF ProblemInv
<1>23. ServerMoves
  BY <1>2 DEF ServerMoves, ServerVars
<1>24. SearchInv' /\ ServerInv' /\ PluginInv'
  BY <1>2, <1>4, <1>23, SearchKeeps, ServerKeeps, PluginKeeps DEF ServerInv, ServerVars
<1>. QED BY <1>22, <1>24

-----------------------------------------------------------------------------
LEMMA ChecksStart ==
    ASSUME CheckInit
    PROVE  ChecksIInv
<1>. USE DEF ChecksIInv
<1>1. PICK c \in Contents : problem = [status |-> "draft", round |-> 0, content |-> c] /\ saved = <<c>>
  BY SubmitAssumption DEF CheckInit, SubmitAssumption
<1>2. /\ rounds = <<>> /\ reviewItems = {} /\ serial = 0 /\ cache = [k \in Keys |-> Nothing]
      /\ sources = "yuantiji" /\ indexed = [revision |-> 0, content |-> 0]
      /\ search = [q \in Searches |-> NoSearch] /\ clock = 0 /\ disturbances = 0
  BY DEF CheckInit
<1>3. ProblemInv
  <2>1. saved \in Seq(Contents) /\ Revision = 1 /\ saved[1] = c
    BY <1>1 DEF Revision
  <2>2. rounds \in Seq(RoundType) /\ Len(rounds) = 0 /\ DOMAIN rounds = {}
    BY <1>2
  <2>3. problem \in [status : Statuses, round : Saves, content : Contents]
    BY <1>1, SubmitAssumption DEF Statuses, Saves, SubmitAssumption
  <2>4. OpenedAsChecked /\ OneItemPerContent /\ UsedItemsRemain
    BY <1>2, <2>2 DEF OpenedAsChecked, OneItemPerContent, UsedItemsRemain
  <2>. QED BY <1>1, <1>2, <2>1, <2>2, <2>3, <2>4, SubmitAssumption DEF ProblemInv, SubmitAssumption
<1>4. PluginInv
  <2>1. plugin \in [enabled : {TRUE}, mode : SearchModes, failure : {"block", "continue"},
                     keyed : {TRUE}, revision : {1}]
    BY DEF CheckInit
  <2>2. 1 \in 1..1 + MaxUpdates /\ 0 \in 0..MaxDisturbances /\ 0 \in 0..LastTick - 1
    BY SubmitAssumption DEF SubmitAssumption, LastTick
  <2>. QED BY <1>2, <2>1, <2>2 DEF PluginInv
<1>5. ServerInv
  <2>1. cache \in [Keys -> Answers] /\ CacheIsTrue
    BY <1>2, NoSearchTyped DEF CacheIsTrue
  <2>2. indexed \in [revision : Saves, content : Contents \cup {0}] /\ indexed.revision = 0
    BY <1>2, SubmitAssumption DEF Saves, SubmitAssumption
  <2>. QED BY <1>2, <1>3, <2>1, <2>2 DEF ServerInv, IndexIsSaved, ProblemInv
<1>6. SearchInv
  <2>1. PICK r \in SearchType : r = NoSearch
    BY NoSearchTyped
  <2>2. Sound(r) /\ r.tries < RetryAttempts
    BY <2>1, NoSearchTyped DEF Sound, Seen, Told, Configured, Justified, Blank, Early
  <2>3. search = [q \in Searches |-> r]
    BY <1>2, <2>1
  <2>. QED BY <2>2, <2>3 DEF SearchInv
<1>. QED BY <1>3, <1>4, <1>5, <1>6

LEMMA ChecksStep ==
    ASSUME ChecksIInv, [CheckNext]_checkVars
    PROVE  ChecksIInv'
<1>1. ASSUME NEW q \in Searches, SearchStep(q) PROVE ChecksIInv'
  BY <1>1, ReadSettingsKeeps, ReadSecretsKeeps, PutSourcesKeeps, AskKeeps, TimesOutKeeps,
     CommitSubmissionKeeps, CommitManualKeeps, StartSyncKeeps, UpsertKeeps, ApplySettingsKeeps
     DEF SearchStep
<1>2. ASSUME NEW q \in Searches, BeginSearch(q) \/ EditFrozen(q) \/ BeginApply(q) PROVE ChecksIInv'
  BY <1>2, BeginSearchKeeps, EditFrozenKeeps, BeginApplyKeeps
<1>3. CASE EditContents \/ DecideRound \/ UpdatePlugin \/ Tick
  BY <1>3, EditContentsKeeps, DecideRoundKeeps, UpdatePluginKeeps, TickKeeps
<1>4. CASE UNCHANGED checkVars
  <2>1. /\ UNCHANGED <<ProblemVars, ServerVars, plugin, search, clock, disturbances>>
        /\ ProblemMoves /\ ServerMoves
    BY <1>4 DEF checkVars, ProblemVars, ServerVars, ProblemMoves, ServerMoves
  <2>. QED BY <2>1, ProblemKeeps, PluginKeeps, ServerKeeps, SearchKeeps
           DEF ChecksIInv, ServerInv, ServerVars
<1>. QED BY <1>1, <1>2, <1>3, <1>4 DEF CheckNext

LEMMA ChecksImplied ==
    ASSUME ChecksIInv
    PROVE  ChecksInv
<1>. USE DEF ChecksIInv
<1>1. \A q \in Searches : search[q].answer \in Answers /\ search[q].tries < RetryAttempts
  BY DEF SearchInv, SearchType
<1>2. CheckTypeOK
  BY <1>1 DEF CheckTypeOK, ProblemInv, PluginInv, ServerInv, Statuses, Revision
<1>. QED BY <1>2 DEF ChecksInv, ProblemInv, ServerInv

(* A round is opened on what was checked, a decision's items remain, one   *)
(* answer per version of the contents, and index and cache are true,       *)
(* however many searches, edits, decisions and updates overlap.            *)
THEOREM ChecksAreSafe == CheckSpec => []ChecksInv
<1>1. CheckInit => ChecksIInv
  BY ChecksStart
<1>2. ChecksIInv /\ [CheckNext]_checkVars => ChecksIInv'
  BY ChecksStep
<1>3. ChecksIInv => ChecksInv
  BY ChecksImplied
<1>. QED BY <1>1, <1>2, <1>3, PTL DEF CheckSpec

-----------------------------------------------------------------------------
(***************************************************************************)
(* TransferRequests.                                                       *)
(***************************************************************************)
(* Which requests come to which place.                                     *)
PlaceFine(row) ==
    /\ row.at \in {"publish", "save", "look", "drop"} => row.kind = "upload"
    /\ row.at \in {"contest", "picks"} => row.kind \in {"preview", "export"} /\ row.order.contest # 0
    /\ row.at = "evaluate" => row.kind \in {"preview", "export"}
    /\ row.at \in {"replay", "create", "enqueue"} => row.kind \in TaskKinds
    /\ row.at = "access" => row.kind \in {"export", "download"}
    /\ row.at = "fetch" => row.kind = "download"
    /\ row.at = "read" => row.kind = "import"

(* Bytes and row of an upload.                                             *)
PackageFine(t, row) ==
    /\ row.at \in {"save", "look"} => t \in package.objects
    /\ row.at = "drop" /\ t \in package.rows => t \in belated
    /\ row.kind = "upload" /\ row.at = "ok" => t \in package.rows \cap package.objects
    /\ t \in package.objects \ package.rows => row.at \in {"save", "look", "drop", "failed"}

(* A request and the task that has its key.                                *)
Matches(row) ==
    /\ row.kind \in TaskKinds
    /\ tasks[row.kind][row.key] # NoTask
    /\ tasks[row.kind][row.key].order = row.order

TaskFine(row) ==
    /\ row.at = "create" => row.version \in 1..MaxFormats
    /\ row.at = "enqueue" => Matches(row)
    /\ row.at = "ok" /\ row.kind \in TaskKinds => Matches(row) /\ <<row.kind, row.key>> \in queued
    /\ row.at = "access" => tasks["export"][row.key] # NoTask
    /\ row.kind = "download" => /\ tasks["export"][row.key] # NoTask
                                /\ tasks["export"][row.key].order = row.order
    /\ row.known => /\ Matches(row) /\ row.at \notin {"read", "evaluate", "create"}
                    /\ row.at = "refused" => \/ row.why \in {"right", "hidden"}
                                             \/ row.why = "stale" /\ row.order.contest # 0

(* What was judged.                                                        *)
RightFine(row) ==
    /\ row.at \in {"create", "enqueue", "fetch", "ok"} /\ row.kind \in {"preview", "export", "download"} =>
           Needs(row.order) \subseteq row.grants /\ ~row.deleted
    /\ row.kind \in {"upload", "import"} /\ row.at \notin {"none", "refused"} => "import" \in row.grants
    /\ row.deleted => entry.deleted

(* The revision that was read is one the contest has held since the        *)
(* version that was asked for; if the page has pinned one, it is the one   *)
(* of that version, or the contest has moved on since the preview.         *)
PickFine(row) ==
    /\ row.order.contest # 0 /\ row.kind \in {"preview", "export"}
           /\ row.at \in {"replay", "access", "evaluate", "create", "enqueue", "ok"} =>
               \E n \in row.order.contest..Len(plans) : row.revision = plans[n]
    /\ row.order.contest # 0 /\ row.order.pinned # 0 /\ row.kind = "export" =>
           /\ row.order.pinned = plans[row.order.contest] \/ Len(plans) > row.order.contest
           /\ row.at \in {"picks", "replay", "access", "evaluate", "create"} =>
                  row.order.pinned = plans[row.order.contest]
    /\ row.at = "create" /\ row.kind = "export" /\ row.order.pinned # 0 =>
           row.revision = row.order.pinned
    /\ row.order.contest <= Len(plans)

RowFine(t, row) ==
    /\ PlaceFine(row) /\ PackageFine(t, row) /\ TaskFine(row) /\ RightFine(row) /\ PickFine(row)

BytesFine == package.rows \ package.objects \subseteq belated

(* The inductive invariant.                                                *)
TransferIInv ==
    /\ TransferTypeOK /\ BytesFine /\ ExportsAreFixed
    /\ \A t \in Transfers : RowFine(t, transfer[t])

LEMMA TransferFollows == ASSUME TransferIInv PROVE TransferInv
<1>1. PackagesAreWhole
  BY DEF TransferIInv, BytesFine, RowFine, PackageFine, PackagesAreWhole, Stands
<1>2. AnswersAgree
  BY DEF TransferIInv, RowFine, TaskFine, Matches, AnswersAgree, Stands, HasTask, SameRequest, TaskOf
<1>3. RevocationHolds
  <2>1. SUFFICES ASSUME NEW t \in Transfers, Stands(t, "ok")
                 PROVE  IF transfer[t].kind \in {"preview", "export", "download"}
                        THEN Needs(transfer[t].order) \subseteq transfer[t].grants /\ ~transfer[t].deleted
                        ELSE "import" \in transfer[t].grants
    BY DEF RevocationHolds
  <2>2. RightFine(transfer[t]) /\ transfer[t] \in TransferRows
    BY DEF TransferIInv, RowFine, TransferTypeOK
  <2>. QED BY <2>1, <2>2 DEF RightFine, Stands, TransferRows, TaskKinds
<1>4. RetriesRecover
  BY DEF TransferIInv, RowFine, TaskFine, RetriesRecover, Stands
<1>. QED BY <1>1, <1>2, <1>3, <1>4 DEF TransferIInv, TransferInv

LEMMA NoTransferTyped == NoTransfer \in TransferRows
BY TransferAssumption DEF NoTransfer, TransferRows, TaskKinds, NoOrder, Orders, Files, NoFile, Places,
   Reasons, Privileges

LEMMA TransferStarts == ASSUME TransferInit PROVE TransferIInv
<1>. USE TransferAssumption DEF TransferInit
<1>1. TransferTypeOK
  <2>1. PICK n \in 1..entry.revision : plans = <<n>>
    OBVIOUS
  <2>2. entry.revision \in 1..LastPicked /\ n \in Pickable
    BY <2>1 DEF Pickable
  <2>3. plans \in Seq(Pickable) /\ Len(plans) = 1
    BY <2>1, <2>2
  <2>4. tasks \in [TaskKinds -> [RequestKeys -> Tasks \cup {NoTask}]]
    OBVIOUS
  <2>5. transfer \in [Transfers -> TransferRows]
    BY NoTransferTyped
  <2>6. /\ entry \in [revision : Pickable, deleted : BOOLEAN]
        /\ results \in [RequestKeys -> {"none", "ready", "expired"}]
    OBVIOUS
  <2>7. package \in [objects : SUBSET Files, rows : SUBSET Files, expired : SUBSET Files]
    <3>1. {Earlier} \subseteq Files /\ {} \subseteq Files
      BY DEF Files
    <3>. HIDE DEF TransferInit
    <3>2. package = [objects |-> {Earlier}, rows |-> {Earlier}, expired |-> {}]
      BY DEF TransferInit
    <3>. QED BY <3>1, <3>2
  <2>8. format \in [version : 1..MaxFormats, enabled : BOOLEAN]
    OBVIOUS
  <2>. QED BY <2>3, <2>4, <2>5, <2>6, <2>7, <2>8 DEF TransferTypeOK
<1>2. BytesFine /\ ExportsAreFixed
  BY DEF BytesFine, ExportsAreFixed, TaskKinds
<1>3. ASSUME NEW t \in Transfers PROVE RowFine(t, transfer[t])
  <2>1. transfer[t] = NoTransfer /\ t \notin package.objects /\ Len(plans) = 1
    OBVIOUS
  <2>2. PlaceFine(NoTransfer) /\ TaskFine(NoTransfer) /\ RightFine(NoTransfer)
    BY DEF PlaceFine, TaskFine, RightFine, NoTransfer
  <2>3. PackageFine(t, NoTransfer) /\ PickFine(NoTransfer)
    BY <2>1 DEF PackageFine, PickFine, NoTransfer, NoOrder
  <2>. QED BY <2>1, <2>2, <2>3 DEF RowFine
<1>. QED BY <1>1, <1>2, <1>3 DEF TransferIInv

(* What every step leaves to all requests.                                 *)
Onward ==
    /\ Len(plans) <= Len(plans') /\ \A n \in 1..Len(plans) : plans'[n] = plans[n]
    /\ entry.deleted => entry'.deleted
    /\ \A kind \in TaskKinds, k \in RequestKeys :
          tasks[kind][k] # NoTask => tasks'[kind][k] = tasks[kind][k]
    /\ queued \subseteq queued'

SameBytes(t) ==
    /\ t \in package.objects <=> t \in package'.objects
    /\ t \in package.rows <=> t \in package'.rows
    /\ t \in belated <=> t \in belated'

LEMMA RowStays ==
    ASSUME TransferTypeOK, TransferTypeOK', Onward,
           NEW t, SameBytes(t), NEW row \in TransferRows, RowFine(t, row)
    PROVE  RowFine(t, row)'
<1>1. /\ row.key \in RequestKeys
      /\ row.order.contest \in Nat /\ row.order.pinned \in Nat
      /\ Len(plans) \in Nat /\ Len(plans') \in Nat
  <2>1. Len(plans) \in Nat /\ Len(plans') \in Nat
    BY DEF TransferTypeOK
  <2>2. row.order \in Orders /\ row.key \in RequestKeys
    BY DEF TransferRows, TaskKinds
  <2>. QED BY <2>1, <2>2, TransferAssumption DEF Orders
<1>2. PlaceFine(row)'
  BY DEF RowFine, PlaceFine
<1>3. PackageFine(t, row)'
  BY DEF RowFine, PackageFine, SameBytes
<1>4. Matches(row) => Matches(row)'
  BY <1>1 DEF Matches, Onward
<1>5. tasks["export"][row.key] # NoTask => tasks'["export"][row.key] = tasks["export"][row.key]
  BY <1>1 DEF Onward, TaskKinds
<1>6. TaskFine(row)'
  BY <1>4, <1>5 DEF RowFine, TaskFine, Onward
<1>7. RightFine(row)'
  BY DEF RowFine, RightFine, Onward
<1>8. PickFine(row)'
  BY <1>1 DEF RowFine, PickFine, Onward
<1>. QED BY <1>2, <1>3, <1>6, <1>7, <1>8 DEF RowFine

LEMMA FixedStay ==
    ASSUME TransferTypeOK, TransferTypeOK', ExportsAreFixed, Onward, tasks' = tasks
    PROVE  ExportsAreFixed'
<1>1. SUFFICES ASSUME NEW k \in RequestKeys, tasks["export"][k] # NoTask
               PROVE  LET exported == tasks["export"][k] IN
                      /\ exported.order.pinned # 0 =>
                            /\ exported.revision = exported.order.pinned
                            /\ exported.order.contest # 0 => exported.revision = plans'[exported.order.contest]
                      /\ exported.order.contest # 0 =>
                            \E n \in exported.order.contest..Len(plans') : exported.revision = plans'[n]
  BY DEF ExportsAreFixed
<1>. DEFINE exported == tasks["export"][k]
<1>2. exported \in Tasks
  BY <1>1 DEF TransferTypeOK, TaskKinds
<1>3. exported.order.contest \in Nat /\ Len(plans) \in Nat /\ Len(plans') \in Nat
  BY <1>2, TransferAssumption DEF Tasks, Orders, TransferTypeOK
<1>4. /\ exported.order.pinned # 0 =>
            /\ exported.revision = exported.order.pinned
            /\ exported.order.contest # 0 => exported.revision = plans[exported.order.contest]
      /\ exported.order.contest # 0 =>
            \E n \in exported.order.contest..Len(plans) : exported.revision = plans[n]
  BY <1>1 DEF ExportsAreFixed
<1>. QED BY <1>3, <1>4 DEF Onward

(* A request goes on, and the rest of the state stays or grows.            *)
LEMMA OneProceeds ==
    ASSUME TransferIInv, NEW t \in Transfers, NEW row \in TransferRows, Proceeds(t, row), Onward,
           (transfer' \in [Transfers -> TransferRows]) => TransferTypeOK',
           (TransferTypeOK' => ExportsAreFixed'), BytesFine',
           \A s \in Transfers \ {t} : SameBytes(s), RowFine(t, row)'
    PROVE  TransferIInv'
<1>1. transfer' = [transfer EXCEPT ![t] = row] /\ transfer \in [Transfers -> TransferRows]
  BY DEF Proceeds, TransferIInv, TransferTypeOK
<1>2. transfer'[t] = row /\ \A s \in Transfers \ {t} : transfer'[s] = transfer[s]
  BY <1>1
<1>3. TransferTypeOK'
  BY <1>1
<1>4. ASSUME NEW s \in Transfers PROVE RowFine(s, transfer[s])'
  <2>1. CASE s = t
    BY <1>2, <2>1 DEF RowFine, PlaceFine, PackageFine, TaskFine, RightFine, PickFine, Matches
  <2>2. CASE s # t
    <3>1. transfer[s] \in TransferRows /\ RowFine(s, transfer[s]) /\ TransferTypeOK /\ SameBytes(s)
      BY <2>2 DEF TransferIInv, TransferTypeOK
    <3>2. PICK mine \in TransferRows : mine = transfer[s] /\ RowFine(s, mine) /\ transfer'[s] = mine
      BY <1>2, <2>2, <3>1
    <3>3. RowFine(s, mine)'
      BY <1>3, <3>1, <3>2, RowStays
    <3>. QED BY <3>2, <3>3 DEF RowFine, PlaceFine, PackageFine, TaskFine, RightFine, PickFine, Matches
  <2>. QED BY <2>1, <2>2
<1>. QED BY <1>3, <1>4 DEF TransferIInv

LEMMA OnlyProceeds ==
    ASSUME TransferIInv, NEW t \in Transfers, NEW row \in TransferRows, Proceeds(t, row),
           WorldStays, TasksStay, StoreStays, RowFine(t, row)
    PROVE  TransferIInv'
<1>. USE DEF WorldStays, TasksStay, StoreStays, worldVars, rowVars, storeVars
<1>1. Onward /\ \A s \in Transfers : SameBytes(s)
  BY DEF Onward, SameBytes
<1>2. (transfer' \in [Transfers -> TransferRows]) => TransferTypeOK'
  BY DEF TransferIInv, TransferTypeOK
<1>3. BytesFine' /\ ExportsAreFixed'
  BY DEF TransferIInv, BytesFine, ExportsAreFixed
<1>4. PlaceFine(row)' /\ PackageFine(t, row)' /\ TaskFine(row)' /\ RightFine(row)' /\ PickFine(row)'
  BY DEF RowFine, PlaceFine, PackageFine, TaskFine, RightFine, PickFine, Matches
<1>. QED BY <1>1, <1>2, <1>3, <1>4, OneProceeds DEF RowFine

LEMMA RowKnown ==
    ASSUME TransferIInv, NEW t \in Transfers
    PROVE  /\ transfer[t] \in TransferRows /\ RowFine(t, transfer[t])
           /\ \A p \in Places : [transfer[t] EXCEPT !.at = p] \in TransferRows
<1>1. transfer[t] \in TransferRows /\ RowFine(t, transfer[t])
  BY DEF TransferIInv, TransferTypeOK
<1>2. ASSUME NEW p \in Places PROVE [transfer[t] EXCEPT !.at = p] \in TransferRows
  BY <1>1 DEF TransferRows
<1>. QED BY <1>1, <1>2

LEMMA Fails ==
    ASSUME TransferIInv, NEW t \in Transfers, Fail(t), WorldStays, TasksStay, StoreStays,
           transfer[t].at \notin {"none", "refused"}
    PROVE  TransferIInv'
<1>1. PICK row \in TransferRows : row = [transfer[t] EXCEPT !.at = "failed"]
  BY RowKnown DEF Places
<1>2. Proceeds(t, row) /\ row.at = "failed"
  BY <1>1, RowKnown DEF Fail, Goes, TransferRows
<1>3. RowFine(t, row)
  <2>1. PlaceFine(row) /\ PackageFine(t, row) /\ RightFine(row)
    BY <1>1, <1>2, RowKnown DEF RowFine, PlaceFine, PackageFine, RightFine, TransferRows
  <2>2. TaskFine(row)
    BY <1>1, <1>2, RowKnown DEF RowFine, TaskFine, Matches, TransferRows
  <2>3. PickFine(row)
    BY <1>1, <1>2, RowKnown DEF RowFine, PickFine, TransferRows
  <2>. QED BY <2>1, <2>2, <2>3 DEF RowFine
<1>. QED BY <1>2, <1>3, OnlyProceeds

LEMMA Rejected ==
    ASSUME TransferIInv, NEW t \in Transfers, NEW why \in Reasons, Rejects(t, why),
           WorldStays, TasksStay, StoreStays,
           transfer[t].at \notin {"none", "save", "look", "drop", "failed"},
           transfer[t].known => why = "hidden" \/ (why = "stale" /\ transfer[t].order.contest # 0)
    PROVE  TransferIInv'
<1>1. PICK row \in TransferRows : row = [transfer[t] EXCEPT !.at = "refused", !.why = why]
  <2>1. transfer[t] \in TransferRows /\ "refused" \in Places
    BY RowKnown DEF Places
  <2>2. [transfer[t] EXCEPT !.at = "refused", !.why = why] \in TransferRows
    BY <2>1 DEF TransferRows
  <2>. QED BY <2>2
<1>2. Proceeds(t, row) /\ row.at = "refused" /\ row.why = why
  BY <1>1, RowKnown DEF Rejects, TransferRows
<1>3. RowFine(t, row)
  <2>1. PlaceFine(row) /\ PackageFine(t, row) /\ RightFine(row)
    BY <1>1, <1>2, RowKnown DEF RowFine, PlaceFine, PackageFine, RightFine, TransferRows
  <2>2. TaskFine(row)
    BY <1>1, <1>2, RowKnown DEF RowFine, TaskFine, Matches, TransferRows
  <2>3. PickFine(row)
    BY <1>1, <1>2, RowKnown DEF RowFine, PickFine, TransferRows
  <2>. QED BY <2>1, <2>2, <2>3 DEF RowFine
<1>. QED BY <1>2, <1>3, OnlyProceeds

LEMMA Arrived ==
    ASSUME TransferIInv, NEW t \in Transfers, NEW kind, NEW k \in RequestKeys, NEW order \in Orders,
           NEW first, Arrives(t, kind, k, order, first), order.contest <= Len(plans),
           \/ kind = "upload" /\ first = "publish"
           \/ kind = "import" /\ first = "replay" /\ order.contest = 0
           \/ kind = "preview" /\ first = IF order.contest = 0 THEN "evaluate" ELSE "contest"
           \/ /\ kind = "export" /\ first = IF order.contest = 0 THEN "replay" ELSE "contest"
              /\ order.contest # 0 /\ order.pinned # 0 =>
                     order.pinned = plans[order.contest] \/ Len(plans) > order.contest
           \/ /\ kind = "download" /\ first = "access"
              /\ tasks["export"][k] # NoTask /\ tasks["export"][k].order = order
    PROVE  TransferIInv'
<1>. DEFINE known == kind \in TaskKinds /\ tasks[kind][k] # NoTask /\ tasks[kind][k].order = order
            turned == kind \in {"upload", "import"} /\ "import" \notin grants
<1>1. PICK row : /\ Proceeds(t, row) /\ row \in TransferRows
                 /\ row.kind = kind /\ row.key = k /\ row.order = order
                 /\ row.grants = grants /\ row.deleted = entry.deleted /\ row.known = known
                 /\ IF turned THEN row.at = "refused" /\ row.why = "right" ELSE row.at = first
  <2>. DEFINE plain == [NoTransfer EXCEPT !.at = first, !.kind = kind, !.key = k, !.order = order,
                                          !.grants = grants, !.deleted = entry.deleted, !.known = known]
              row == IF turned THEN [plain EXCEPT !.at = "refused", !.why = "right"] ELSE plain
  <2>1. Proceeds(t, row)
    BY DEF Arrives
  <2>2. /\ first \in Places /\ kind \in TaskKinds \cup {"upload", "preview", "download"}
        /\ grants \in SUBSET Privileges /\ entry.deleted \in BOOLEAN /\ known \in BOOLEAN
    BY DEF TransferIInv, TransferTypeOK, Places, TaskKinds
  <2>. HIDE DEF known
  <2>3. plain \in TransferRows /\ plain.at = first /\ plain.kind = kind /\ plain.key = k
        /\ plain.order = order /\ plain.grants = grants /\ plain.deleted = entry.deleted /\ plain.known = known
    <3>. HIDE DEF plain
    <3>1. [NoTransfer EXCEPT !.at = first, !.kind = kind, !.key = k, !.order = order, !.grants = grants,
                             !.deleted = entry.deleted, !.known = known] = plain
      BY DEF plain
    <3>. QED BY <2>2, <3>1, NoTransferTyped DEF TransferRows
  <2>. HIDE DEF plain, turned
  <2>4. [plain EXCEPT !.at = "refused", !.why = "right"] \in TransferRows
    BY <2>3 DEF TransferRows, Places, Reasons
  <2>5. /\ row \in TransferRows
        /\ row.kind = kind /\ row.key = k /\ row.order = order
        /\ row.grants = grants /\ row.deleted = entry.deleted /\ row.known = known
        /\ IF turned THEN row.at = "refused" /\ row.why = "right" ELSE row.at = first
    <3>1. CASE turned
      <4>1. row = [plain EXCEPT !.at = "refused", !.why = "right"]
        BY <3>1
      <4>. QED BY <2>3, <2>4, <3>1, <4>1 DEF TransferRows
    <3>2. CASE ~turned
      <4>1. row = plain
        BY <3>2
      <4>. QED BY <2>3, <3>2, <4>1
    <3>. QED BY <3>1, <3>2
  <2>. HIDE DEF row
  <2>. QED BY <2>1, <2>5
<1>2. WorldStays /\ TasksStay /\ StoreStays
  BY DEF Arrives
<1>3. t \notin package.objects \ package.rows
  BY RowKnown DEF RowFine, PackageFine, Arrives, Stands
<1>. HIDE DEF turned
<1>4. PlaceFine(row) /\ PackageFine(t, row)
  BY <1>1, <1>3 DEF PlaceFine, PackageFine, TaskKinds
<1>5. TaskFine(row)
  BY <1>1 DEF TaskFine, Matches, TaskKinds
<1>6. RightFine(row)
  BY <1>1 DEF RightFine, turned
<1>7. PickFine(row)
  BY <1>1 DEF PickFine
<1>. QED BY <1>1, <1>2, <1>4, <1>5, <1>6, <1>7, OnlyProceeds DEF RowFine

(* An import that comes again finds its task, if the request is the same.  *)
LEMMA ReplaysImport ==
    ASSUME TransferIInv, NEW t \in Transfers, ReplayImport(t)
    PROVE  TransferIInv'
<1>. USE DEF Stands, HasTask, SameRequest, TaskOf
<1>0. WorldStays /\ TasksStay /\ StoreStays /\ transfer[t].at = "replay" /\ transfer[t].kind = "import"
  BY DEF ReplayImport
<1>1. CASE ~HasTask(t) /\ Goes(t, "read")
  <2>1. PICK row \in TransferRows : row = [transfer[t] EXCEPT !.at = "read"]
    BY RowKnown DEF Places
  <2>2. Proceeds(t, row) /\ row.at = "read"
    BY <1>0, <1>1, <2>1, RowKnown DEF Goes, TransferRows
  <2>3. PlaceFine(row) /\ PackageFine(t, row) /\ RightFine(row)
    BY <2>1, <2>2, RowKnown, <1>0, <1>1 DEF RowFine, PlaceFine, PackageFine, RightFine, TransferRows
  <2>4. TaskFine(row)
    BY <2>1, <2>2, RowKnown, <1>0, <1>1 DEF RowFine, TaskFine, Matches, TransferRows
  <2>5. PickFine(row)
    BY <2>1, <2>2, RowKnown, <1>0, <1>1 DEF RowFine, PickFine, TransferRows
  <2>. QED BY <1>0, <2>2, <2>3, <2>4, <2>5, OnlyProceeds DEF RowFine
<1>2. CASE HasTask(t) /\ SameRequest(t) /\ Goes(t, "enqueue")
  <2>1. PICK row \in TransferRows : row = [transfer[t] EXCEPT !.at = "enqueue"]
    BY RowKnown DEF Places
  <2>2. Proceeds(t, row) /\ row.at = "enqueue"
    BY <1>0, <1>2, <2>1, RowKnown DEF Goes, TransferRows
  <2>3. PlaceFine(row) /\ PackageFine(t, row) /\ RightFine(row)
    BY <2>1, <2>2, RowKnown, <1>0, <1>2 DEF RowFine, PlaceFine, PackageFine, RightFine, TransferRows, TaskKinds
  <2>4. TaskFine(row)
    BY <2>1, <2>2, RowKnown, <1>0, <1>2 DEF RowFine, TaskFine, Matches, TransferRows, TaskKinds
  <2>5. PickFine(row)
    BY <2>1, <2>2, RowKnown, <1>0, <1>2 DEF RowFine, PickFine, TransferRows, TaskKinds
  <2>. QED BY <1>0, <2>2, <2>3, <2>4, <2>5, OnlyProceeds DEF RowFine
<1>3. CASE HasTask(t) /\ ~SameRequest(t) /\ Rejects(t, "key")
  <2>1. ~transfer[t].known
    BY <1>3, RowKnown DEF RowFine, TaskFine, Matches
  <2>. QED BY <1>0, <1>3, <2>1, Rejected DEF Reasons
<1>4. CASE Fail(t)
  BY <1>0, <1>4, Fails
<1>. QED BY <1>1, <1>2, <1>3, <1>4 DEF ReplayImport

LEMMA ReadsPackage ==
    ASSUME TransferIInv, NEW t \in Transfers, ReadPackage(t)
    PROVE  TransferIInv'
<1>0. /\ WorldStays /\ TasksStay /\ StoreStays /\ transfer[t].at = "read" /\ transfer[t].kind = "import"
      /\ ~transfer[t].known
  BY RowKnown DEF ReadPackage, Stands, RowFine, PlaceFine, TaskFine
<1>1. CASE Rejects(t, "file") \/ Rejects(t, "format") \/ Rejects(t, "content")
  BY <1>0, <1>1, Rejected DEF Reasons
<1>2. CASE Fail(t)
  BY <1>0, <1>2, Fails
<1>3. CASE Proceeds(t, [transfer[t] EXCEPT !.at = "create", !.version = format.version])
  <2>0. format.version \in 1..MaxFormats /\ transfer[t] \in TransferRows /\ "create" \in Places
    BY RowKnown DEF TransferIInv, TransferTypeOK, Places
  <2>. DEFINE next == [transfer[t] EXCEPT !.at = "create", !.version = format.version]
  <2>8. format.version \in 0..MaxFormats
    BY <2>0, TransferAssumption
  <2>9. next \in TransferRows
    BY <2>0, <2>8 DEF TransferRows
  <2>1. PICK row \in TransferRows : row = next
    BY <2>9
  <2>2. Proceeds(t, row) /\ row.at = "create" /\ row.version \in 1..MaxFormats /\ row.kind = "import"
        /\ ~row.known
    BY <1>0, <1>3, <2>0, <2>1 DEF TransferRows
  <2>3. PlaceFine(row) /\ PackageFine(t, row) /\ RightFine(row)
    BY <2>1, <2>2, RowKnown, <1>0 DEF RowFine, PlaceFine, PackageFine, RightFine, TransferRows
  <2>4. TaskFine(row)
    BY <2>1, <2>2, RowKnown, <1>0 DEF RowFine, TaskFine, Matches, TransferRows
  <2>5. PickFine(row)
    BY <2>1, <2>2, RowKnown, <1>0 DEF RowFine, PickFine, TransferRows
  <2>. QED BY <1>0, <2>2, <2>3, <2>4, <2>5, OnlyProceeds DEF RowFine
<1>. QED BY <1>1, <1>2, <1>3 DEF ReadPackage

(* The row of the contest has the version that was asked for.              *)
LEMMA ReadsContest ==
    ASSUME TransferIInv, NEW t \in Transfers, ReadContest(t)
    PROVE  TransferIInv'
<1>0. /\ WorldStays /\ TasksStay /\ StoreStays /\ transfer[t].at = "contest"
      /\ transfer[t].order.contest # 0 /\ transfer[t].kind \in {"preview", "export"}
  BY RowKnown DEF ReadContest, Stands, RowFine, PlaceFine
<1>1. CASE Rejects(t, "hidden") \/ Rejects(t, "stale")
  BY <1>0, <1>1, Rejected DEF Reasons
<1>2. CASE Fail(t)
  BY <1>0, <1>2, Fails
<1>3. CASE transfer[t].order.contest = Len(plans) /\ Goes(t, "picks")
  <2>1. PICK row \in TransferRows : row = [transfer[t] EXCEPT !.at = "picks"]
    BY RowKnown DEF Places
  <2>2. Proceeds(t, row) /\ row.at = "picks"
    BY <1>0, <1>3, <2>1, RowKnown DEF Goes, TransferRows
  <2>3. PlaceFine(row) /\ PackageFine(t, row) /\ RightFine(row)
    BY <2>1, <2>2, RowKnown, <1>0, <1>3 DEF RowFine, PlaceFine, PackageFine, RightFine, TransferRows
  <2>4. TaskFine(row)
    BY <2>1, <2>2, RowKnown, <1>0, <1>3 DEF RowFine, TaskFine, Matches, TransferRows
  <2>5. PickFine(row)
    BY <2>1, <2>2, RowKnown, <1>0, <1>3 DEF RowFine, PickFine, TransferRows
  <2>. QED BY <1>0, <2>2, <2>3, <2>4, <2>5, OnlyProceeds DEF RowFine
<1>. QED BY <1>1, <1>2, <1>3 DEF ReadContest

LEMMA ReadsFixed ==
    ASSUME TransferIInv, NEW t \in Transfers, ReadFixed(t)
    PROVE  TransferIInv'
<1>0. /\ WorldStays /\ TasksStay /\ StoreStays /\ transfer[t].at = "picks"
      /\ transfer[t].order.contest # 0 /\ transfer[t].kind \in {"preview", "export"}
  BY RowKnown DEF ReadFixed, Stands, RowFine, PlaceFine
<1>1. CASE Fail(t)
  BY <1>0, <1>1, Fails
<1>2. CASE ~Fail(t)
  <2>. DEFINE next == [transfer[t] EXCEPT
                          !.at = IF transfer[t].kind = "preview" THEN "evaluate" ELSE "replay",
                          !.revision = plans[Len(plans)]]
  <2>0. /\ transfer[t] \in TransferRows /\ Len(plans) \in 1..MaxPlans /\ plans[Len(plans)] \in 0..LastPicked
        /\ transfer[t].order.contest \in Nat /\ transfer[t].order.contest <= Len(plans)
    <3>1. plans \in Seq(Pickable) /\ Len(plans) \in 1..MaxPlans
      BY DEF TransferIInv, TransferTypeOK
    <3>2. plans[Len(plans)] \in Pickable
      BY <3>1, TransferAssumption
    <3>3. transfer[t] \in TransferRows /\ PickFine(transfer[t])
      BY RowKnown DEF RowFine
    <3>. QED BY <3>1, <3>2, <3>3, TransferAssumption DEF Pickable, TransferRows, Orders, PickFine
  <2>9. next \in TransferRows
    BY <2>0 DEF TransferRows, Places
  <2>1. PICK row \in TransferRows : row = next
    BY <2>9
  <2>2. /\ Proceeds(t, row) /\ row.at = IF transfer[t].kind = "preview" THEN "evaluate" ELSE "replay"
        /\ row.revision = plans[Len(plans)] /\ row.order = transfer[t].order /\ row.kind = transfer[t].kind
    BY <1>0, <1>2, <2>0, <2>1 DEF TransferRows, ReadFixed
  <2>3. PlaceFine(row) /\ PackageFine(t, row) /\ RightFine(row)
    BY <1>0, <2>1, <2>2, RowKnown DEF RowFine, PlaceFine, PackageFine, RightFine, TransferRows, TaskKinds
  <2>4. TaskFine(row)
    BY <1>0, <2>1, <2>2, RowKnown DEF RowFine, TaskFine, Matches, TransferRows, TaskKinds
  <2>5. PickFine(row)
    <3>1. \E n \in row.order.contest..Len(plans) : row.revision = plans[n]
      BY <2>0, <2>2, TransferAssumption
    <3>. QED BY <1>0, <2>1, <2>2, <3>1, RowKnown DEF RowFine, PickFine, TransferRows
  <2>. QED BY <1>0, <2>2, <2>3, <2>4, <2>5, OnlyProceeds DEF RowFine
<1>. QED BY <1>1, <1>2

LEMMA ReplaysExport ==
    ASSUME TransferIInv, NEW t \in Transfers, ReplayExport(t)
    PROVE  TransferIInv'
<1>0. WorldStays /\ TasksStay /\ StoreStays /\ transfer[t].at = "replay" /\ transfer[t].kind = "export"
  BY DEF ReplayExport, Stands
<1>1. CASE Fail(t)
  BY <1>0, <1>1, Fails
<1>2. CASE HasTask(t) /\ Goes(t, "access")
  <2>1. PICK row \in TransferRows : row = [transfer[t] EXCEPT !.at = "access"]
    BY RowKnown DEF Places
  <2>2. Proceeds(t, row) /\ row.at = "access"
    BY <1>2, <2>1, RowKnown DEF Goes, TransferRows
  <2>3. PlaceFine(row) /\ PackageFine(t, row) /\ RightFine(row)
    BY <1>0, <1>2, <2>1, <2>2, RowKnown DEF RowFine, PlaceFine, PackageFine, RightFine, TransferRows, TaskKinds
  <2>4. TaskFine(row)
    BY <1>0, <1>2, <2>1, <2>2, RowKnown DEF RowFine, TaskFine, Matches, TransferRows, TaskKinds, HasTask, TaskOf
  <2>5. PickFine(row)
    BY <1>0, <1>2, <2>1, <2>2, RowKnown DEF RowFine, PickFine, TransferRows
  <2>. QED BY <1>0, <2>2, <2>3, <2>4, <2>5, OnlyProceeds DEF RowFine
<1>3. CASE ~HasTask(t) /\ Goes(t, "evaluate")
  <2>1. PICK row \in TransferRows : row = [transfer[t] EXCEPT !.at = "evaluate"]
    BY RowKnown DEF Places
  <2>2. Proceeds(t, row) /\ row.at = "evaluate"
    BY <1>3, <2>1, RowKnown DEF Goes, TransferRows
  <2>3. PlaceFine(row) /\ PackageFine(t, row) /\ RightFine(row)
    BY <1>0, <1>3, <2>1, <2>2, RowKnown DEF RowFine, PlaceFine, PackageFine, RightFine, TransferRows, TaskKinds
  <2>4. TaskFine(row)
    BY <1>0, <1>3, <2>1, <2>2, RowKnown DEF RowFine, TaskFine, Matches, TransferRows, TaskKinds, HasTask, TaskOf
  <2>5. PickFine(row)
    BY <1>0, <1>3, <2>1, <2>2, RowKnown DEF RowFine, PickFine, TransferRows
  <2>. QED BY <1>0, <2>2, <2>3, <2>4, <2>5, OnlyProceeds DEF RowFine
<1>. QED BY <1>1, <1>2, <1>3 DEF ReplayExport

(* What a task found again or a result asks for is judged anew.            *)
LEMMA ChecksAccess ==
    ASSUME TransferIInv, NEW t \in Transfers, CheckAccess(t)
    PROVE  TransferIInv'
<1>. USE DEF Exported
<1>0. /\ WorldStays /\ TasksStay /\ StoreStays /\ transfer[t].at = "access"
      /\ transfer[t].kind \in {"export", "download"} /\ tasks["export"][transfer[t].key] # NoTask
  BY RowKnown DEF CheckAccess, Stands, RowFine, PlaceFine, TaskFine
<1>4. MayHave(t, Exported(t).order) =>
          Needs(Exported(t).order) \subseteq transfer[t].grants /\ ~transfer[t].deleted
  BY RowKnown DEF MayHave, RowFine, RightFine
<1>1. CASE Fail(t)
  BY <1>0, <1>1, Fails
<1>2. CASE Rejects(t, "hidden")
  BY <1>0, <1>2, Rejected DEF Reasons
<1>3. CASE MayHave(t, Exported(t).order) /\ transfer[t].kind = "download" /\ Goes(t, "fetch")
  <2>0. Exported(t).order = transfer[t].order
    BY <1>3, RowKnown DEF RowFine, TaskFine
  <2>1. PICK row \in TransferRows : row = [transfer[t] EXCEPT !.at = "fetch"]
    BY RowKnown DEF Places
  <2>2. Proceeds(t, row) /\ row.at = "fetch"
    BY <1>3, <1>4, <2>0, <2>1, RowKnown DEF Goes, TransferRows
  <2>3. PlaceFine(row) /\ PackageFine(t, row) /\ RightFine(row)
    BY <1>0, <1>3, <1>4, <2>0, <2>1, <2>2, RowKnown DEF RowFine, PlaceFine, PackageFine, RightFine, TransferRows, TaskKinds
  <2>4. TaskFine(row)
    BY <1>0, <1>3, <1>4, <2>0, <2>1, <2>2, RowKnown DEF RowFine, TaskFine, Matches, TransferRows, TaskKinds
  <2>5. PickFine(row)
    BY <1>0, <1>3, <1>4, <2>0, <2>1, <2>2, RowKnown DEF RowFine, PickFine, TransferRows
  <2>. QED BY <1>0, <2>2, <2>3, <2>4, <2>5, OnlyProceeds DEF RowFine
<1>5. CASE MayHave(t, Exported(t).order) /\ transfer[t].kind = "export" /\ SameRequest(t) /\ Goes(t, "enqueue")
  <2>0. Exported(t).order = transfer[t].order
    BY <1>5 DEF SameRequest, TaskOf
  <2>1. PICK row \in TransferRows : row = [transfer[t] EXCEPT !.at = "enqueue"]
    BY RowKnown DEF Places
  <2>2. Proceeds(t, row) /\ row.at = "enqueue"
    BY <1>5, <1>4, <2>0, <2>1, RowKnown DEF Goes, TransferRows
  <2>3. PlaceFine(row) /\ PackageFine(t, row) /\ RightFine(row)
    BY <1>0, <1>5, <1>4, <2>0, <2>1, <2>2, RowKnown DEF RowFine, PlaceFine, PackageFine, RightFine, TransferRows, TaskKinds
  <2>4. TaskFine(row)
    BY <1>0, <1>5, <1>4, <2>0, <2>1, <2>2, RowKnown DEF RowFine, TaskFine, Matches, TransferRows, TaskKinds
  <2>5. PickFine(row)
    BY <1>0, <1>5, <1>4, <2>0, <2>1, <2>2, RowKnown DEF RowFine, PickFine, TransferRows
  <2>. QED BY <1>0, <2>2, <2>3, <2>4, <2>5, OnlyProceeds DEF RowFine
<1>6. CASE transfer[t].kind = "export" /\ ~SameRequest(t) /\ Rejects(t, "key")
  <2>1. ~transfer[t].known
    BY <1>6, RowKnown DEF RowFine, TaskFine, Matches, SameRequest, TaskOf
  <2>. QED BY <1>0, <1>6, <2>1, Rejected DEF Reasons
<1>. QED BY <1>1, <1>2, <1>3, <1>5, <1>6 DEF CheckAccess

(* The revision that is judged is the one that is written, and the pinned  *)
(* one.                                                                    *)
LEMMA Evaluates ==
    ASSUME TransferIInv, NEW t \in Transfers, Evaluate(t)
    PROVE  TransferIInv'
<1>0. /\ WorldStays /\ TasksStay /\ StoreStays /\ transfer[t].at = "evaluate"
      /\ transfer[t].kind \in {"preview", "export"} /\ ~transfer[t].known
  BY RowKnown DEF Evaluate, Stands, RowFine, PlaceFine, TaskFine
<1>1. CASE Rejects(t, "format") \/ Rejects(t, "hidden") \/ Rejects(t, "content")
  BY <1>0, <1>1, Rejected DEF Reasons
<1>2. CASE Fail(t)
  BY <1>0, <1>2, Fails
<1>. DEFINE next == [transfer[t] EXCEPT
                        !.at = IF transfer[t].kind = "preview" THEN "ok" ELSE "create",
                        !.version = format.version, !.revision = Chosen(t)]
<1>3. CASE MayHave(t, transfer[t].order) /\ transfer[t].order.pinned \in {0, Chosen(t)} /\ Proceeds(t, next)
  <2>0. transfer[t] \in TransferRows /\ format.version \in 1..MaxFormats /\ entry.revision \in Pickable
    BY RowKnown DEF TransferIInv, TransferTypeOK
  <2>7. Chosen(t) \in 0..LastPicked /\ format.version \in 0..MaxFormats
    BY <2>0, TransferAssumption DEF Chosen, TransferRows, Pickable
  <2>9. next \in TransferRows
    BY <2>0, <2>7 DEF TransferRows, Places
  <2>1. PICK row \in TransferRows : row = next
    BY <2>9
  <2>2. /\ Proceeds(t, row) /\ row.at = IF transfer[t].kind = "preview" THEN "ok" ELSE "create"
        /\ row.revision = Chosen(t) /\ row.order = transfer[t].order /\ row.kind = transfer[t].kind
        /\ row.version \in 1..MaxFormats /\ row.known = transfer[t].known
        /\ row.grants = transfer[t].grants /\ row.deleted = transfer[t].deleted /\ row.key = transfer[t].key
    BY <1>3, <2>0, <2>1 DEF TransferRows
  <2>. HIDE DEF next
  <2>3. PlaceFine(row) /\ PackageFine(t, row)
    BY <1>0, <2>2, RowKnown DEF RowFine, PlaceFine, PackageFine, TaskKinds
  <2>4. TaskFine(row)
    BY <1>0, <2>2, RowKnown DEF RowFine, TaskFine, Matches, TaskKinds
  <2>5. RightFine(row)
    BY <1>0, <1>3, <2>2, RowKnown DEF RowFine, RightFine, MayHave
  <2>6. PickFine(row)
    BY <1>0, <1>3, <2>2, RowKnown DEF RowFine, PickFine, Chosen
  <2>. QED BY <1>0, <2>2, <2>3, <2>4, <2>5, <2>6, OnlyProceeds DEF RowFine
<1>. QED BY <1>1, <1>2, <1>3 DEF Evaluate

LEMMA Fetches ==
    ASSUME TransferIInv, NEW t \in Transfers, FetchResult(t)
    PROVE  TransferIInv'
<1>0. WorldStays /\ TasksStay /\ StoreStays /\ transfer[t].at = "fetch" /\ transfer[t].kind = "download"
  BY RowKnown DEF FetchResult, Stands, RowFine, PlaceFine
<1>1. CASE Fail(t)
  BY <1>0, <1>1, Fails
<1>2. CASE Rejects(t, "hidden")
  BY <1>0, <1>2, Rejected DEF Reasons
<1>3. CASE Goes(t, "ok")
  <2>1. PICK row \in TransferRows : row = [transfer[t] EXCEPT !.at = "ok"]
    BY RowKnown DEF Places
  <2>2. Proceeds(t, row) /\ row.at = "ok"
    BY <1>3, <2>1, RowKnown DEF Goes, TransferRows
  <2>3. PlaceFine(row) /\ PackageFine(t, row) /\ RightFine(row)
    BY <1>0, <1>3, <2>1, <2>2, RowKnown DEF RowFine, PlaceFine, PackageFine, RightFine, TransferRows, TaskKinds
  <2>4. TaskFine(row)
    BY <1>0, <1>3, <2>1, <2>2, RowKnown DEF RowFine, TaskFine, Matches, TransferRows, TaskKinds
  <2>5. PickFine(row)
    BY <1>0, <1>3, <2>1, <2>2, RowKnown DEF RowFine, PickFine, TransferRows
  <2>. QED BY <1>0, <2>2, <2>3, <2>4, <2>5, OnlyProceeds DEF RowFine
<1>. QED BY <1>1, <1>2, <1>3 DEF FetchResult

LEMMA LooksAfter ==
    ASSUME TransferIInv, NEW t \in Transfers, LookAfter(t)
    PROVE  TransferIInv'
<1>0. /\ WorldStays /\ TasksStay /\ StoreStays /\ transfer[t].at = "look" /\ transfer[t].kind = "upload"
      /\ t \in package.objects
  BY RowKnown DEF LookAfter, Stands, RowFine, PlaceFine, PackageFine
<1>1. CASE Fail(t)
  BY <1>0, <1>1, Fails
<1>2. CASE t \in package.rows /\ Goes(t, "ok")
  <2>1. PICK row \in TransferRows : row = [transfer[t] EXCEPT !.at = "ok"]
    BY RowKnown DEF Places
  <2>2. Proceeds(t, row) /\ row.at = "ok"
    BY <1>2, <2>1, RowKnown DEF Goes, TransferRows
  <2>3. PlaceFine(row) /\ PackageFine(t, row) /\ RightFine(row)
    BY <1>0, <1>2, <2>1, <2>2, RowKnown DEF RowFine, PlaceFine, PackageFine, RightFine, TransferRows, TaskKinds
  <2>4. TaskFine(row)
    BY <1>0, <1>2, <2>1, <2>2, RowKnown DEF RowFine, TaskFine, Matches, TransferRows, TaskKinds
  <2>5. PickFine(row)
    BY <1>0, <1>2, <2>1, <2>2, RowKnown DEF RowFine, PickFine, TransferRows
  <2>. QED BY <1>0, <2>2, <2>3, <2>4, <2>5, OnlyProceeds DEF RowFine
<1>3. CASE t \notin package.rows /\ Goes(t, "drop")
  <2>1. PICK row \in TransferRows : row = [transfer[t] EXCEPT !.at = "drop"]
    BY RowKnown DEF Places
  <2>2. Proceeds(t, row) /\ row.at = "drop"
    BY <1>3, <2>1, RowKnown DEF Goes, TransferRows
  <2>3. PlaceFine(row) /\ PackageFine(t, row) /\ RightFine(row)
    BY <1>0, <1>3, <2>1, <2>2, RowKnown DEF RowFine, PlaceFine, PackageFine, RightFine, TransferRows, TaskKinds
  <2>4. TaskFine(row)
    BY <1>0, <1>3, <2>1, <2>2, RowKnown DEF RowFine, TaskFine, Matches, TransferRows, TaskKinds
  <2>5. PickFine(row)
    BY <1>0, <1>3, <2>1, <2>2, RowKnown DEF RowFine, PickFine, TransferRows
  <2>. QED BY <1>0, <2>2, <2>3, <2>4, <2>5, OnlyProceeds DEF RowFine
<1>. QED BY <1>1, <1>2, <1>3 DEF LookAfter

LEMMA OrdersTyped ==
    /\ NoOrder \in Orders /\ NoOrder.contest = 0
    /\ \A f \in Files : /\ [NoOrder EXCEPT !.file = f] \in Orders
                        /\ [NoOrder EXCEPT !.file = f].contest = 0
    /\ \A version \in 0..MaxPlans, pinned \in 0..LastPicked, inner \in BOOLEAN :
          /\ Asks(version, pinned, inner) \in Orders
          /\ Asks(version, pinned, inner).contest = version
          /\ Asks(version, pinned, inner).pinned = pinned
<1>1. NoOrder \in Orders
  <2>1. 0 \in 0..MaxPlans /\ 0 \in 0..LastPicked /\ Earlier \in Files
    BY TransferAssumption DEF Files
  <2>. QED BY <2>1 DEF NoOrder, Orders, NoFile
<1>2. NoOrder.contest = 0
  BY DEF NoOrder
<1>3. ASSUME NEW f \in Files
      PROVE [NoOrder EXCEPT !.file = f] \in Orders /\ [NoOrder EXCEPT !.file = f].contest = 0
  BY <1>1, <1>2 DEF Orders
<1>4. ASSUME NEW version \in 0..MaxPlans, NEW pinned \in 0..LastPicked, NEW inner \in BOOLEAN
      PROVE  /\ Asks(version, pinned, inner) \in Orders
             /\ Asks(version, pinned, inner).contest = version
             /\ Asks(version, pinned, inner).pinned = pinned
  BY <1>1 DEF Asks, Orders
<1>. QED BY <1>1, <1>2, <1>3, <1>4

LEMMA Begins ==
    ASSUME TransferIInv, NEW t \in Transfers,
           BeginPackage(t) \/ BeginImport(t) \/ BeginPreview(t) \/ BeginExport(t) \/ BeginDownload(t)
    PROVE  TransferIInv'
<1>0. Len(plans) \in 1..MaxPlans /\ 0 \in 0..LastPicked
  BY TransferAssumption DEF TransferIInv, TransferTypeOK
<1>6. \A version \in 0..Len(plans) : version \in 0..MaxPlans /\ version <= Len(plans)
  BY <1>0, TransferAssumption
<1>1. CASE BeginPackage(t)
  <2>1. PICK k \in RequestKeys : Arrives(t, "upload", k, NoOrder, "publish")
    BY <1>1 DEF BeginPackage
  <2>2. NoOrder \in Orders /\ NoOrder.contest <= Len(plans)
    BY <1>0, OrdersTyped
  <2>. QED BY <2>1, <2>2, Arrived
<1>2. CASE BeginImport(t)
  <2>1. PICK k \in RequestKeys, f \in package.rows : Arrives(t, "import", k, [NoOrder EXCEPT !.file = f], "replay")
    BY <1>2 DEF BeginImport
  <2>2. f \in Files
    BY DEF TransferIInv, TransferTypeOK
  <2>3. PICK order \in Orders : order = [NoOrder EXCEPT !.file = f] /\ order.contest = 0 /\ order.contest <= Len(plans)
    <3>1. \A n \in {0} : n <= Len(plans)
      BY <1>0, TransferAssumption
    <3>. QED BY <2>2, <3>1, OrdersTyped
  <2>. QED BY <2>1, <2>3, Arrived
<1>3. CASE BeginPreview(t)
  <2>1. PICK k \in RequestKeys, version \in 0..Len(plans), inner \in BOOLEAN :
            Arrives(t, "preview", k, Asks(version, 0, inner), IF version = 0 THEN "evaluate" ELSE "contest")
    BY <1>3 DEF BeginPreview
  <2>2. PICK order \in Orders : order = Asks(version, 0, inner) /\ order.contest = version /\ order.contest <= Len(plans)
    BY <1>0, <1>6, OrdersTyped
  <2>. QED BY <2>1, <2>2, Arrived
<1>4. CASE BeginExport(t)
  <2>1. PICK k \in RequestKeys, version \in 0..Len(plans), inner \in BOOLEAN :
            \E pinned \in {0} \cup Previewed(version) :
                Arrives(t, "export", k, Asks(version, pinned, inner), IF version = 0 THEN "replay" ELSE "contest")
    BY <1>4 DEF BeginExport
  <2>2. PICK pinned \in {0} \cup Previewed(version) :
            Arrives(t, "export", k, Asks(version, pinned, inner), IF version = 0 THEN "replay" ELSE "contest")
    BY <2>1
  <2>3. /\ pinned \in 0..LastPicked
        /\ version # 0 /\ pinned # 0 => pinned = plans[version] \/ Len(plans) > version
    <3>1. CASE pinned = 0
      BY <1>0, <3>1
    <3>2. CASE pinned # 0
      <4>1. PICK s \in Transfers : /\ pinned = transfer[s].revision /\ transfer[s].kind = "preview"
                                   /\ transfer[s].at = "ok" /\ transfer[s].order.contest = version
        BY <3>2 DEF Previewed, Stands
      <4>2. version # 0 => \E n \in version..Len(plans) : pinned = plans[n]
        BY <4>1, RowKnown DEF RowFine, PickFine
      <4>3. pinned \in 0..LastPicked
        BY <4>1, RowKnown DEF TransferRows
      <4>. QED BY <1>0, <4>2, <4>3
    <3>. QED BY <3>1, <3>2
  <2>4. PICK order \in Orders : /\ order = Asks(version, pinned, inner) /\ order.contest = version
                                /\ order.pinned = pinned /\ order.contest <= Len(plans)
    BY <1>0, <1>6, <2>3, OrdersTyped
  <2>. QED BY <2>2, <2>3, <2>4, Arrived
<1>5. CASE BeginDownload(t)
  <2>1. PICK k \in RequestKeys : /\ tasks["export"][k] # NoTask
                                 /\ Arrives(t, "download", k, tasks["export"][k].order, "access")
    BY <1>5 DEF BeginDownload
  <2>2. tasks["export"][k] \in Tasks
    BY <2>1 DEF TransferIInv, TransferTypeOK, TaskKinds
  <2>3. PICK order \in Orders : order = tasks["export"][k].order
    BY <2>2 DEF Tasks
  <2>4. order.contest \in Nat
    BY TransferAssumption DEF Orders
  <2>5. order.contest <= Len(plans)
    BY <1>0, <2>1, <2>3, <2>4 DEF TransferIInv, ExportsAreFixed
  <2>. QED BY <2>1, <2>3, <2>5, Arrived
<1>. QED BY <1>1, <1>2, <1>3, <1>4, <1>5

(* What happens beside the requests.                                       *)
LEMMA AllStay ==
    ASSUME TransferIInv, TransferTypeOK', Onward, transfer' = transfer, tasks' = tasks,
           \A s \in Transfers : SameBytes(s), BytesFine'
    PROVE  TransferIInv'
<1>1. ExportsAreFixed'
  BY FixedStay DEF TransferIInv
<1>2. ASSUME NEW s \in Transfers PROVE RowFine(s, transfer[s])'
  <2>1. transfer[s] \in TransferRows /\ RowFine(s, transfer[s]) /\ TransferTypeOK /\ SameBytes(s)
    BY RowKnown DEF TransferIInv
  <2>2. PICK mine \in TransferRows : mine = transfer[s] /\ RowFine(s, mine) /\ transfer'[s] = mine
    BY <2>1
  <2>3. RowFine(s, mine)'
    BY <2>1, <2>2, RowStays
  <2>. QED BY <2>2, <2>3 DEF RowFine, PlaceFine, PackageFine, TaskFine, RightFine, PickFine, Matches
<1>. QED BY <1>1, <1>2 DEF TransferIInv

LEMMA WorldMoves ==
    ASSUME TransferIInv,
           EntryMoves \/ ContestMoves \/ GrantsMove \/ FormatMoves \/ PackageExpires \/ ResultMoves
    PROVE  TransferIInv'
<1>. USE DEF Apart
<1>0. TransferTypeOK /\ BytesFine
  BY DEF TransferIInv
<1>7. Around => changes' \in 0..MaxChanges
  BY <1>0, TransferAssumption DEF Around, TransferTypeOK
<1>1. CASE EntryMoves
  <2>1. entry' \in [revision : Pickable, deleted : BOOLEAN] /\ (entry.deleted => entry'.deleted)
    <3>0. entry \in [revision : Pickable, deleted : BOOLEAN]
      BY <1>0 DEF TransferTypeOK
    <3>1. CASE entry.revision < LastPicked /\ entry' = [entry EXCEPT !.revision = @ + 1]
      <4>1. entry.revision + 1 \in Pickable
        BY <3>0, <3>1, TransferAssumption DEF Pickable
      <4>. QED BY <3>0, <3>1, <4>1
    <3>2. CASE entry' = [entry EXCEPT !.deleted = TRUE]
      BY <3>0, <3>2
    <3>. QED BY <1>1, <3>1, <3>2 DEF EntryMoves
  <2>2. TransferTypeOK'
    BY <1>0, <1>1, <1>7, <2>1 DEF EntryMoves, Around, TransferTypeOK
  <2>3. Onward /\ BytesFine' /\ \A s \in Transfers : SameBytes(s)
    BY <1>0, <1>1, <2>1 DEF EntryMoves, Around, Onward, BytesFine, SameBytes
  <2>. QED BY <1>1, <2>2, <2>3, AllStay DEF EntryMoves, Around
<1>2. CASE ContestMoves
  <2>1. PICK n \in 1..entry.revision : plans' = Append(plans, n)
    BY <1>2 DEF ContestMoves
  <2>2. n \in Pickable /\ plans \in Seq(Pickable) /\ Len(plans) < MaxPlans
    BY <1>0, <1>2, TransferAssumption DEF TransferTypeOK, Pickable, ContestMoves
  <2>3. plans' \in Seq(Pickable) /\ Len(plans') = Len(plans) + 1 /\ \A m \in 1..Len(plans) : plans'[m] = plans[m]
    BY <2>1, <2>2
  <2>4. Len(plans') \in 1..MaxPlans /\ Len(plans) <= Len(plans')
    BY <2>2, <2>3, TransferAssumption
  <2>5. TransferTypeOK'
    BY <1>0, <1>2, <1>7, <2>3, <2>4 DEF ContestMoves, Around, TransferTypeOK
  <2>6. Onward /\ BytesFine' /\ \A s \in Transfers : SameBytes(s)
    BY <1>0, <1>2, <2>3, <2>4 DEF ContestMoves, Around, Onward, BytesFine, SameBytes
  <2>. QED BY <1>2, <2>5, <2>6, AllStay DEF ContestMoves, Around
<1>3. CASE GrantsMove
  <2>1. grants' \subseteq Privileges
    BY <1>0, <1>3 DEF GrantsMove, TransferTypeOK
  <2>2. TransferTypeOK'
    BY <1>0, <1>3, <1>7, <2>1 DEF GrantsMove, Around, TransferTypeOK
  <2>3. Onward /\ BytesFine' /\ \A s \in Transfers : SameBytes(s)
    BY <1>0, <1>3 DEF GrantsMove, Around, Onward, BytesFine, SameBytes
  <2>. QED BY <1>3, <2>2, <2>3, AllStay DEF GrantsMove, Around
<1>4. CASE FormatMoves
  <2>1. format' \in [version : 1..MaxFormats, enabled : BOOLEAN]
    <3>0. format \in [version : 1..MaxFormats, enabled : BOOLEAN]
      BY <1>0 DEF TransferTypeOK
    <3>1. CASE format' = [format EXCEPT !.enabled = ~@]
      <4>1. (~format.enabled) \in BOOLEAN
        BY Zenon
      <4>. QED BY <3>0, <3>1, <4>1
    <3>2. CASE format.version < MaxFormats /\ format' = [format EXCEPT !.version = @ + 1]
      <4>1. format.version + 1 \in 1..MaxFormats
        BY <3>0, <3>2, TransferAssumption
      <4>. QED BY <3>0, <3>2, <4>1
    <3>. QED BY <1>4, <3>1, <3>2 DEF FormatMoves
  <2>2. TransferTypeOK'
    BY <1>0, <1>4, <1>7, <2>1 DEF FormatMoves, Around, TransferTypeOK
  <2>3. Onward /\ BytesFine' /\ \A s \in Transfers : SameBytes(s)
    BY <1>0, <1>4 DEF FormatMoves, Around, Onward, BytesFine, SameBytes
  <2>. QED BY <1>4, <2>2, <2>3, AllStay DEF FormatMoves, Around
<1>5. CASE PackageExpires
  <2>1. PICK f \in package.rows : package' = [package EXCEPT !.expired = @ \cup {f}]
    BY <1>5 DEF PackageExpires
  <2>2. /\ package' \in [objects : SUBSET Files, rows : SUBSET Files, expired : SUBSET Files]
        /\ package'.rows = package.rows /\ package'.objects = package.objects
    <3>1. package \in [objects : SUBSET Files, rows : SUBSET Files, expired : SUBSET Files]
      BY <1>0 DEF TransferTypeOK
    <3>2. package.expired \cup {f} \subseteq Files
      BY <3>1
    <3>. QED BY <2>1, <3>1, <3>2
  <2>3. TransferTypeOK'
    BY <1>0, <1>5, <1>7, <2>2 DEF PackageExpires, Around, TransferTypeOK
  <2>4. Onward /\ BytesFine' /\ \A s \in Transfers : SameBytes(s)
    BY <1>0, <1>5, <2>2 DEF PackageExpires, Around, Onward, BytesFine, SameBytes
  <2>. QED BY <1>5, <2>3, <2>4, AllStay DEF PackageExpires, Around
<1>6. CASE ResultMoves
  <2>1. results' \in [RequestKeys -> {"none", "ready", "expired"}]
    BY <1>0, <1>6 DEF ResultMoves, TransferTypeOK
  <2>2. TransferTypeOK'
    BY <1>0, <1>6, <2>1 DEF ResultMoves, TransferTypeOK
  <2>3. Onward /\ BytesFine' /\ \A s \in Transfers : SameBytes(s)
    BY <1>0, <1>6 DEF ResultMoves, Onward, BytesFine, SameBytes
  <2>. QED BY <1>6, <2>2, <2>3, AllStay DEF ResultMoves
<1>. QED BY <1>1, <1>2, <1>3, <1>4, <1>5, <1>6

(* The steps of a request that change what others see.                     *)
LEMMA FailsWith ==
    ASSUME TransferIInv, NEW t \in Transfers, NEW p \in Places, Goes(t, p)
    PROVE  \E row \in TransferRows : /\ Proceeds(t, row) /\ row = [transfer[t] EXCEPT !.at = p]
                                     /\ row.at = p
<1>1. PICK row \in TransferRows : row = [transfer[t] EXCEPT !.at = p]
  BY RowKnown
<1>2. row.at = p
  BY <1>1, RowKnown DEF TransferRows
<1>. QED BY <1>1, <1>2 DEF Goes

LEMMA Publishes ==
    ASSUME TransferIInv, NEW t \in Transfers, PublishPackage(t)
    PROVE  TransferIInv'
<1>. USE DEF WorldStays, TasksStay, StoreStays, worldVars, rowVars, storeVars
<1>0. /\ WorldStays /\ TasksStay /\ UNCHANGED <<undecided, belated>> /\ transfer[t].at = "publish"
      /\ transfer[t].kind = "upload" /\ TransferTypeOK /\ ~transfer[t].known
  BY RowKnown DEF PublishPackage, Stands, RowFine, PlaceFine, TaskFine, Matches, TransferIInv, TaskKinds
<1>1. CASE package' = package
  <2>1. CASE Fail(t)
    BY <1>0, <1>1, <2>1, Fails
  <2>2. CASE Rejects(t, "content")
    BY <1>0, <1>1, <2>2, Rejected DEF Reasons
  <2>3. CASE Goes(t, "save") /\ package' = [package EXCEPT !.objects = @ \cup {t}]
    <3>1. t \in package.objects
      BY <1>0, <1>1, <2>3 DEF TransferTypeOK
    <3>2. PICK row \in TransferRows : Proceeds(t, row) /\ row = [transfer[t] EXCEPT !.at = "save"] /\ row.at = "save"
      BY <2>3, FailsWith DEF Places
    <3>3. RowFine(t, row)
      BY <1>0, <3>1, <3>2, RowKnown DEF RowFine, PlaceFine, PackageFine, TaskFine, RightFine, PickFine,
         Matches, TransferRows
    <3>. QED BY <1>0, <1>1, <3>2, <3>3, OnlyProceeds
  <2>. QED BY <2>1, <2>2, <2>3 DEF PublishPackage
<1>2. CASE Goes(t, "save") /\ package' = [package EXCEPT !.objects = @ \cup {t}]
  <2>1. PICK row \in TransferRows : Proceeds(t, row) /\ row = [transfer[t] EXCEPT !.at = "save"] /\ row.at = "save"
    BY <1>2, FailsWith DEF Places
  <2>2. /\ package \in [objects : SUBSET Files, rows : SUBSET Files, expired : SUBSET Files] /\ t \in Files
        /\ package' = [package EXCEPT !.objects = package.objects \cup {t}]
    BY <1>0, <1>2 DEF TransferTypeOK, Files
  <2>3. /\ package'.objects = package.objects \cup {t} /\ package'.rows = package.rows
        /\ package' \in [objects : SUBSET Files, rows : SUBSET Files, expired : SUBSET Files]
    <3>1. package.objects \cup {t} \subseteq Files
      BY <2>2
    <3>. QED BY <2>2, <3>1
  <2>4. Onward /\ BytesFine' /\ \A s \in Transfers \ {t} : SameBytes(s)
    BY <1>0, <2>3 DEF Onward, BytesFine, SameBytes, TransferIInv
  <2>5. (transfer' \in [Transfers -> TransferRows]) => TransferTypeOK'
    BY <1>0, <2>3 DEF TransferTypeOK
  <2>6. ExportsAreFixed'
    BY <1>0 DEF ExportsAreFixed, TransferIInv
  <2>7. RowFine(t, row)'
    <3>1. PlaceFine(row)' /\ PackageFine(t, row)' /\ RightFine(row)'
      BY <1>0, <2>1, <2>3, RowKnown DEF RowFine, PlaceFine, PackageFine, RightFine, TransferRows
    <3>2. TaskFine(row)'
      BY <1>0, <2>1, RowKnown DEF RowFine, TaskFine, Matches, TransferRows
    <3>3. PickFine(row)'
      BY <1>0, <2>1, RowKnown DEF RowFine, PickFine, TransferRows
    <3>. QED BY <3>1, <3>2, <3>3 DEF RowFine
  <2>. QED BY <2>1, <2>4, <2>5, <2>6, <2>7, OneProceeds
<1>. QED BY <1>0, <1>1, <1>2 DEF PublishPackage

LEMMA SavesRow ==
    ASSUME TransferIInv, NEW t \in Transfers, SavePackage(t)
    PROVE  TransferIInv'
<1>. USE DEF WorldStays, TasksStay, StoreStays, worldVars, rowVars, storeVars
<1>0. /\ WorldStays /\ TasksStay /\ UNCHANGED belated /\ transfer[t].at = "save"
      /\ transfer[t].kind = "upload" /\ TransferTypeOK /\ ~transfer[t].known /\ t \in package.objects
  BY RowKnown DEF SavePackage, Stands, RowFine, PlaceFine, PackageFine, TaskFine, Matches, TransferIInv, TaskKinds
<1>4. PICK p \in {"ok", "look"} : Goes(t, p)
  BY DEF SavePackage
<1>5. /\ undecided' \subseteq Transfers
      /\ \/ p = "look" /\ package' = package
         \/ package' = [package EXCEPT !.rows = package.rows \cup {t}]
  <2>1. CASE package' = [package EXCEPT !.rows = @ \cup {t}] /\ UNCHANGED undecided
    BY <1>0, <2>1 DEF TransferTypeOK
  <2>2. CASE Goes(t, "look") /\ undecided' \in {undecided, undecided \cup {t}} /\ UNCHANGED package
    <3>1. p = "look"
      BY <1>4, <2>2, FailsWith DEF Proceeds, TransferIInv, TransferTypeOK, Places
    <3>. QED BY <1>0, <2>2, <3>1 DEF TransferTypeOK
  <2>. QED BY <2>1, <2>2 DEF SavePackage
<1>6. PICK row \in TransferRows : Proceeds(t, row) /\ row = [transfer[t] EXCEPT !.at = p] /\ row.at = p
  BY <1>4, FailsWith DEF Places
<1>7. /\ package'.objects = package.objects
      /\ package'.rows = package.rows \cup {t} \/ (p = "look" /\ package'.rows = package.rows)
      /\ package' \in [objects : SUBSET Files, rows : SUBSET Files, expired : SUBSET Files]
  <2>1. package \in [objects : SUBSET Files, rows : SUBSET Files, expired : SUBSET Files] /\ t \in Files
    BY <1>0 DEF TransferTypeOK, Files
  <2>2. package.rows \cup {t} \subseteq Files
    BY <2>1
  <2>. QED BY <1>5, <2>1, <2>2
<1>8. Onward /\ BytesFine' /\ \A s \in Transfers \ {t} : SameBytes(s)
  BY <1>0, <1>7 DEF Onward, BytesFine, SameBytes, TransferIInv
<1>9. (transfer' \in [Transfers -> TransferRows]) => TransferTypeOK'
  BY <1>0, <1>5, <1>7 DEF TransferTypeOK
<1>10. ExportsAreFixed'
  BY <1>0 DEF ExportsAreFixed, TransferIInv
<1>11. RowFine(t, row)'
  <2>1. PlaceFine(row)' /\ PackageFine(t, row)' /\ RightFine(row)'
    BY <1>0, <1>6, <1>7, RowKnown DEF RowFine, PlaceFine, PackageFine, RightFine, TransferRows
  <2>2. TaskFine(row)'
    BY <1>0, <1>6, RowKnown DEF RowFine, TaskFine, Matches, TransferRows, TaskKinds
  <2>3. PickFine(row)'
    BY <1>0, <1>6, RowKnown DEF RowFine, PickFine, TransferRows
  <2>. QED BY <2>1, <2>2, <2>3 DEF RowFine
<1>. QED BY <1>6, <1>8, <1>9, <1>10, <1>11, OneProceeds

LEMMA Drops ==
    ASSUME TransferIInv, NEW t \in Transfers, DropPackage(t)
    PROVE  TransferIInv'
<1>. USE DEF WorldStays, TasksStay, worldVars, rowVars
<1>0. /\ WorldStays /\ TasksStay /\ UNCHANGED <<undecided, belated>> /\ transfer[t].at = "drop"
      /\ transfer[t].kind = "upload" /\ TransferTypeOK /\ Goes(t, "failed")
      /\ (t \in package.rows => t \in belated)
  BY RowKnown DEF DropPackage, Stands, Fail, RowFine, PlaceFine, PackageFine, TransferIInv
<1>1. /\ package' \in [objects : SUBSET Files, rows : SUBSET Files, expired : SUBSET Files]
      /\ package'.rows = package.rows
      /\ package'.objects \in {package.objects, package.objects \ {t}}
  <2>1. package \in [objects : SUBSET Files, rows : SUBSET Files, expired : SUBSET Files]
    BY <1>0 DEF TransferTypeOK
  <2>2. package' = package \/ package' = [package EXCEPT !.objects = package.objects \ {t}]
    BY DEF DropPackage
  <2>3. package.objects \ {t} \subseteq Files
    BY <2>1
  <2>. QED BY <2>1, <2>2, <2>3
<1>2. PICK row \in TransferRows : /\ Proceeds(t, row) /\ row = [transfer[t] EXCEPT !.at = "failed"]
                                 /\ row.at = "failed"
  BY <1>0, FailsWith DEF Places
<1>3. Onward /\ BytesFine' /\ \A s \in Transfers \ {t} : SameBytes(s)
  BY <1>0, <1>1 DEF Onward, BytesFine, SameBytes, TransferIInv
<1>4. (transfer' \in [Transfers -> TransferRows]) => TransferTypeOK'
  BY <1>0, <1>1 DEF TransferTypeOK
<1>5. ExportsAreFixed'
  BY <1>0 DEF ExportsAreFixed, TransferIInv
<1>6. RowFine(t, row)'
  <2>1. PlaceFine(row)' /\ PackageFine(t, row)' /\ RightFine(row)'
    BY <1>0, <1>1, <1>2, RowKnown DEF RowFine, PlaceFine, PackageFine, RightFine, TransferRows
  <2>2. TaskFine(row)'
    BY <1>0, <1>2, RowKnown DEF RowFine, TaskFine, Matches, TransferRows
  <2>3. PickFine(row)'
    BY <1>0, <1>2, RowKnown DEF RowFine, PickFine, TransferRows
  <2>. QED BY <2>1, <2>2, <2>3 DEF RowFine
<1>. QED BY <1>2, <1>3, <1>4, <1>5, <1>6, OneProceeds

(* A commit after the look: the bytes may be gone.                         *)
LEMMA Commits ==
    ASSUME TransferIInv, NEW t \in Transfers, CommitsLate(t)
    PROVE  TransferIInv'
<1>. USE DEF WorldStays, TasksStay, worldVars, rowVars, Stands
<1>0. /\ WorldStays /\ TasksStay /\ transfer' = transfer /\ undecided' \subseteq Transfers
      /\ TransferTypeOK /\ RowFine(t, transfer[t])
  BY RowKnown DEF CommitsLate, TransferIInv, TransferTypeOK
<1>1. CASE package' = package /\ belated' = belated
  <2>1. TransferTypeOK'
    BY <1>0, <1>1 DEF TransferTypeOK
  <2>2. Onward /\ BytesFine' /\ \A s \in Transfers : SameBytes(s)
    BY <1>0, <1>1 DEF Onward, BytesFine, SameBytes, TransferIInv
  <2>. QED BY <1>0, <2>1, <2>2, AllStay
<1>2. CASE /\ package' = [package EXCEPT !.rows = package.rows \cup {t}]
           /\ belated' = IF transfer[t].at = "look" THEN belated ELSE belated \cup {t}
  <2>1. /\ package'.objects = package.objects /\ package'.rows = package.rows \cup {t}
        /\ package' \in [objects : SUBSET Files, rows : SUBSET Files, expired : SUBSET Files]
    <3>1. package \in [objects : SUBSET Files, rows : SUBSET Files, expired : SUBSET Files] /\ t \in Files
      BY <1>0 DEF TransferTypeOK, Files
    <3>2. package.rows \cup {t} \subseteq Files
      BY <3>1
    <3>. QED BY <1>2, <3>1, <3>2
  <2>2. TransferTypeOK'
    BY <1>0, <1>2, <2>1 DEF TransferTypeOK
  <2>3. BytesFine'
    BY <1>0, <1>2, <2>1 DEF BytesFine, RowFine, PackageFine, TransferIInv
  <2>4. Onward /\ \A s \in Transfers \ {t} : SameBytes(s)
    BY <1>0, <1>2, <2>1 DEF Onward, SameBytes
  <2>5. PICK row \in TransferRows : row = transfer[t] /\ RowFine(t, row) /\ Proceeds(t, row)
    BY <1>0, RowKnown DEF Proceeds, TransferTypeOK
  <2>6. ExportsAreFixed'
    BY <1>0 DEF ExportsAreFixed, TransferIInv
  <2>7. RowFine(t, row)'
    <3>1. PackageFine(t, row)'
      BY <1>0, <1>2, <2>1, <2>5 DEF RowFine, PackageFine
    <3>2. PlaceFine(row)' /\ TaskFine(row)' /\ RightFine(row)' /\ PickFine(row)'
      BY <1>0, <2>5 DEF RowFine, PlaceFine, TaskFine, Matches, RightFine, PickFine
    <3>. QED BY <3>1, <3>2 DEF RowFine
  <2>. QED BY <2>2, <2>3, <2>4, <2>5, <2>6, <2>7, OneProceeds
<1>. QED BY <1>1, <1>2 DEF CommitsLate

(* A row is written only where there is none, and holds what was judged.   *)
LEMMA WritesTask ==
    ASSUME TransferIInv, NEW t \in Transfers, transfer[t].at = "create", ~HasTask(t),
           NEW p \in {"enqueue", "failed"}, Goes(t, p), RowWritten(t),
           WorldStays, StoreStays, UNCHANGED <<results, queued>>
    PROVE  TransferIInv'
<1>. USE DEF WorldStays, StoreStays, worldVars, storeVars
<1>. DEFINE kind == transfer[t].kind
            k    == transfer[t].key
            new  == [order |-> transfer[t].order, version |-> transfer[t].version,
                     revision |-> transfer[t].revision]
<1>0. /\ transfer[t] \in TransferRows /\ RowFine(t, transfer[t]) /\ TransferTypeOK
      /\ kind \in TaskKinds /\ k \in RequestKeys /\ transfer[t].version \in 1..MaxFormats
      /\ ~transfer[t].known
  <2>1. transfer[t] \in TransferRows /\ RowFine(t, transfer[t]) /\ TransferTypeOK
    BY RowKnown DEF TransferIInv
  <2>2. kind \in TaskKinds /\ transfer[t].version \in 1..MaxFormats /\ ~transfer[t].known
    BY <2>1 DEF RowFine, PlaceFine, TaskFine
  <2>. QED BY <2>1, <2>2 DEF TransferRows
<1>1. new \in Tasks /\ new # NoTask
  BY <1>0 DEF Tasks, NoTask, TransferRows
<1>2. /\ tasks \in [TaskKinds -> [RequestKeys -> Tasks \cup {NoTask}]]
      /\ tasks' = [tasks EXCEPT ![kind][k] = new]
      /\ tasks[kind][k] = NoTask
  BY <1>0 DEF TransferTypeOK, RowWritten, HasTask, TaskOf
<1>. HIDE DEF new
<1>3. /\ tasks' \in [TaskKinds -> [RequestKeys -> Tasks \cup {NoTask}]]
      /\ tasks'[kind][k] = new
      /\ \A other \in TaskKinds, n \in RequestKeys :
            other # kind \/ n # k => tasks'[other][n] = tasks[other][n]
  BY <1>0, <1>1, <1>2
<1>4. Onward /\ BytesFine' /\ \A s \in Transfers \ {t} : SameBytes(s)
  BY <1>0, <1>2, <1>3 DEF Onward, BytesFine, SameBytes, TransferIInv
<1>5. (transfer' \in [Transfers -> TransferRows]) => TransferTypeOK'
  BY <1>0, <1>3 DEF TransferTypeOK
<1>6. ExportsAreFixed'
  <2>1. CASE kind = "import"
    <3>1. \A n \in RequestKeys : tasks'["export"][n] = tasks["export"][n]
      BY <1>3, <2>1 DEF TaskKinds
    <3>. QED BY <3>1 DEF ExportsAreFixed, TransferIInv
  <2>2. CASE kind = "export"
    <3>1. \A n \in RequestKeys \ {k} : tasks'["export"][n] = tasks["export"][n]
      BY <1>3, <2>2 DEF TaskKinds
    <3>2. /\ new.order.pinned # 0 =>
                /\ new.revision = new.order.pinned
                /\ new.order.contest # 0 => new.revision = plans[new.order.contest]
          /\ new.order.contest # 0 =>
                \E n \in new.order.contest..Len(plans) : new.revision = plans[n]
      BY <1>0, <2>2 DEF RowFine, PickFine, new
    <3>3. tasks'["export"][k] = new
      BY <1>3, <2>2
    <3>. QED BY <3>1, <3>2, <3>3 DEF ExportsAreFixed, TransferIInv
  <2>. QED BY <1>0, <2>1, <2>2 DEF TaskKinds
<1>7. PICK row \in TransferRows : Proceeds(t, row) /\ row = [transfer[t] EXCEPT !.at = p] /\ row.at = p
  BY FailsWith DEF Places
<1>8. /\ row.kind = kind /\ row.key = k /\ row.order = transfer[t].order /\ ~row.known
      /\ row.grants = transfer[t].grants /\ row.deleted = transfer[t].deleted
      /\ row.revision = transfer[t].revision
  BY <1>0, <1>7 DEF TransferRows
<1>9. RowFine(t, row)'
  <2>1. PlaceFine(row)' /\ PackageFine(t, row)' /\ RightFine(row)'
    BY <1>0, <1>7, <1>8 DEF RowFine, PlaceFine, PackageFine, RightFine, TaskKinds
  <2>2. Matches(row)'
    BY <1>0, <1>1, <1>3, <1>8 DEF Matches, new
  <2>3. TaskFine(row)'
    BY <1>0, <1>7, <1>8, <2>2 DEF TaskFine, TaskKinds
  <2>4. PickFine(row)'
    BY <1>0, <1>7, <1>8 DEF RowFine, PickFine
  <2>. QED BY <2>1, <2>2, <2>3, <2>4 DEF RowFine
<1>. QED BY <1>4, <1>5, <1>6, <1>7, <1>9, OneProceeds

LEMMA Creates ==
    ASSUME TransferIInv, NEW t \in Transfers, CreateTask(t)
    PROVE  TransferIInv'
<1>0. /\ WorldStays /\ StoreStays /\ UNCHANGED <<results, queued>> /\ transfer[t].at = "create"
      /\ transfer[t].kind \in TaskKinds /\ ~transfer[t].known
  BY RowKnown DEF CreateTask, Stands, RowFine, PlaceFine, TaskFine
<1>1. CASE tasks' = tasks
  <2>0. TasksStay
    BY <1>0, <1>1 DEF TasksStay, rowVars
  <2>1. CASE Rejects(t, "key") \/ Rejects(t, "file")
    BY <1>0, <2>0, <2>1, Rejected DEF Reasons
  <2>2. CASE Fail(t)
    BY <1>0, <2>0, <2>2, Fails
  <2>3. CASE HasTask(t) /\ SameRequest(t) /\ Goes(t, "enqueue")
    <3>1. PICK row \in TransferRows : /\ Proceeds(t, row) /\ row = [transfer[t] EXCEPT !.at = "enqueue"]
                                     /\ row.at = "enqueue"
      BY <2>3, FailsWith DEF Places
    <3>2. PlaceFine(row) /\ PackageFine(t, row) /\ RightFine(row)
      BY <1>0, <3>1, RowKnown DEF RowFine, PlaceFine, PackageFine, RightFine, TransferRows, TaskKinds
    <3>3. TaskFine(row)
      BY <1>0, <2>3, <3>1, RowKnown DEF RowFine, TaskFine, Matches, TransferRows, TaskKinds,
         HasTask, SameRequest, TaskOf
    <3>4. PickFine(row)
      BY <1>0, <3>1, RowKnown DEF RowFine, PickFine, TransferRows
    <3>. QED BY <1>0, <2>0, <3>1, <3>2, <3>3, <3>4, OnlyProceeds DEF RowFine
  <2>4. CASE ~HasTask(t) /\ Goes(t, "enqueue") /\ RowWritten(t)
    BY <1>0, <2>4, WritesTask
  <2>. QED BY <2>1, <2>2, <2>3, <2>4 DEF CreateTask
<1>2. CASE ~HasTask(t) /\ (Goes(t, "enqueue") \/ Fail(t)) /\ RowWritten(t)
  BY <1>0, <1>2, WritesTask DEF Fail
<1>. QED BY <1>1, <1>2 DEF CreateTask

LEMMA Tells ==
    ASSUME TransferIInv, NEW t \in Transfers, TellQueue(t)
    PROVE  TransferIInv'
<1>. USE DEF WorldStays, StoreStays, TasksStay, worldVars, storeVars, rowVars
<1>0. /\ WorldStays /\ StoreStays /\ UNCHANGED <<tasks, results>> /\ transfer[t].at = "enqueue"
      /\ transfer[t] \in TransferRows /\ RowFine(t, transfer[t]) /\ TransferTypeOK
  BY RowKnown DEF TellQueue, Stands, TransferIInv
<1>1. CASE Fail(t) /\ queued' = queued
  BY <1>0, <1>1, Fails
<1>2. CASE queued' = queued \cup {<<transfer[t].kind, transfer[t].key>>}
  <2>1. PICK p \in {"ok", "failed"} : Goes(t, p)
    BY DEF TellQueue, Fail
  <2>2. PICK row \in TransferRows : Proceeds(t, row) /\ row = [transfer[t] EXCEPT !.at = p] /\ row.at = p
    BY <2>1, FailsWith DEF Places
  <2>3. /\ row.kind = transfer[t].kind /\ row.key = transfer[t].key /\ row.order = transfer[t].order
        /\ row.grants = transfer[t].grants /\ row.deleted = transfer[t].deleted
        /\ row.revision = transfer[t].revision /\ row.known = transfer[t].known
        /\ row.kind \in TaskKinds /\ row.key \in RequestKeys
    BY <1>0, <2>2 DEF TransferRows, RowFine, PlaceFine
  <2>4. (transfer' \in [Transfers -> TransferRows]) => TransferTypeOK'
    <3>1. queued' \subseteq TaskKinds \X RequestKeys
      BY <1>0, <1>2, <2>3 DEF TransferTypeOK
    <3>. QED BY <1>0, <3>1 DEF TransferTypeOK
  <2>5. Onward /\ BytesFine' /\ ExportsAreFixed' /\ \A s \in Transfers \ {t} : SameBytes(s)
    BY <1>0, <1>2 DEF Onward, BytesFine, ExportsAreFixed, SameBytes, TransferIInv
  <2>6. PlaceFine(row)' /\ PackageFine(t, row)' /\ RightFine(row)'
    BY <1>0, <2>2, <2>3 DEF RowFine, PlaceFine, PackageFine, RightFine, TaskKinds
  <2>7. Matches(row)' /\ <<row.kind, row.key>> \in queued'
    BY <1>0, <1>2, <2>3 DEF RowFine, TaskFine, Matches
  <2>8. TaskFine(row)'
    BY <1>0, <2>2, <2>3, <2>7 DEF TaskFine, TaskKinds
  <2>9. PickFine(row)'
    BY <1>0, <2>2, <2>3 DEF RowFine, PickFine
  <2>. QED BY <2>2, <2>4, <2>5, <2>6, <2>7, <2>8, <2>9, OneProceeds DEF RowFine
<1>. QED BY <1>1, <1>2 DEF TellQueue

(* Packages are whole, answers agree with tasks and queue, exports hold    *)
(* the revision that was asked for, revoked permissions hold and repeated  *)
(* requests recover, for any requests, keys and changes beside them.       *)
THEOREM TransfersAreSafe == TransferSpec => []TransferInv
<1>1. TransferInit => TransferIInv
  BY TransferStarts
<1>2. TransferIInv /\ [TransferNext]_transferVars => TransferIInv'
  <2>. SUFFICES ASSUME TransferIInv, [TransferNext]_transferVars PROVE TransferIInv'
    OBVIOUS
  <2>1. ASSUME NEW t \in Transfers, Handles(t) PROVE TransferIInv'
    BY <2>1, Begins, Publishes, SavesRow, LooksAfter, Drops, ReplaysImport, ReadsPackage, ReadsContest,
       ReadsFixed, ReplaysExport, ChecksAccess, Evaluates, Creates, Tells, Fetches DEF Handles
  <2>2. ASSUME NEW t \in Transfers, CommitsLate(t) PROVE TransferIInv'
    BY <2>2, Commits
  <2>3. CASE UNCHANGED transferVars
    <3>1. TransferTypeOK' /\ Onward /\ BytesFine' /\ transfer' = transfer /\ tasks' = tasks
      BY <2>3 DEF transferVars, worldVars, storeVars, rowVars, TransferIInv, TransferTypeOK, Onward, BytesFine
    <3>2. \A s \in Transfers : SameBytes(s)
      BY <2>3 DEF transferVars, storeVars, SameBytes
    <3>. QED BY <3>1, <3>2, AllStay
  <2>. QED BY <2>1, <2>2, <2>3, WorldMoves DEF TransferNext
<1>3. TransferIInv => TransferInv
  BY TransferFollows
<1>. QED BY <1>1, <1>2, <1>3, PTL DEF TransferSpec

=============================================================================
