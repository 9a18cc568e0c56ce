---------------------------- MODULE ReviewProofs ----------------------------
(***************************************************************************)
(* Proofs about ReviewRound and RobotReview.  Every transaction has one of *)
(* four effects on the problem and its rounds: it leaves status and round  *)
(* alone, opens the next round, ends the current one, or takes back a      *)
(* decided problem.  The lemmas show this for each transaction; the        *)
(* invariant and the action properties follow from the effects.  That      *)
(* decisions of the rule are justified needs, besides, what each           *)
(* transaction writes into the record of the round.                        *)
(***************************************************************************)
EXTENDS RobotReview, FiniteSetTheorems, SequenceTheorems, TLAPS

OpinionRows == [RoundNumbers -> [Reviewers -> [verdict : Verdicts, about : Contents]
                                              \cup {NoOpinion}]]

(* A request remembers the problem as it was: a revision names one content,*)
(* so whoever still sees the current revision sees the current problem.    *)
Sound(q) ==
    /\ q.seen \in Problems
    /\ q.seen.revision <= problem.revision
    /\ q.seen.revision = problem.revision /\ ~problem.deleted => q.seen = problem
    /\ q.rule \in Policies \cup {NoRule}
    /\ q.kind \in {"edit", "force"} => q.arg \in Contents
    /\ q.kind = "finalize" => q.arg \in {"approved", "rejected"}
    /\ q.kind = "external" => q.arg \in BOOLEAN
    /\ q.kind = "review" => q.who \in Humans /\ q.arg \in Verdicts

IInv ==
    /\ TypeOK
    /\ StatusMatchesRound
    /\ problem.status = "pending" => problem.round > 0
    /\ \A q \in requests : Sound(q)

-----------------------------------------------------------------------------
(* The effects.                                                            *)
Revised == problem' \in Problems /\ problem'.revision = problem.revision + 1

Untouched == problem' = problem /\ rounds' = rounds

Keeps ==
    /\ problem' \in Problems
    /\ problem'.revision = problem.revision + 1 \/ problem' = [problem EXCEPT !.deleted = TRUE]
    /\ problem'.status = problem.status /\ problem'.round = problem.round
    /\ rounds' = rounds

Opens ==
    /\ Revised
    /\ problem.status \in {"draft", "rejected"} /\ problem'.status = "pending"
    /\ problem'.round = problem.round + 1
    /\ \E new \in RoundRows : /\ new.state = "open"
                              /\ rounds' = [rounds EXCEPT ![problem.round + 1] = new]

Ends ==
    /\ Revised
    /\ problem.status = "pending" /\ problem'.status \in {"approved", "rejected", "draft"}
    /\ problem'.round = problem.round
    /\ \E new \in RoundRows : /\ new.state = EndFor(problem'.status)
                              /\ new.rule = rounds[problem.round].rule
                              /\ rounds' = [rounds EXCEPT ![problem.round] = new]

Leaves ==
    /\ Revised
    /\ problem.status \in {"approved", "rejected"} /\ problem'.status = "draft"
    /\ problem'.round = problem.round
    /\ rounds' = rounds

Effect == Untouched \/ Keeps \/ Opens \/ Ends \/ Leaves

(* What is left of an effect when the content of the problem is frozen.    *)
BasicKept == problem.status \in Frozen => problem'.basic = problem.basic

OpinionsKept ==
    \/ opinions' = opinions
    \/ /\ problem.status = "pending"
       /\ \E row \in [Reviewers -> [verdict : Verdicts, about : Contents] \cup {NoOpinion}] :
             opinions' = [opinions EXCEPT ![problem.round] = row]
-----------------------------------------------------------------------------
LEMMA InitIInv == ASSUME ReviewAssumption, Init PROVE IInv
  <1>0. 1 \in 1..MaxRevision /\ 0 \in 0..MaxRounds
    BY DEF ReviewAssumption
  <1>1. problem \in Problems /\ problem.status = "draft" /\ problem.round = 0
    BY <1>0 DEF Init, Problems
  <1>2. NoRound \in RoundRows /\ NoRound.state = "none"
    BY DEF NoRound, RoundRows
  <1>3. rounds \in [RoundNumbers -> RoundRows] /\ \A r \in RoundNumbers : rounds[r].state = "none"
    BY <1>2 DEF Init
  <1>4. opinions \in OpinionRows
    BY DEF Init, OpinionRows
  <1>5. TypeOK
    BY <1>1, <1>3, <1>4 DEF Init, TypeOK, OpinionRows, Reviewers
  <1>6. StatusMatchesRound
    BY <1>1, <1>3 DEF StatusMatchesRound, RoundNumbers
  <1>7. QED
    BY <1>1, <1>5, <1>6 DEF IInv, Init

(* Whoever composes a request now has seen the problem as it is.           *)
LEMMA ComposedSound ==
    ASSUME TypeOK, NEW q \in Composed
    PROVE  Sound(q)
  <1>1. problem \in Problems /\ policy \in Policies
    BY DEF TypeOK
  <1>2. q.seen = problem /\ q.rule \in Policies \cup {NoRule}
    BY <1>1 DEF Composed, Request
  <1>3. /\ q.kind \in {"edit", "force"} => q.arg \in Contents
        /\ q.kind = "finalize" => q.arg \in {"approved", "rejected"}
        /\ q.kind = "external" => q.arg \in BOOLEAN
        /\ q.kind = "review" => q.who \in Humans /\ q.arg \in Verdicts
    BY DEF Composed, Request
  <1>4. q.seen.revision <= problem.revision
    BY <1>1, <1>2 DEF Problems
  <1>5. QED
    BY <1>1, <1>2, <1>3, <1>4 DEF Sound

-----------------------------------------------------------------------------
(* The effect of each transaction.                                         *)
LEMMA EditEffect ==
    ASSUME ReviewAssumption, IInv, NEW q, Sound(q), Edit(q)
    PROVE  Keeps /\ BasicKept /\ OpinionsKept /\ forced' = forced
  <1> DEFINE next == [problem EXCEPT !.basic = q.arg, !.revision = problem.revision + 1]
  <1>1. problem \in Problems
    BY DEF IInv, TypeOK
  <1>2. q.seen = problem /\ q.arg \in Contents
    BY DEF Edit, Replace, Sound
  <1>3. problem.revision + 1 \in 1..MaxRevision
    BY <1>1, <1>2 DEF Edit, Replace, Problems, ReviewAssumption
  <1>4. next \in Problems
    BY <1>1, <1>2, <1>3 DEF Problems
  <1>5. /\ next.status = problem.status /\ next.round = problem.round
        /\ next.revision = problem.revision + 1 /\ next.basic = q.arg
    BY <1>1 DEF Problems
  <1>6. Replace(next, problem.revision, NoRound) /\ opinions' = opinions /\ forced' = forced
    BY <1>2 DEF Edit
  <1>7. problem.status \in Frozen => q.arg = problem.basic
    BY <1>2 DEF Edit
  <1> HIDE DEF next
  <1>8. problem' = next /\ rounds' = rounds
    BY <1>5, <1>6 DEF Replace, Closing
  <1>9. QED
    BY <1>4, <1>5, <1>6, <1>7, <1>8 DEF Keeps, BasicKept, OpinionsKept

LEMMA SubmitEffect ==
    ASSUME ReviewAssumption, IInv, NEW q, Sound(q), Submit(q)
    PROVE  Opens /\ BasicKept /\ OpinionsKept /\ forced' = forced
  <1> DEFINE next == [problem EXCEPT !.status = "pending", !.round = problem.round + 1, !.revision = problem.revision + 1]
  <1> DEFINE new  == [state |-> "open", rule |-> q.rule, source |-> "none", counted |-> {}]
  <1>1. problem \in Problems
    BY DEF IInv, TypeOK
  <1>2. q.seen = problem /\ q.rule \in Policies \cup {NoRule}
    BY DEF Submit, Replace, Sound
  <1>3. problem.status \in {"draft", "rejected"}
    BY <1>2 DEF Submit
  <1>4. Replace(next, problem.revision, new) /\ opinions' = opinions /\ forced' = forced
    BY <1>2 DEF Submit
  <1>5. /\ next.status = "pending" /\ next.round = problem.round + 1
        /\ next.revision = problem.revision + 1 /\ next.basic = problem.basic
    BY <1>1 DEF Problems
  <1>6. problem.revision + 1 \in 1..MaxRevision /\ problem.round + 1 \in 0..MaxRounds
    BY <1>1, <1>4, <1>5 DEF Replace, Problems, ReviewAssumption
  <1>7. next \in Problems
    BY <1>1, <1>6 DEF Problems
  <1>8. new \in RoundRows /\ new.state = "open"
    BY <1>2 DEF RoundRows
  <1> HIDE DEF next, new
  <1>9. problem.round \in Nat
    BY <1>1 DEF Problems, ReviewAssumption
  <1>10. problem' = next /\ rounds' = [rounds EXCEPT ![problem.round + 1] = new]
    BY <1>4, <1>5, <1>9 DEF Replace
  <1>11. QED
    BY <1>3, <1>4, <1>5, <1>7, <1>8, <1>10 DEF Opens, Revised, BasicKept, OpinionsKept, Frozen

LEMMA EditFrozenEffect ==
    ASSUME ReviewAssumption, IInv, NEW q, Sound(q), EditFrozen(q)
    PROVE  Keeps /\ OpinionsKept /\ forced' = forced + 1
  <1> DEFINE next == [problem EXCEPT !.basic = q.arg, !.revision = problem.revision + 1]
  <1>1. problem \in Problems /\ q.arg \in Contents
    BY DEF IInv, TypeOK, Sound, EditFrozen
  <1>2. Replace(next, problem.revision, NoRound) /\ opinions' = opinions /\ forced' = forced + 1
    BY DEF EditFrozen
  <1>3. /\ next.status = problem.status /\ next.round = problem.round
        /\ next.revision = problem.revision + 1
    BY <1>1 DEF Problems
  <1>4. problem.revision + 1 \in 1..MaxRevision
    BY <1>1, <1>2, <1>3 DEF Replace, Problems, ReviewAssumption
  <1>5. next \in Problems
    BY <1>1, <1>4 DEF Problems
  <1> HIDE DEF next
  <1>6. problem' = next /\ rounds' = rounds
    BY <1>2, <1>3 DEF Replace, Closing
  <1>7. QED
    BY <1>2, <1>3, <1>5, <1>6 DEF Keeps, OpinionsKept

LEMMA SetExternalEffect ==
    ASSUME ReviewAssumption, IInv, NEW q, Sound(q), SetExternal(q)
    PROVE  Keeps /\ BasicKept /\ OpinionsKept /\ forced' = forced
  <1> DEFINE next == [problem EXCEPT !.external = q.arg, !.revision = problem.revision + 1]
  <1>1. problem \in Problems /\ q.arg \in BOOLEAN
    BY DEF IInv, TypeOK, Sound, SetExternal
  <1>2. Replace(next, problem.revision, NoRound) /\ opinions' = opinions /\ forced' = forced
    BY DEF SetExternal
  <1>3. /\ next.status = problem.status /\ next.round = problem.round
        /\ next.revision = problem.revision + 1 /\ next.basic = problem.basic
    BY <1>1 DEF Problems
  <1>4. problem.revision + 1 \in 1..MaxRevision
    BY <1>1, <1>2, <1>3 DEF Replace, Problems, ReviewAssumption
  <1>5. next \in Problems
    BY <1>1, <1>4 DEF Problems
  <1> HIDE DEF next
  <1>6. problem' = next /\ rounds' = rounds
    BY <1>2, <1>3 DEF Replace, Closing
  <1>7. QED
    BY <1>2, <1>3, <1>5, <1>6 DEF Keeps, BasicKept, OpinionsKept

(* The record of a round that ends is a record of a round.                 *)
LEMMA EndedIsRow ==
    ASSUME ReviewAssumption, IInv, problem.round \in RoundNumbers,
           NEW state \in {"approved", "rejected", "withdrawn"},
           NEW source \in {"rule", "manual", "withdrawal"}, NEW counted \in SUBSET Reviewers
    PROVE  /\ Ended(state, source, counted) \in RoundRows
           /\ Ended(state, source, counted).state = state
           /\ Ended(state, source, counted).rule = rounds[problem.round].rule
  <1>1. rounds[problem.round] \in RoundRows
    BY DEF IInv, TypeOK
  <1>2. QED
    BY <1>1 DEF Ended, RoundRows

LEMMA CountedAreReviewers ==
    ASSUME IInv
    PROVE  /\ Counted \in SUBSET Reviewers
           /\ \A rule, given : Usable(rule, given) \in SUBSET Reviewers
  <1>1. mayReview \subseteq Reviewers
    BY DEF IInv, TypeOK
  <1>2. QED
    BY <1>1 DEF Counted, Usable

LEMMA PendingRound ==
    ASSUME ReviewAssumption, IInv, problem.status = "pending"
    PROVE  problem.round \in RoundNumbers
  BY DEF IInv, TypeOK, Problems, RoundNumbers, ReviewAssumption

LEMMA WithdrawEffect ==
    ASSUME ReviewAssumption, IInv, NEW q, Sound(q), Withdraw(q)
    PROVE  (Ends \/ Leaves) /\ BasicKept /\ OpinionsKept /\ forced' = forced
  <1> DEFINE next == [problem EXCEPT !.status = "draft", !.revision = problem.revision + 1]
  <1> DEFINE new  == Ended("withdrawn", "withdrawal", Counted)
  <1>1. problem \in Problems /\ problem.status \in {"pending", "approved", "rejected"}
    BY DEF IInv, TypeOK, Withdraw
  <1>2. Replace(next, problem.revision, new) /\ opinions' = opinions /\ forced' = forced
    BY DEF Withdraw
  <1>3. /\ next.status = "draft" /\ next.round = problem.round
        /\ next.revision = problem.revision + 1 /\ next.basic = problem.basic
    BY <1>1 DEF Problems
  <1>4. problem.revision + 1 \in 1..MaxRevision
    BY <1>1, <1>2, <1>3 DEF Replace, Problems, ReviewAssumption
  <1>5. next \in Problems
    BY <1>1, <1>4 DEF Problems
  <1>6. problem.status = "pending" => /\ new \in RoundRows /\ new.state = EndFor("draft")
                                      /\ new.rule = rounds[problem.round].rule
    BY PendingRound, EndedIsRow, CountedAreReviewers DEF EndFor
  <1> HIDE DEF next, new
  <1>7. problem' = next
    BY <1>2 DEF Replace
  <1>8. CASE problem.status = "pending"
    <2>1. rounds' = [rounds EXCEPT ![problem.round] = new]
      BY <1>2, <1>3, <1>8 DEF Replace, Closing
    <2>2. QED
      BY <2>1, <1>2, <1>3, <1>5, <1>6, <1>7, <1>8 DEF Ends, Revised, BasicKept, OpinionsKept
  <1>9. CASE problem.status # "pending"
    <2>1. rounds' = rounds
      BY <1>2, <1>3, <1>9 DEF Replace, Closing
    <2>2. QED
      BY <2>1, <1>1, <1>2, <1>3, <1>5, <1>7, <1>9 DEF Leaves, Revised, BasicKept, OpinionsKept
  <1>10. QED
    BY <1>8, <1>9

LEMMA FinalizeEffect ==
    ASSUME ReviewAssumption, IInv, NEW q, Sound(q), Finalize(q)
    PROVE  Ends /\ BasicKept /\ OpinionsKept /\ forced' = forced
  <1> DEFINE next == [problem EXCEPT !.status = q.arg, !.revision = problem.revision + 1]
  <1> DEFINE new  == Ended(q.arg, "manual", Counted)
  <1>1. problem \in Problems /\ problem.status = "pending" /\ q.arg \in {"approved", "rejected"}
    BY DEF IInv, TypeOK, Finalize, Sound
  <1>2. Replace(next, problem.revision, new) /\ opinions' = opinions /\ forced' = forced
    BY DEF Finalize
  <1>3. /\ next.status = q.arg /\ next.round = problem.round
        /\ next.revision = problem.revision + 1 /\ next.basic = problem.basic
    BY <1>1 DEF Problems
  <1>4. problem.revision + 1 \in 1..MaxRevision
    BY <1>1, <1>2, <1>3 DEF Replace, Problems, ReviewAssumption
  <1>5. next \in Problems
    BY <1>1, <1>4 DEF Problems
  <1>6. /\ new \in RoundRows /\ new.state = EndFor(q.arg)
        /\ new.rule = rounds[problem.round].rule
    BY <1>1, PendingRound, EndedIsRow, CountedAreReviewers DEF EndFor
  <1> HIDE DEF next, new
  <1>7. problem' = next /\ rounds' = [rounds EXCEPT ![problem.round] = new]
    BY <1>1, <1>2, <1>3 DEF Replace, Closing
  <1>8. QED
    BY <1>1, <1>2, <1>3, <1>5, <1>6, <1>7 DEF Ends, Revised, BasicKept, OpinionsKept

LEMMA ApplyEffect ==
    ASSUME ReviewAssumption, IInv, NEW q, Sound(q), Apply(q)
    PROVE  Keeps /\ BasicKept /\ OpinionsKept /\ forced' = forced
  <1> DEFINE next == [problem EXCEPT !.revision = problem.revision + 1]
  <1>1. problem \in Problems
    BY DEF IInv, TypeOK
  <1>2. Replace(next, problem.revision, NoRound) /\ opinions' = opinions /\ forced' = forced
    BY DEF Apply
  <1>3. /\ next.status = problem.status /\ next.round = problem.round
        /\ next.revision = problem.revision + 1 /\ next.basic = problem.basic
    BY <1>1 DEF Problems
  <1>4. problem.revision + 1 \in 1..MaxRevision
    BY <1>1, <1>2, <1>3 DEF Replace, Problems, ReviewAssumption
  <1>5. next \in Problems
    BY <1>1, <1>4 DEF Problems
  <1> HIDE DEF next
  <1>6. problem' = next /\ rounds' = rounds
    BY <1>2, <1>3 DEF Replace, Closing
  <1>7. QED
    BY <1>2, <1>3, <1>5, <1>6 DEF Keeps, BasicKept, OpinionsKept

LEMMA DeleteEffect ==
    ASSUME ReviewAssumption, IInv, NEW q, Sound(q), Delete(q)
    PROVE  Keeps /\ BasicKept /\ OpinionsKept /\ forced' = forced
  <1>1. problem \in Problems
    BY DEF IInv, TypeOK
  <1>2. /\ problem' = [problem EXCEPT !.deleted = TRUE]
        /\ rounds' = rounds /\ opinions' = opinions /\ forced' = forced
    BY DEF Delete
  <1>3. /\ problem' \in Problems /\ problem'.status = problem.status
        /\ problem'.round = problem.round /\ problem'.basic = problem.basic
    BY <1>1, <1>2 DEF Problems
  <1>4. QED
    BY <1>2, <1>3 DEF Keeps, BasicKept, OpinionsKept

LEMMA OpineEffect ==
    ASSUME ReviewAssumption, IInv,
           NEW u \in Reviewers, NEW verdict \in Verdicts, NEW about \in Contents,
           Opine(u, verdict, about)
    PROVE  (Untouched \/ Ends) /\ BasicKept /\ OpinionsKept /\ forced' = forced
  <1> DEFINE rule    == rounds[problem.round].rule
  <1> DEFINE given   == opinions'[problem.round]
  <1> DEFINE outcome == Evaluate(rule, given)
  <1> DEFINE next    == [problem EXCEPT !.status = outcome, !.revision = problem.revision + 1]
  <1> DEFINE new     == Ended(outcome, "rule", Usable(rule, given))
  <1>1. problem \in Problems /\ problem.status = "pending" /\ forced' = forced
    BY DEF IInv, TypeOK, Opine
  <1>2. problem.round \in RoundNumbers
    BY <1>1, PendingRound
  <1>3. OpinionsKept
    <2> DEFINE opinion == [verdict |-> verdict, about |-> about]
    <2>1. opinions \in OpinionRows
      BY DEF IInv, TypeOK, OpinionRows
    <2>2. opinions' = [opinions EXCEPT ![problem.round][u] = opinion]
      BY DEF Opine
    <2>3. opinion \in [verdict : Verdicts, about : Contents]
      OBVIOUS
    <2> HIDE DEF opinion
    <2>4. [opinions[problem.round] EXCEPT ![u] = opinion]
            \in [Reviewers -> [verdict : Verdicts, about : Contents] \cup {NoOpinion}]
      BY <1>2, <2>1, <2>3 DEF OpinionRows
    <2>5. opinions' = [opinions EXCEPT ![problem.round] = [opinions[problem.round] EXCEPT ![u] = opinion]]
      BY <2>2
    <2>6. QED
      BY <1>1, <2>4, <2>5 DEF OpinionsKept
  <1>4. outcome \in {"approved", "rejected", "pending"}
    BY DEF Evaluate
  <1>5. CASE outcome = "pending"
    BY <1>1, <1>3, <1>5 DEF Opine, Untouched, BasicKept
  <1>6. CASE outcome # "pending"
    <2>1. Replace(next, problem.revision, new)
      BY <1>6 DEF Opine
    <2>2. /\ next.status = outcome /\ next.round = problem.round
          /\ next.revision = problem.revision + 1 /\ next.basic = problem.basic
      BY <1>1 DEF Problems
    <2>3. problem.revision + 1 \in 1..MaxRevision
      BY <1>1, <2>1, <2>2 DEF Replace, Problems, ReviewAssumption
    <2>4. next \in Problems
      BY <1>1, <1>4, <1>6, <2>3 DEF Problems
    <2>5. Usable(rule, given) \in SUBSET Reviewers
      BY CountedAreReviewers
    <2>6. /\ new \in RoundRows /\ new.state = EndFor(outcome)
          /\ new.rule = rounds[problem.round].rule
      BY <1>2, <1>4, <1>6, <2>5, EndedIsRow DEF EndFor
    <2> HIDE DEF next, new, outcome
    <2>7. problem' = next /\ rounds' = [rounds EXCEPT ![problem.round] = new]
      BY <1>1, <1>6, <2>1, <2>2 DEF Replace, Closing
    <2>8. QED
      BY <1>1, <1>3, <1>4, <1>6, <2>2, <2>4, <2>6, <2>7 DEF Ends, Revised, BasicKept
  <1>7. QED
    BY <1>5, <1>6

LEMMA RetagEffect ==
    ASSUME ReviewAssumption, IInv, Retag
    PROVE  Keeps /\ BasicKept /\ OpinionsKept /\ forced' = forced
  <1>1. problem \in Problems /\ problem.revision + 1 \in 1..MaxRevision
    BY DEF IInv, TypeOK, Retag, Problems, ReviewAssumption
  <1>2. problem' = [problem EXCEPT !.revision = problem.revision + 1]
    BY DEF Retag
  <1>3. /\ problem' \in Problems /\ problem'.status = problem.status
        /\ problem'.round = problem.round /\ problem'.basic = problem.basic
        /\ problem'.revision = problem.revision + 1
    BY <1>1, <1>2 DEF Problems
  <1>4. QED
    BY <1>3 DEF Retag, Keeps, BasicKept, OpinionsKept

LEMMA WriteEffect ==
    ASSUME ReviewAssumption, IInv, NEW q, Sound(q), Write(q)
    PROVE  /\ Effect /\ OpinionsKept
           /\ (forced' = forced /\ BasicKept) \/ forced' = forced + 1
  <1>1. CASE Edit(q)
    BY <1>1, EditEffect DEF Effect
  <1>2. CASE Submit(q)
    BY <1>2, SubmitEffect DEF Effect
  <1>3. CASE EditFrozen(q)
    BY <1>3, EditFrozenEffect DEF Effect
  <1>4. CASE SetExternal(q)
    BY <1>4, SetExternalEffect DEF Effect
  <1>5. CASE Withdraw(q)
    BY <1>5, WithdrawEffect DEF Effect
  <1>6. CASE Finalize(q)
    BY <1>6, FinalizeEffect DEF Effect
  <1>7. CASE Apply(q)
    BY <1>7, ApplyEffect DEF Effect
  <1>8. CASE Delete(q)
    BY <1>8, DeleteEffect DEF Effect
  <1>9. CASE Review(q)
    <2>1. q.who \in Reviewers /\ q.arg \in Verdicts /\ q.seen.basic \in Contents
      BY <1>9 DEF Review, Sound, Problems, Reviewers
    <2>2. Opine(q.who, q.arg, q.seen.basic)
      BY <1>9 DEF Review
    <2>3. QED
      BY <2>1, <2>2, OpineEffect DEF Effect
  <1>10. QED
    BY <1>1, <1>2, <1>3, <1>4, <1>5, <1>6, <1>7, <1>8, <1>9 DEF Write

(* What every step does: one effect on the problem and its rounds, at most *)
(* one opinion row, sound requests, and the administration kept in type.   *)
LEMMA StepEffect ==
    ASSUME ReviewAssumption, IInv, [Next]_vars
    PROVE  /\ Effect /\ OpinionsKept
           /\ (forced' = forced /\ BasicKept) \/ forced' = forced + 1
           /\ \A q \in requests' : Sound(q)
           /\ policy' \in Policies /\ ruleUp' \in BOOLEAN /\ mayReview' \subseteq Reviewers
  <1>1. TypeOK /\ \A q \in requests : Sound(q)
    BY DEF IInv
  <1>2. policy \in Policies /\ ruleUp \in BOOLEAN /\ mayReview \subseteq Reviewers
    BY <1>1 DEF TypeOK
  <1>3. ASSUME NEW q \in Composed, Direct(q) \/ Ask(q)
        PROVE  /\ Effect /\ OpinionsKept
               /\ (forced' = forced /\ BasicKept) \/ forced' = forced + 1
               /\ \A x \in requests' : Sound(x)
               /\ UNCHANGED envVars
    <2>1. Sound(q)
      BY <1>1, ComposedSound
    <2>2. CASE Direct(q)
      <3>1. Write(q) /\ UNCHANGED <<envVars, requests>>
        BY <2>2 DEF Direct
      <3>2. QED
        BY <1>1, <2>1, <3>1, WriteEffect
    <2>3. CASE Ask(q)
      BY <1>1, <2>1, <2>3 DEF Ask, Effect, Untouched, BasicKept, OpinionsKept
    <2>4. QED
      BY <1>3, <2>2, <2>3
  <1>4. ASSUME NEW q \in requests, Serve(q) \/ Refuse(q)
        PROVE  /\ Effect /\ OpinionsKept
               /\ (forced' = forced /\ BasicKept) \/ forced' = forced + 1
               /\ \A x \in requests' : Sound(x)
               /\ UNCHANGED envVars
    <2>1. CASE Serve(q)
      <3>1. Write(q) /\ requests' = requests \ {q} /\ UNCHANGED envVars
        BY <2>1 DEF Serve
      <3>2. QED
        BY <1>1, <3>1, WriteEffect
    <2>2. CASE Refuse(q)
      BY <1>1, <2>2 DEF Refuse, Effect, Untouched, BasicKept, OpinionsKept
    <2>3. QED
      BY <1>4, <2>1, <2>2
  <1>5. ASSUME NEW p \in Policies, SetPolicy(p)
        PROVE  /\ Untouched /\ opinions' = opinions /\ forced' = forced /\ requests' = requests
               /\ policy' \in Policies /\ ruleUp' = ruleUp /\ mayReview' = mayReview
    BY <1>5 DEF SetPolicy, Untouched
  <1>6. ASSUME NEW u \in Reviewers, SetReviewer(u)
        PROVE  /\ Untouched /\ opinions' = opinions /\ forced' = forced /\ requests' = requests
               /\ policy' = policy /\ ruleUp' = ruleUp /\ mayReview' \subseteq Reviewers
    BY <1>2, <1>6 DEF SetReviewer, Untouched
  <1>7. ASSUME TogglePlugin
        PROVE  /\ Untouched /\ opinions' = opinions /\ forced' = forced /\ requests' = requests
               /\ policy' = policy /\ ruleUp' \in BOOLEAN /\ mayReview' = mayReview
    BY <1>2, <1>7 DEF TogglePlugin, Untouched
  <1>8. ASSUME Retag
        PROVE  /\ Effect /\ OpinionsKept /\ forced' = forced /\ BasicKept
               /\ requests' = requests /\ UNCHANGED envVars
    BY <1>8, RetagEffect DEF Effect, Retag
  <1>9. ASSUME UNCHANGED vars
        PROVE  /\ Untouched /\ opinions' = opinions /\ forced' = forced /\ requests' = requests
               /\ UNCHANGED envVars
    BY <1>9 DEF vars, envVars, Untouched
  <1>10. Untouched => BasicKept
    BY DEF Untouched, BasicKept
  <1>11. CASE Activity
    <2>1. CASE \E q \in Composed : Direct(q) \/ Ask(q)
      BY <1>2, <1>3, <2>1 DEF envVars
    <2>2. CASE \E q \in requests : Serve(q) \/ Refuse(q)
      BY <1>2, <1>4, <2>2 DEF envVars
    <2>3. CASE \E p \in Policies : SetPolicy(p)
      BY <1>1, <1>2, <1>5, <1>10, <2>3 DEF Effect, OpinionsKept
    <2>4. CASE \E u \in Reviewers : SetReviewer(u)
      BY <1>1, <1>2, <1>6, <1>10, <2>4 DEF Effect, OpinionsKept
    <2>5. CASE TogglePlugin
      BY <1>1, <1>2, <1>7, <1>10, <2>5 DEF Effect, OpinionsKept
    <2>6. QED
      BY <1>11, <2>1, <2>2, <2>3, <2>4, <2>5 DEF Activity
  <1>12. CASE Retag
    BY <1>1, <1>2, <1>8, <1>12 DEF envVars
  <1>13. CASE UNCHANGED vars
    BY <1>1, <1>2, <1>9, <1>10, <1>13 DEF envVars, Effect, OpinionsKept
  <1>14. QED
    BY <1>11, <1>12, <1>13 DEF Next

-----------------------------------------------------------------------------
(* The effects preserve the invariant.                                     *)
LEMMA EffectKeepsTypes ==
    ASSUME ReviewAssumption, IInv, Effect
    PROVE  problem' \in Problems /\ rounds' \in [RoundNumbers -> RoundRows]
  <1>1. problem \in Problems /\ rounds \in [RoundNumbers -> RoundRows]
    BY DEF IInv, TypeOK
  <1>2. CASE Untouched \/ Keeps \/ Leaves
    BY <1>1, <1>2 DEF Untouched, Keeps, Leaves, Revised
  <1>3. CASE Opens
    BY <1>1, <1>3 DEF Opens, Revised
  <1>4. CASE Ends
    BY <1>1, <1>4 DEF Ends, Revised
  <1>5. QED
    BY <1>2, <1>3, <1>4 DEF Effect

LEMMA EffectKeepsStory ==
    ASSUME ReviewAssumption, IInv, Effect
    PROVE  StatusMatchesRound' /\ (problem.status = "pending" => problem.round > 0)'
  <1>1. problem \in Problems /\ rounds \in [RoundNumbers -> RoundRows]
    BY DEF IInv, TypeOK
  <1>2. StatusMatchesRound /\ (problem.status = "pending" => problem.round > 0)
    BY DEF IInv
  <1>3. problem' \in Problems
    BY EffectKeepsTypes
  <1>4. problem.round \in 0..MaxRounds /\ problem'.round \in 0..MaxRounds /\ MaxRounds \in Nat
    BY <1>1, <1>3 DEF Problems, ReviewAssumption
  <1>5. CASE Untouched \/ Keeps
    BY <1>2, <1>5 DEF Untouched, Keeps, StatusMatchesRound
  <1>6. CASE Opens
    <2>1. PICK new \in RoundRows : /\ new.state = "open"
                                   /\ rounds' = [rounds EXCEPT ![problem.round + 1] = new]
      BY <1>6 DEF Opens
    <2>2. /\ problem.status \in {"draft", "rejected"} /\ problem'.status = "pending"
          /\ problem'.round = problem.round + 1
      BY <1>6 DEF Opens
    <2>3. problem.round + 1 \in RoundNumbers
      BY <1>4, <2>2 DEF RoundNumbers
    <2>4. \A r \in RoundNumbers :
            rounds'[r].state = IF r = problem.round + 1 THEN "open" ELSE rounds[r].state
      BY <1>1, <2>1, <2>3
    <2>5. QED
      BY <1>2, <1>4, <2>2, <2>3, <2>4 DEF StatusMatchesRound, RoundNumbers
  <1>7. CASE Ends
    <2>1. PICK new \in RoundRows : /\ new.state = EndFor(problem'.status)
                                   /\ rounds' = [rounds EXCEPT ![problem.round] = new]
      BY <1>7 DEF Ends
    <2>2. /\ problem.status = "pending" /\ problem'.status \in {"approved", "rejected", "draft"}
          /\ problem'.round = problem.round
      BY <1>7 DEF Ends
    <2>3. problem.round \in RoundNumbers
      BY <2>2, PendingRound
    <2>4. new.state \notin {"none", "open"}
          /\ (problem'.status \in {"approved", "rejected"} => new.state = problem'.status)
      BY <2>1, <2>2 DEF EndFor
    <2>5. \A r \in RoundNumbers :
            rounds'[r].state = IF r = problem.round THEN new.state ELSE rounds[r].state
      BY <1>1, <2>1, <2>3
    <2>6. QED
      BY <1>2, <1>4, <2>2, <2>3, <2>4, <2>5 DEF StatusMatchesRound, RoundNumbers
  <1>8. CASE Leaves
    <2>1. /\ problem.status \in {"approved", "rejected"} /\ problem'.status = "draft"
          /\ problem'.round = problem.round /\ rounds' = rounds
      BY <1>8 DEF Leaves
    <2>2. QED
      BY <1>2, <2>1 DEF StatusMatchesRound
  <1>9. QED
    BY <1>5, <1>6, <1>7, <1>8 DEF Effect

LEMMA EffectKeepsSound ==
    ASSUME ReviewAssumption, IInv, Effect, NEW q, Sound(q)
    PROVE  Sound(q)'
  <1>1. problem \in Problems
    BY DEF IInv, TypeOK
  <1>2. q.seen \in Problems
    BY DEF Sound
  <1>3. problem.revision \in Nat /\ q.seen.revision \in Nat
    BY <1>1, <1>2 DEF Problems
  <1>4. CASE problem' = problem
    BY <1>4 DEF Sound
  <1>5. CASE problem' = [problem EXCEPT !.deleted = TRUE]
    <2>1. problem'.deleted = TRUE /\ problem'.revision = problem.revision
      BY <1>1, <1>5 DEF Problems
    <2>2. QED
      BY <2>1 DEF Sound
  <1>6. CASE problem'.revision = problem.revision + 1
    BY <1>3, <1>6 DEF Sound
  <1>7. QED
    BY <1>4, <1>5, <1>6 DEF Effect, Untouched, Keeps, Opens, Ends, Leaves, Revised

LEMMA EffectKeepsIInv ==
    ASSUME ReviewAssumption, IInv, Effect, OpinionsKept, forced' = forced \/ forced' = forced + 1,
           policy' \in Policies, ruleUp' \in BOOLEAN, mayReview' \subseteq Reviewers,
           \A q \in requests' : Sound(q)
    PROVE  IInv'
  <1>1. problem' \in Problems /\ rounds' \in [RoundNumbers -> RoundRows]
    BY EffectKeepsTypes
  <1>2. opinions' \in OpinionRows
    <2>1. opinions \in OpinionRows
      BY DEF IInv, TypeOK, OpinionRows
    <2>2. CASE opinions' = opinions
      BY <2>1, <2>2
    <2>3. CASE opinions' # opinions
      <3>1. PICK row \in [Reviewers -> [verdict : Verdicts, about : Contents] \cup {NoOpinion}] :
                   opinions' = [opinions EXCEPT ![problem.round] = row]
        BY <2>3 DEF OpinionsKept
      <3>2. QED
        BY <2>1, <3>1 DEF OpinionRows
    <2>4. QED
      BY <2>2, <2>3
  <1>3. \A q \in requests' : Sound(q)'
    BY EffectKeepsSound
  <1>4. TypeOK'
    <2>1. forced' \in Nat
      BY DEF IInv, TypeOK
    <2>2. \A q \in requests' : q.seen \in Problems /\ q.rule \in Policies \cup {NoRule}
      BY DEF Sound
    <2>3. QED
      BY <1>1, <1>2, <2>1, <2>2 DEF TypeOK, OpinionRows
  <1>5. QED
    BY <1>3, <1>4, EffectKeepsStory DEF IInv

LEMMA StepKeepsIInv == ASSUME ReviewAssumption, IInv, [Next]_vars PROVE IInv'
  <1>1. /\ Effect /\ OpinionsKept
        /\ policy' \in Policies /\ ruleUp' \in BOOLEAN /\ mayReview' \subseteq Reviewers
        /\ \A q \in requests' : Sound(q)
        /\ forced' = forced \/ forced' = forced + 1
    BY StepEffect
  <1>2. QED
    BY <1>1, EffectKeepsIInv

LEMMA EffectKeepsClosed ==
    ASSUME ReviewAssumption, IInv, Effect, OpinionsKept, NEW r \in RoundNumbers
    PROVE  /\ rounds[r].state \notin {"none", "open"}
                => rounds'[r] = rounds[r] /\ opinions'[r] = opinions[r]
           /\ rounds[r].state = "open" => rounds'[r].rule = rounds[r].rule
  <1>1. problem \in Problems /\ rounds \in [RoundNumbers -> RoundRows] /\ opinions \in OpinionRows
    BY DEF IInv, TypeOK, OpinionRows
  <1>2. StatusMatchesRound
    BY DEF IInv
  <1>3. problem.round \in Nat /\ r \in Nat
    BY <1>1 DEF Problems, RoundNumbers, ReviewAssumption
  <1>4. rounds[r].state # "none" => r # problem.round + 1
    BY <1>2, <1>3 DEF StatusMatchesRound
  <1>5. problem.status = "pending" /\ r = problem.round => rounds[r].state = "open"
    BY <1>2 DEF StatusMatchesRound
  <1>6. rounds[r].state \notin {"none", "open"} => opinions'[r] = opinions[r]
    <2>1. CASE opinions' = opinions
      BY <2>1
    <2>2. CASE opinions' # opinions
      <3>1. problem.status = "pending"
        BY <2>2 DEF OpinionsKept
      <3>2. PICK row \in [Reviewers -> [verdict : Verdicts, about : Contents] \cup {NoOpinion}] :
                   opinions' = [opinions EXCEPT ![problem.round] = row]
        BY <2>2 DEF OpinionsKept
      <3>3. QED
        BY <1>1, <1>5, <3>1, <3>2 DEF OpinionRows
    <2>3. QED
      BY <2>1, <2>2
  <1>7. CASE Untouched \/ Keeps \/ Leaves
    BY <1>6, <1>7 DEF Untouched, Keeps, Leaves
  <1>8. CASE Opens
    BY <1>1, <1>4, <1>6, <1>8 DEF Opens
  <1>9. CASE Ends
    <2>1. problem.status = "pending"
      BY <1>9 DEF Ends
    <2>2. PICK new \in RoundRows : /\ new.rule = rounds[problem.round].rule
                                   /\ rounds' = [rounds EXCEPT ![problem.round] = new]
      BY <1>9 DEF Ends
    <2>3. QED
      BY <1>1, <1>5, <1>6, <2>1, <2>2
  <1>10. QED
    BY <1>7, <1>8, <1>9 DEF Effect

LEMMA EffectMovesLegally ==
    ASSUME ReviewAssumption, IInv, Effect
    PROVE  /\ problem'.round # problem.round
                => /\ problem'.round = problem.round + 1
                   /\ problem.status \in {"draft", "rejected"} /\ problem'.status = "pending"
           /\ problem'.status # problem.status
                => /\ problem'.revision = problem.revision + 1
                   /\ <<problem.status, problem'.status>> \in
                          {<<"draft", "pending">>, <<"rejected", "pending">>,
                           <<"pending", "approved">>, <<"pending", "rejected">>,
                           <<"pending", "draft">>, <<"approved", "draft">>, <<"rejected", "draft">>}
  <1>1. CASE Untouched \/ Keeps
    BY <1>1 DEF Untouched, Keeps
  <1>2. CASE Opens
    BY <1>2 DEF Opens, Revised
  <1>3. CASE Ends
    BY <1>3 DEF Ends, Revised
  <1>4. CASE Leaves
    BY <1>4 DEF Leaves, Revised
  <1>5. QED
    BY <1>1, <1>2, <1>3, <1>4 DEF Effect
-----------------------------------------------------------------------------
(* The record of one round is justified by the opinions given in it.       *)
Justified(row, given) ==
    row.source = "rule" =>
        LET approves == Cardinality(Voting(row.counted, given, "approve"))
            rejects  == Cardinality(Voting(row.counted, given, "reject"))
        IN  /\ row.state = "approved"
                 => approves >= row.rule.approvals /\ rejects <= row.rule.rejections
            /\ row.state = "rejected" => rejects > row.rule.rejections
            /\ ~row.rule.robots => row.counted \cap Robots = {}
            /\ \A u \in row.counted : given[u] # NoOpinion

(* A decision of the rule is justified and the round it ended is over.     *)
Decisions ==
    \A r \in RoundNumbers :
        /\ Justified(rounds[r], opinions[r])
        /\ rounds[r].source = "rule" => rounds[r].state \notin {"none", "open"}

JInv == IInv /\ Decisions

(* The record a step writes names the rule as its source only when it is   *)
(* justified.                                                              *)
Decides ==
    \A r \in RoundNumbers :
        \/ rounds'[r] = rounds[r] \/ rounds'[r].source # "rule"
        \/ /\ rounds'[r].state \in {"approved", "rejected"}
           /\ Justified(rounds'[r], opinions'[r])

LEMMA UsableIsJustified ==
    ASSUME ReviewAssumption, IInv, NEW rule \in Policies \cup {NoRule}, NEW given,
           NEW outcome \in {"approved", "rejected"}, outcome = Evaluate(rule, given),
           NEW row, row.state = outcome, row.rule = rule, row.counted = Usable(rule, given)
    PROVE  Justified(row, given)
<1>. DEFINE used == Usable(rule, given)
<1>1. IsFiniteSet(used)
  <2>1. used \subseteq Reviewers
    BY CountedAreReviewers
  <2>2. IsFiniteSet(Reviewers)
    BY DEF ReviewAssumption
  <2>. HIDE DEF used
  <2>. QED BY <2>1, <2>2, FS_Subset
<1>2. \A v : Cardinality(Voting(used, given, v)) \in Nat
  <2>. SUFFICES ASSUME NEW v PROVE Cardinality(Voting(used, given, v)) \in Nat
    OBVIOUS
  <2>1. Voting(used, given, v) \subseteq used
    BY DEF Voting
  <2>. HIDE DEF used
  <2>2. IsFiniteSet(Voting(used, given, v))
    BY <1>1, <2>1, FS_Subset
  <2>. QED BY <2>2, FS_CardinalityType
<1>3. rule.rejections \in Nat /\ rule.approvals \in Nat
  BY DEF ReviewAssumption, Rules, NoRule
<1>4. /\ outcome = "rejected" => Cardinality(Voting(used, given, "reject")) > rule.rejections
      /\ outcome = "approved" => /\ ~(Cardinality(Voting(used, given, "reject")) > rule.rejections)
                                 /\ Cardinality(Voting(used, given, "approve")) >= rule.approvals
  BY DEF Evaluate
<1>5. ~rule.robots => used \cap Robots = {}
  BY DEF Usable
<1>6. \A u \in used : given[u] # NoOpinion
  BY DEF Usable, NoOpinion
<1>. HIDE DEF used
<1>7. row.counted = used
  BY DEF used
<1>. QED BY <1>2, <1>3, <1>4, <1>5, <1>6, <1>7 DEF Justified

LEMMA OpineDecides ==
    ASSUME ReviewAssumption, IInv, NEW u, NEW verdict, NEW about, Opine(u, verdict, about)
    PROVE  Decides
<1>. DEFINE rule    == rounds[problem.round].rule
<1>. DEFINE given   == opinions'[problem.round]
<1>. DEFINE outcome == Evaluate(rule, given)
<1>. DEFINE next    == [problem EXCEPT !.status = outcome, !.revision = problem.revision + 1]
<1>. DEFINE new     == Ended(outcome, "rule", Usable(rule, given))
<1>1. problem \in Problems /\ problem.status = "pending" /\ rounds \in [RoundNumbers -> RoundRows]
  BY DEF IInv, TypeOK, Opine
<1>2. problem.round \in RoundNumbers
  BY <1>1, PendingRound
<1>3. outcome \in {"approved", "rejected", "pending"}
  BY DEF Evaluate
<1>4. CASE outcome = "pending"
  BY <1>4 DEF Opine, Decides
<1>5. CASE outcome # "pending"
  <2>1. Replace(next, problem.revision, new)
    BY <1>5 DEF Opine
  <2>2. next.round = problem.round
    BY <1>1 DEF Problems
  <2>3. rounds[problem.round] \in RoundRows
    BY <1>1, <1>2
  <2>4. rule \in Policies \cup {NoRule}
    BY <2>3 DEF RoundRows
  <2>5. new.state = outcome /\ new.rule = rule /\ new.counted = Usable(rule, given)
    BY <2>3 DEF Ended, RoundRows
  <2>6. Justified(new, given)
    <3>. HIDE DEF new
    <3>1. outcome \in {"approved", "rejected"}
      BY <1>3, <1>5
    <3>. QED BY <2>4, <2>5, <3>1, UsableIsJustified
  <2>. HIDE DEF new, next, outcome
  <2>7. rounds' = rounds \/ rounds' = [rounds EXCEPT ![problem.round] = new]
    BY <2>1, <2>2 DEF Replace
  <2>. QED BY <1>1, <1>2, <1>3, <1>5, <2>5, <2>6, <2>7 DEF Decides
<1>. QED BY <1>4, <1>5

LEMMA WriteDecides ==
    ASSUME ReviewAssumption, IInv, NEW q, Sound(q), Write(q)
    PROVE  Decides
<1>1. problem \in Problems /\ rounds \in [RoundNumbers -> RoundRows]
  BY DEF IInv, TypeOK
<1>2. ASSUME NEW next, NEW seenRevision, NEW row, Replace(next, seenRevision, row),
             next.round \in RoundNumbers => row.source # "rule"
      PROVE  Decides
  <2>1. rounds' = rounds \/ rounds' = [rounds EXCEPT ![next.round] = row]
    BY <1>2 DEF Replace
  <2>. QED BY <1>1, <1>2, <2>1 DEF Decides
<1>3. NoRound.source # "rule"
  BY DEF NoRound
<1>4. CASE Edit(q)
  BY <1>2, <1>3, <1>4 DEF Edit
<1>5. CASE Submit(q)
  <2>. DEFINE row == [state |-> "open", rule |-> q.rule, source |-> "none", counted |-> {}]
  <2>1. \E next, seenRevision : Replace(next, seenRevision, row)
    BY <1>5 DEF Submit
  <2>2. row.source # "rule"
    OBVIOUS
  <2>. HIDE DEF row
  <2>. QED BY <1>2, <2>1, <2>2
<1>6. CASE EditFrozen(q) \/ SetExternal(q) \/ Apply(q)
  BY <1>2, <1>3, <1>6 DEF EditFrozen, SetExternal, Apply
<1>7. ASSUME NEW status, NEW state, NEW source \in {"withdrawal", "manual"},
             Replace([problem EXCEPT !.status = status, !.revision = @ + 1], problem.revision,
                     Ended(state, source, Counted))
      PROVE  Decides
  <2>. DEFINE next == [problem EXCEPT !.status = status, !.revision = @ + 1]
  <2>. DEFINE row  == Ended(state, source, Counted)
  <2>1. next.round = problem.round
    BY <1>1 DEF Problems
  <2>2. ASSUME problem.round \in RoundNumbers PROVE row.source = source
    <3>1. rounds[problem.round] \in RoundRows
      BY <1>1, <2>2
    <3>. QED BY <3>1 DEF Ended, RoundRows
  <2>3. Replace(next, problem.revision, row)
    BY <1>7
  <2>. HIDE DEF next, row
  <2>. QED BY <1>2, <2>1, <2>2, <2>3
<1>8. CASE Withdraw(q)
  BY <1>7, <1>8 DEF Withdraw
<1>9. CASE Finalize(q)
  BY <1>7, <1>9 DEF Finalize
<1>10. CASE Delete(q)
  BY <1>10 DEF Delete, Decides
<1>11. CASE Review(q)
  BY <1>11, OpineDecides DEF Review
<1>. QED
  BY <1>4, <1>5, <1>6, <1>8, <1>9, <1>10, <1>11 DEF Write

LEMMA StepDecides ==
    ASSUME ReviewAssumption, IInv, [Next]_vars
    PROVE  Decides
<1>1. CASE rounds' = rounds
  BY <1>1 DEF Decides
<1>2. CASE \E q : Sound(q) /\ Write(q)
  BY <1>2, WriteDecides
<1>3. TypeOK /\ \A q \in requests : Sound(q)
  BY DEF IInv
<1>4. ASSUME NEW q \in Composed, Direct(q) \/ Ask(q) PROVE Decides
  BY <1>1, <1>2, <1>3, <1>4, ComposedSound DEF Direct, Ask
<1>5. ASSUME NEW q \in requests, Serve(q) \/ Refuse(q) PROVE Decides
  BY <1>1, <1>2, <1>3, <1>5 DEF Serve, Refuse
<1>. QED
  BY <1>1, <1>4, <1>5 DEF Next, Activity, SetPolicy, SetReviewer, TogglePlugin, Retag, vars

LEMMA DecisionsKept ==
    ASSUME ReviewAssumption, JInv, Effect, OpinionsKept, Decides
    PROVE  Decisions'
<1>. SUFFICES ASSUME NEW r \in RoundNumbers
              PROVE  /\ Justified(rounds'[r], opinions'[r])
                     /\ rounds'[r].source = "rule" => rounds'[r].state \notin {"none", "open"}
  BY DEF Decisions
<1>1. IInv /\ Justified(rounds[r], opinions[r])
      /\ (rounds[r].source = "rule" => rounds[r].state \notin {"none", "open"})
  BY DEF JInv, Decisions
<1>2. CASE rounds'[r].source # "rule"
  BY <1>2 DEF Justified
<1>3. CASE rounds'[r] = rounds[r] /\ rounds[r].source = "rule"
  <2>1. opinions'[r] = opinions[r]
    BY <1>1, <1>3, EffectKeepsClosed
  <2>. QED BY <1>1, <1>3, <2>1
<1>. QED BY <1>2, <1>3 DEF Decides

-----------------------------------------------------------------------------
(* The inductive invariant holds in every reachable state.                 *)
THEOREM InductiveInvariant == Spec => []IInv
  <1>1. Init => IInv
    BY InitIInv, ReviewAssumption
  <1>2. IInv /\ [Next]_vars => IInv'
    BY StepKeepsIInv, ReviewAssumption
  <1>3. QED
    BY <1>1, <1>2, PTL DEF Spec

(* The state of a problem and its reviews has its type, whoever competes   *)
(* for it: TypeOK.                                                         *)
THEOREM Typed == Spec => []TypeOK
  <1>1. IInv => TypeOK
    BY DEF IInv
  <1>2. QED
    BY <1>1, InductiveInvariant, PTL

(* Status and rounds always tell the same story, for any number of         *)
(* requests in flight: StatusMatchesRound.                                 *)
THEOREM OneStory == Spec => []StatusMatchesRound
  <1>1. IInv => StatusMatchesRound
    BY DEF IInv
  <1>2. QED
    BY <1>1, InductiveInvariant, PTL

(* A closed round and its opinions never change: ClosedRoundsAreFinal.     *)
THEOREM ReadOnlyRounds == Spec => ClosedRoundsAreFinal
  <1>1. IInv /\ [Next]_vars =>
          [\A r \in RoundNumbers :
             /\ rounds[r].state \notin {"none", "open"}
                  => rounds'[r] = rounds[r] /\ opinions'[r] = opinions[r]
             /\ rounds[r].state = "open" => rounds'[r].rule = rounds[r].rule]_vars
    BY StepEffect, EffectKeepsClosed, ReviewAssumption
  <1>2. QED
    BY <1>1, InductiveInvariant, PTL DEF Spec, ClosedRoundsAreFinal

(* Frozen content changes only through the audited edit: FrozenNeedsAudit. *)
THEOREM AuditedEdits == Spec => FrozenNeedsAudit
  <1>1. IInv /\ [Next]_vars =>
          [problem.status \in Frozen /\ problem'.basic # problem.basic => forced' = forced + 1]_vars
    BY StepEffect, ReviewAssumption DEF BasicKept
  <1>2. QED
    BY <1>1, InductiveInvariant, PTL DEF Spec, FrozenNeedsAudit

(* The status follows the workflow: StatusMovesAreLegal.                   *)
THEOREM LegalMoves == Spec => StatusMovesAreLegal
  <1>1. IInv /\ [Next]_vars =>
          [/\ problem'.round # problem.round
                => /\ problem'.round = problem.round + 1
                   /\ problem.status \in {"draft", "rejected"} /\ problem'.status = "pending"
           /\ problem'.status # problem.status
                => /\ problem'.revision = problem.revision + 1
                   /\ <<problem.status, problem'.status>> \in
                          {<<"draft", "pending">>, <<"rejected", "pending">>,
                           <<"pending", "approved">>, <<"pending", "rejected">>,
                           <<"pending", "draft">>, <<"approved", "draft">>,
                           <<"rejected", "draft">>}]_vars
    BY StepEffect, EffectMovesLegally, ReviewAssumption
  <1>2. QED
    BY <1>1, InductiveInvariant, PTL DEF Spec, StatusMovesAreLegal

(* A decision of the rule is justified by the opinions it counted, under   *)
(* the rule its round was opened with: RuleDecisionsJustified.             *)
THEOREM JustifiedDecisions == Spec => []RuleDecisionsJustified
  <1>1. Init => JInv
    <2>1. Init => \A r \in RoundNumbers : rounds[r].source = "none"
      BY DEF Init, NoRound
    <2>2. Init => Decisions
      BY <2>1 DEF Decisions, Justified
    <2>3. QED
      BY <2>2, InitIInv, ReviewAssumption DEF JInv
  <1>2. JInv /\ [Next]_vars => JInv'
    BY ReviewAssumption, StepEffect, StepDecides, StepKeepsIInv, DecisionsKept DEF JInv
  <1>3. JInv => RuleDecisionsJustified
    BY DEF JInv, Decisions, Justified, RuleDecisionsJustified
  <1>4. QED
    BY <1>1, <1>2, <1>3, PTL DEF Spec

(* All of it at once, for any people, contents and policies: ReviewInv.    *)
THEOREM SafeReviews == Spec => []ReviewInv
  BY Typed, OneStory, JustifiedDecisions, PTL DEF ReviewInv

-----------------------------------------------------------------------------
(***************************************************************************)
(* Any number of robots, claims, requests and lost or repeated messages:   *)
(* the invariant RobotInv and the action properties                        *)
(* RobotOpinionsAreCurrent and AnswersAreFinal.  A step of the review      *)
(* never writes the opinion of a robot, and a robot's completion is one of *)
(* the effects above.                                                      *)
(***************************************************************************)
ClaimRows == [robot : Robots, round : RoundNumbers, revision : 1..MaxRevision,
              catalog : 1..MaxCatalog, basic : Contents, lease : 0..MaxLease,
              over : BOOLEAN, closure : Closures]

Answers == [op : {"renew", "complete"}, payload : (0..MaxLease) \X (Opinions \cup {"none"}),
            reply : Replies]

RobotRows ==
    /\ claims \in Seq(ClaimRows)
    /\ Len(claims) <= MaxClaims
    /\ answers \in [1..MaxClaims -> [Ids -> Answers \cup {NoAnswer}]]
    /\ \A c \in 1..MaxClaims, i \in Ids : answers[c][i] # NoAnswer => c <= Len(claims)
    /\ catalog \in 1..MaxCatalog

(* A claim that still has the revision of the problem shows its content.   *)
ClaimsCurrent ==
    \A c \in DOMAIN claims :
        /\ claims[c].revision <= problem.revision
        /\ claims[c].revision = problem.revision => claims[c].basic = problem.basic

(* An open claim is in the open round, in which its robot has no opinion   *)
(* yet and no other open claim.                                            *)
OpenFacts ==
    /\ \A c \in DOMAIN claims : claims[c].closure = "open" =>
          /\ rounds[claims[c].round].state = "open"
          /\ opinions[claims[c].round][claims[c].robot] = NoOpinion
    /\ \A c, d \in DOMAIN claims :
          claims[c].closure = "open" /\ claims[d].closure = "open"
          /\ claims[c].robot = claims[d].robot => c = d

(* A robot's opinion in a round and its one completed claim come together. *)
CompletedFacts ==
    /\ \A c \in DOMAIN claims : claims[c].closure = "completed" =>
          opinions[claims[c].round][claims[c].robot] # NoOpinion
    /\ \A c, d \in DOMAIN claims :
          claims[c].closure = "completed" /\ claims[d].closure = "completed"
          /\ claims[c].robot = claims[d].robot /\ claims[c].round = claims[d].round => c = d
    /\ \A b \in Robots, r \in RoundNumbers : opinions[r][b] # NoOpinion =>
          \E c \in DOMAIN claims : /\ claims[c].closure = "completed"
                                   /\ claims[c].robot = b /\ claims[c].round = r

(* A completed claim has one stored success, any other has none.           *)
Success(a) == a.op = "complete" /\ a.reply = "success"

SuccessFacts ==
    \A c \in DOMAIN claims :
        /\ claims[c].closure = "completed" =>
              \E i \in Ids : \A j \in Ids : Success(answers[c][j]) <=> j = i
        /\ claims[c].closure # "completed" => \A j \in Ids : ~Success(answers[c][j])

(* The inductive invariant.                                                *)
RIInv == IInv /\ RobotRows /\ ClaimsCurrent /\ OpenFacts /\ CompletedFacts /\ SuccessFacts
-----------------------------------------------------------------------------
(* What a step of the review means for robots and claims.                  *)
RobotsKept == \A r \in RoundNumbers, b \in Robots : opinions'[r][b] = opinions[r][b]

LEMMA OpinionOfOneReviewer ==
    ASSUME ReviewAssumption, IInv, NEW u \in Reviewers, NEW verdict, NEW about,
           Opine(u, verdict, about)
    PROVE  \A r \in RoundNumbers, v \in Reviewers :
               opinions'[r][v] = IF r = problem.round /\ v = u
                                 THEN [verdict |-> verdict, about |-> about]
                                 ELSE opinions[r][v]
<1>1. opinions \in OpinionRows /\ problem.status = "pending"
  BY DEF IInv, TypeOK, OpinionRows, Opine
<1>2. problem.round \in RoundNumbers
  BY <1>1, PendingRound
<1>3. PICK opinion : opinion = [verdict |-> verdict, about |-> about]
  OBVIOUS
<1>4. opinions' = [opinions EXCEPT ![problem.round][u] = opinion]
  BY <1>3 DEF Opine
<1>5. opinions' = [opinions EXCEPT ![problem.round] = [opinions[problem.round] EXCEPT ![u] = opinion]]
  BY <1>4
<1>. QED BY <1>1, <1>2, <1>3, <1>5 DEF OpinionRows

LEMMA ActivityKeepsRobots ==
    ASSUME ReviewAssumption, IInv, [Next]_vars
    PROVE  RobotsKept
<1>1. CASE opinions' = opinions
  BY <1>1 DEF RobotsKept
<1>2. ASSUME NEW q, Sound(q), Write(q) PROVE RobotsKept
  <2>1. CASE Review(q)
    <3>1. q.who \in Humans /\ Opine(q.who, q.arg, q.seen.basic)
      BY <1>2, <2>1 DEF Review, Sound
    <3>2. q.who \in Reviewers /\ q.who \notin Robots /\ Robots \subseteq Reviewers
      BY <3>1 DEF ReviewAssumption, Reviewers
    <3>3. \A r \in RoundNumbers, v \in Reviewers :
            opinions'[r][v] = IF r = problem.round /\ v = q.who
                              THEN [verdict |-> q.arg, about |-> q.seen.basic]
                              ELSE opinions[r][v]
      BY <3>1, <3>2, OpinionOfOneReviewer
    <3>. QED BY <3>2, <3>3 DEF RobotsKept
  <2>. QED
    BY <1>1, <1>2, <2>1 DEF Write, Edit, Submit, EditFrozen, SetExternal, Withdraw, Finalize,
                            Apply, Delete
<1>3. TypeOK /\ \A q \in requests : Sound(q)
  BY DEF IInv
<1>4. ASSUME NEW q \in Composed, Direct(q) \/ Ask(q) PROVE RobotsKept
  BY <1>1, <1>2, <1>3, <1>4, ComposedSound DEF Direct, Ask
<1>5. ASSUME NEW q \in requests, Serve(q) \/ Refuse(q) PROVE RobotsKept
  BY <1>1, <1>2, <1>3, <1>5 DEF Serve, Refuse
<1>. QED
  BY <1>1, <1>4, <1>5 DEF Next, Activity, SetPolicy, SetReviewer, TogglePlugin, Retag, vars

(* A revision names one content.                                           *)
RevisionNamesBasic ==
    \/ problem'.revision > problem.revision
    \/ problem'.revision = problem.revision /\ problem'.basic = problem.basic

LEMMA EffectOnRevision ==
    ASSUME ReviewAssumption, IInv, Effect
    PROVE  RevisionNamesBasic
<1>1. problem \in Problems
  BY DEF IInv, TypeOK
<1>2. problem.revision \in Nat
  BY <1>1 DEF Problems
<1>3. CASE problem' = problem
  BY <1>3 DEF RevisionNamesBasic
<1>4. CASE problem' = [problem EXCEPT !.deleted = TRUE]
  BY <1>1, <1>4 DEF RevisionNamesBasic, Problems
<1>5. CASE problem'.revision = problem.revision + 1
  BY <1>2, <1>5 DEF RevisionNamesBasic
<1>. QED
  BY <1>3, <1>4, <1>5 DEF Effect, Untouched, Keeps, Opens, Ends, Leaves, Revised

(* The open round stays open unless the problem leaves `pending`.          *)
LEMMA EffectOnOpenRound ==
    ASSUME ReviewAssumption, IInv, Effect, NEW r \in RoundNumbers, rounds[r].state = "open"
    PROVE  /\ problem.status = "pending" /\ problem.round = r
           /\ problem'.status = "pending" => rounds'[r].state = "open"
<1>1. problem.status = "pending" /\ problem.round = r
  BY DEF IInv, StatusMatchesRound
<1>. QED BY <1>1 DEF Effect, Untouched, Keeps, Opens, Ends, Leaves

LEMMA Resequenced ==
    ASSUME NEW S, NEW n \in Nat, NEW f \in [1..n -> S]
    PROVE  f \in Seq(S) /\ Len(f) = n
OBVIOUS

(* A claim keeps what identifies it.                                       *)
SameClaim(x, y) ==
    x.robot = y.robot /\ x.round = y.round /\ x.revision = y.revision /\ x.basic = y.basic

LEMMA ClosingTheRound ==
    ASSUME ReviewAssumption, IInv, Effect, NEW cs \in Seq(ClaimRows),
           \A c \in DOMAIN cs : cs[c].closure = "open" => rounds[cs[c].round].state = "open"
    PROVE  /\ RoundCloses(cs) \in Seq(ClaimRows)
           /\ Len(RoundCloses(cs)) = Len(cs)
           /\ \A c \in DOMAIN cs :
                /\ \/ RoundCloses(cs)[c] = cs[c]
                   \/ /\ cs[c].closure = "open" /\ RoundCloses(cs)[c].closure = "round_closed"
                      /\ SameClaim(RoundCloses(cs)[c], cs[c])
                /\ RoundCloses(cs)[c].closure = "open" => rounds'[cs[c].round].state = "open"
<1>1. DOMAIN cs = 1..Len(cs) /\ Len(cs) \in Nat /\ \A c \in DOMAIN cs : cs[c] \in ClaimRows
  OBVIOUS
<1>2. \A c \in DOMAIN cs : cs[c].round \in RoundNumbers
  BY <1>1 DEF ClaimRows
<1>3. \A c \in DOMAIN cs : cs[c].closure = "open" =>
         /\ problem.status = "pending" /\ problem.round = cs[c].round
         /\ problem'.status = "pending" => rounds'[cs[c].round].state = "open"
  BY <1>2, EffectOnOpenRound
<1>4. CASE problem.status = "pending" /\ problem'.status # "pending"
  <2>. DEFINE new == [c \in DOMAIN cs |-> IF cs[c].round = problem.round /\ cs[c].closure = "open"
                                          THEN [cs[c] EXCEPT !.closure = "round_closed"]
                                          ELSE cs[c]]
  <2>1. RoundCloses(cs) = new
    BY <1>4 DEF RoundCloses
  <2>2. ASSUME NEW c \in DOMAIN cs
        PROVE  /\ new[c] \in ClaimRows
               /\ new[c].closure # "open"
               /\ \/ new[c] = cs[c]
                  \/ /\ cs[c].closure = "open" /\ new[c].closure = "round_closed"
                     /\ SameClaim(new[c], cs[c])
    <3>1. cs[c] \in ClaimRows /\ new[c] = IF cs[c].closure = "open"
                                          THEN [cs[c] EXCEPT !.closure = "round_closed"]
                                          ELSE cs[c]
      BY <1>1, <1>3
    <3>. QED BY <3>1 DEF ClaimRows, Closures, SameClaim
  <2>3. new \in [1..Len(cs) -> ClaimRows]
    BY <1>1, <2>2
  <2>. HIDE DEF new
  <2>4. new \in Seq(ClaimRows) /\ Len(new) = Len(cs)
    BY <1>1, <2>3, Resequenced
  <2>. QED BY <2>1, <2>2, <2>4
<1>5. CASE ~(problem.status = "pending" /\ problem'.status # "pending")
  BY <1>3, <1>5 DEF RoundCloses
<1>. QED BY <1>4, <1>5
-----------------------------------------------------------------------------
(* Steps that complete nothing.                                            *)
QuietStep ==
    /\ IInv' /\ RobotsKept /\ RevisionNamesBasic
    /\ claims' \in Seq(ClaimRows) /\ Len(claims') = Len(claims)
    /\ \A c \in DOMAIN claims :
          /\ \/ claims'[c] = claims[c]
             \/ /\ claims[c].closure = "open" /\ claims'[c].closure # "completed"
                /\ SameClaim(claims'[c], claims[c])
          /\ claims'[c].closure = "open" => rounds'[claims[c].round].state = "open"
    /\ answers' \in [1..MaxClaims -> [Ids -> Answers \cup {NoAnswer}]]
    /\ \A c \in 1..MaxClaims, i \in Ids :
          /\ answers[c][i] # NoAnswer => answers'[c][i] = answers[c][i]
          /\ answers'[c][i] # NoAnswer => c <= Len(claims)
          /\ Success(answers'[c][i]) <=> Success(answers[c][i])
    /\ catalog' \in 1..MaxCatalog

LEMMA RowFacts ==
    ASSUME RobotRows
    PROVE  /\ DOMAIN claims = 1..Len(claims) /\ Len(claims) \in Nat
           /\ DOMAIN claims \subseteq 1..MaxClaims
           /\ \A c \in DOMAIN claims : claims[c] \in ClaimRows
BY RobotAssumption DEF RobotRows, RobotAssumption

LEMMA QuietKeeps ==
    ASSUME RIInv, QuietStep
    PROVE  RIInv'
<1>. USE DEF RIInv
<1>1. /\ DOMAIN claims = 1..Len(claims) /\ DOMAIN claims \subseteq 1..MaxClaims
      /\ \A c \in DOMAIN claims : claims[c] \in ClaimRows
  BY RowFacts
<1>2. RobotRows'
  BY DEF QuietStep, RobotRows
<1>3. DOMAIN claims' = DOMAIN claims
  BY <1>1, <1>2 DEF QuietStep, RobotRows
<1>4. ASSUME NEW c \in DOMAIN claims
      PROVE  /\ SameClaim(claims'[c], claims[c])
             /\ claims'[c].closure = "open" => /\ claims[c].closure = "open"
                                               /\ rounds'[claims[c].round].state = "open"
             /\ claims'[c].closure = "completed" <=> claims[c].closure = "completed"
             /\ claims[c].round \in RoundNumbers /\ claims[c].robot \in Robots
             /\ c \in 1..MaxClaims
             /\ claims[c].revision \in Nat
  <2>1. /\ \/ claims'[c] = claims[c]
           \/ /\ claims[c].closure = "open" /\ claims'[c].closure # "completed"
              /\ SameClaim(claims'[c], claims[c])
        /\ claims'[c].closure = "open" => rounds'[claims[c].round].state = "open"
    BY DEF QuietStep
  <2>2. /\ claims[c].round \in RoundNumbers /\ claims[c].robot \in Robots
        /\ c \in 1..MaxClaims /\ claims[c].revision \in Nat
    BY <1>1 DEF ClaimRows
  <2>3. SameClaim(claims'[c], claims[c])
    BY <2>1 DEF SameClaim
  <2>4. claims'[c].closure = "completed" <=> claims[c].closure = "completed"
    BY <2>1
  <2>5. claims'[c].closure = "open" => claims[c].closure = "open"
    BY <2>1
  <2>. QED BY <2>1, <2>2, <2>3, <2>4, <2>5
<1>5. ClaimsCurrent'
  <2>1. problem.revision \in Nat /\ problem'.revision \in Nat
    BY DEF IInv, TypeOK, Problems, QuietStep
  <2>. SUFFICES ASSUME NEW c \in DOMAIN claims
                PROVE  /\ claims'[c].revision <= problem'.revision
                       /\ claims'[c].revision = problem'.revision => claims'[c].basic = problem'.basic
    BY <1>3 DEF ClaimsCurrent
  <2>2. claims'[c].revision = claims[c].revision /\ claims'[c].basic = claims[c].basic
        /\ claims[c].revision \in Nat
    BY <1>4 DEF SameClaim
  <2>3. /\ claims[c].revision <= problem.revision
        /\ claims[c].revision = problem.revision => claims[c].basic = problem.basic
    BY DEF ClaimsCurrent
  <2>. QED BY <2>1, <2>2, <2>3 DEF QuietStep, RevisionNamesBasic
<1>6. OpenFacts'
  <2>1. ASSUME NEW c \in DOMAIN claims, claims'[c].closure = "open"
        PROVE  /\ rounds'[claims'[c].round].state = "open"
               /\ opinions'[claims'[c].round][claims'[c].robot] = NoOpinion
    BY <1>4, <2>1 DEF SameClaim, OpenFacts, QuietStep, RobotsKept
  <2>2. ASSUME NEW c \in DOMAIN claims, NEW d \in DOMAIN claims, claims'[c].closure = "open",
               claims'[d].closure = "open", claims'[c].robot = claims'[d].robot
        PROVE  c = d
    BY <1>4, <2>2 DEF SameClaim, OpenFacts
  <2>. QED BY <1>3, <2>1, <2>2 DEF OpenFacts
<1>7. CompletedFacts'
  <2>1. ASSUME NEW c \in DOMAIN claims, claims'[c].closure = "completed"
        PROVE  opinions'[claims'[c].round][claims'[c].robot] # NoOpinion
    BY <1>4, <2>1 DEF SameClaim, CompletedFacts, QuietStep, RobotsKept
  <2>2. ASSUME NEW c \in DOMAIN claims, NEW d \in DOMAIN claims,
               claims'[c].closure = "completed", claims'[d].closure = "completed",
               claims'[c].robot = claims'[d].robot, claims'[c].round = claims'[d].round
        PROVE  c = d
    BY <1>4, <2>2 DEF SameClaim, CompletedFacts
  <2>3. ASSUME NEW b \in Robots, NEW r \in RoundNumbers, opinions'[r][b] # NoOpinion
        PROVE  \E c \in DOMAIN claims : /\ claims'[c].closure = "completed"
                                        /\ claims'[c].robot = b /\ claims'[c].round = r
    <3>1. opinions[r][b] # NoOpinion
      BY <2>3 DEF QuietStep, RobotsKept
    <3>2. PICK c \in DOMAIN claims : /\ claims[c].closure = "completed"
                                     /\ claims[c].robot = b /\ claims[c].round = r
      BY <3>1 DEF CompletedFacts
    <3>. QED BY <1>4, <3>2 DEF SameClaim
  <2>. QED BY <1>3, <2>1, <2>2, <2>3 DEF CompletedFacts
<1>8. SuccessFacts'
  <2>. SUFFICES ASSUME NEW c \in DOMAIN claims
                PROVE  /\ claims'[c].closure = "completed" =>
                            \E i \in Ids : \A j \in Ids : Success(answers'[c][j]) <=> j = i
                       /\ claims'[c].closure # "completed" => \A j \in Ids : ~Success(answers'[c][j])
    BY <1>3 DEF SuccessFacts, Success
  <2>1. \A j \in Ids : Success(answers'[c][j]) <=> Success(answers[c][j])
    BY <1>4 DEF QuietStep
  <2>. QED BY <1>4, <2>1 DEF SuccessFacts
<1>. QED BY <1>2, <1>5, <1>6, <1>7, <1>8 DEF QuietStep
-----------------------------------------------------------------------------
(* Messages and their answers.                                             *)
LEMMA MessageFacts ==
    ASSUME RobotRows, NEW c \in DOMAIN claims, NEW m \in Messages(c)
    PROVE  /\ m.claim = c /\ m.id \in Ids /\ m.op \in {"renew", "complete"}
           /\ m.payload \in (0..MaxLease) \X (Opinions \cup {"none"})
           /\ m.op = "complete" => m.payload[2] \in Opinions
<1>1. claims[c].lease \in 0..MaxLease /\ MaxLease \in Nat
  BY RowFacts, RobotAssumption DEF ClaimRows, RobotAssumption
<1>2. 0..claims[c].lease \subseteq 0..MaxLease
  BY <1>1
<1>. QED BY <1>2 DEF Messages

LEMMA JudgeFacts ==
    ASSUME NEW m
    PROVE  /\ Judge(m) \in {"gone", "permission_revoked", "replay", "round_closed", "expired",
                            "content_changed", "catalog_changed", "stale", "ready"}
           /\ Judge(m) = "replay" => answers[m.claim][m.id] # NoAnswer
           /\ Judge(m) = "ready" =>
                 /\ answers[m.claim][m.id] = NoAnswer
                 /\ claims[m.claim].closure = "open"
                 /\ problem.status = "pending" /\ problem.round = claims[m.claim].round
                 /\ problem.revision = claims[m.claim].revision
BY DEF Judge

LEMMA ReplyFacts ==
    ASSUME NEW m, answers[m.claim][m.id] = NoAnswer
    PROVE  /\ Reply(m) \in Replies
           /\ Reply(m) = "success" <=> Judge(m) = "ready"
BY JudgeFacts DEF Reply, Replies

LEMMA RememberFacts ==
    ASSUME RobotRows, NEW c \in DOMAIN claims, NEW m \in Messages(c), Remember(m)
    PROVE  /\ answers' \in [1..MaxClaims -> [Ids -> Answers \cup {NoAnswer}]]
           /\ \A d \in 1..MaxClaims, i \in Ids :
                 /\ answers[d][i] # NoAnswer => answers'[d][i] = answers[d][i]
                 /\ answers'[d][i] # NoAnswer => d <= Len(claims)
                 /\ d # c \/ i # m.id => answers'[d][i] = answers[d][i]
           /\ answers[c][m.id] = NoAnswer =>
                 /\ answers'[c][m.id].op = m.op
                 /\ answers'[c][m.id].reply = "success" <=> Judge(m) = "ready"
<1>1. /\ m.claim = c /\ m.id \in Ids /\ m.op \in {"renew", "complete"}
      /\ m.payload \in (0..MaxLease) \X (Opinions \cup {"none"})
  BY MessageFacts
<1>2. c \in 1..MaxClaims /\ c <= Len(claims)
  BY RowFacts
<1>3. answers \in [1..MaxClaims -> [Ids -> Answers \cup {NoAnswer}]]
  BY DEF RobotRows
<1>4. CASE answers[c][m.id] # NoAnswer
  BY <1>1, <1>3, <1>4 DEF Remember, RobotRows
<1>5. CASE answers[c][m.id] = NoAnswer
  <2>1. PICK new : new = [op |-> m.op, payload |-> m.payload, reply |-> Reply(m)]
    OBVIOUS
  <2>2. Reply(m) \in Replies /\ (Reply(m) = "success" <=> Judge(m) = "ready")
    BY <1>1, <1>5, ReplyFacts
  <2>3. new \in Answers /\ new.op = m.op /\ new.reply = Reply(m)
    BY <1>1, <2>1, <2>2 DEF Answers
  <2>4. answers' = [answers EXCEPT ![c][m.id] = new]
    BY <1>1, <1>5, <2>1 DEF Remember
  <2>5. answers' = [answers EXCEPT ![c] = [answers[c] EXCEPT ![m.id] = new]]
    BY <2>4
  <2>6. [answers[c] EXCEPT ![m.id] = new] \in [Ids -> Answers \cup {NoAnswer}]
    BY <1>2, <1>3, <2>3
  <2>7. answers' \in [1..MaxClaims -> [Ids -> Answers \cup {NoAnswer}]]
    BY <1>3, <2>5, <2>6
  <2>8. \A d \in 1..MaxClaims, i \in Ids :
          answers'[d][i] = IF d = c /\ i = m.id THEN new ELSE answers[d][i]
    BY <1>2, <1>3, <2>5
  <2>. QED BY <1>1, <1>2, <1>5, <2>2, <2>3, <2>7, <2>8 DEF RobotRows
<1>. QED BY <1>4, <1>5

-----------------------------------------------------------------------------
(* The steps that complete nothing are quiet.                              *)
AnswersQuiet ==
    /\ answers' \in [1..MaxClaims -> [Ids -> Answers \cup {NoAnswer}]]
    /\ \A c \in 1..MaxClaims, i \in Ids :
          /\ answers[c][i] # NoAnswer => answers'[c][i] = answers[c][i]
          /\ answers'[c][i] # NoAnswer => c <= Len(claims)
          /\ Success(answers'[c][i]) <=> Success(answers[c][i])

LEMMA SameAnswers ==
    ASSUME RobotRows, UNCHANGED answers
    PROVE  AnswersQuiet
BY DEF RobotRows, AnswersQuiet

LEMMA ReviewStill ==
    ASSUME IInv, UNCHANGED vars
    PROVE  /\ IInv' /\ RobotsKept /\ RevisionNamesBasic
           /\ rounds' = rounds /\ opinions' = opinions /\ problem' = problem
<1>1. Effect /\ RobotsKept /\ RevisionNamesBasic
  BY DEF vars, Effect, Untouched, RobotsKept, RevisionNamesBasic
<1>2. IInv'
  BY ReviewAssumption, StepKeepsIInv
<1>. QED BY <1>1, <1>2 DEF vars

LEMMA OthersQuiet ==
    ASSUME RIInv, Others
    PROVE  QuietStep
<1>1. IInv /\ RobotRows /\ [Next]_vars
  BY DEF RIInv, Others, Next
<1>2. IInv' /\ RobotsKept /\ Effect
  BY <1>1, ReviewAssumption, StepKeepsIInv, ActivityKeepsRobots, StepEffect
<1>3. RevisionNamesBasic
  BY <1>1, <1>2, ReviewAssumption, EffectOnRevision
<1>4. claims \in Seq(ClaimRows)
  BY <1>1 DEF RobotRows
<1>5. \A c \in DOMAIN claims : claims[c].closure = "open" => rounds[claims[c].round].state = "open"
  BY DEF RIInv, OpenFacts
<1>6. claims' = RoundCloses(claims)
  BY DEF Others
<1>7. /\ claims' \in Seq(ClaimRows) /\ Len(claims') = Len(claims)
      /\ \A c \in DOMAIN claims :
            /\ \/ claims'[c] = claims[c]
               \/ /\ claims[c].closure = "open" /\ claims'[c].closure = "round_closed"
                  /\ SameClaim(claims'[c], claims[c])
            /\ claims'[c].closure = "open" => rounds'[claims[c].round].state = "open"
  BY <1>1, <1>2, <1>4, <1>5, <1>6, ReviewAssumption, ClosingTheRound
<1>8. AnswersQuiet /\ catalog' = catalog
  BY <1>1, SameAnswers DEF Others
<1>. QED BY <1>1, <1>2, <1>3, <1>7, <1>8 DEF QuietStep, AnswersQuiet, RobotRows

LEMMA CatalogQuiet ==
    ASSUME RIInv, CatalogChange \/ UNCHANGED robotVars
    PROVE  QuietStep
<1>1. IInv /\ RobotRows /\ [Next]_vars /\ UNCHANGED <<claims, answers, rounds>>
  BY DEF RIInv, CatalogChange, Next, Retag, robotVars, vars
<1>2. IInv' /\ RobotsKept /\ Effect
  BY <1>1, ReviewAssumption, StepKeepsIInv, ActivityKeepsRobots, StepEffect
<1>3. RevisionNamesBasic
  BY <1>1, <1>2, ReviewAssumption, EffectOnRevision
<1>4. AnswersQuiet
  BY <1>1, SameAnswers
<1>5. catalog' \in 1..MaxCatalog
  BY <1>1, RobotAssumption DEF CatalogChange, RobotRows, robotVars, RobotAssumption
<1>6. \A c \in DOMAIN claims : claims[c].closure = "open" => rounds[claims[c].round].state = "open"
  BY DEF RIInv, OpenFacts
<1>7. claims \in Seq(ClaimRows)
  BY <1>1 DEF RobotRows
<1>8. claims' = claims /\ rounds' = rounds
  BY <1>1
<1>. QED BY <1>2, <1>3, <1>4, <1>5, <1>6, <1>7, <1>8 DEF QuietStep, AnswersQuiet

(* One open claim is changed and nothing else of the review.               *)
LEMMA ClaimQuiet ==
    ASSUME RIInv, UNCHANGED vars, UNCHANGED catalog, AnswersQuiet, NEW c \in DOMAIN claims,
           claims[c].closure = "open", NEW new \in ClaimRows, SameClaim(new, claims[c]),
           new.closure # "completed", claims' = [claims EXCEPT ![c] = new]
    PROVE  QuietStep
<1>1. IInv /\ RobotRows /\ OpenFacts
  BY DEF RIInv
<1>2. IInv' /\ RobotsKept /\ RevisionNamesBasic /\ rounds' = rounds
  BY <1>1, ReviewStill
<1>3. claims \in Seq(ClaimRows) /\ c \in 1..Len(claims) /\ DOMAIN claims = 1..Len(claims)
  BY <1>1, RowFacts DEF RobotRows
<1>4. /\ claims' \in Seq(ClaimRows) /\ Len(claims') = Len(claims)
      /\ \A d \in 1..Len(claims) : claims'[d] = IF d = c THEN new ELSE claims[d]
  BY <1>3, ExceptSeq
<1>5. ASSUME NEW d \in DOMAIN claims
      PROVE  /\ \/ claims'[d] = claims[d]
                \/ /\ claims[d].closure = "open" /\ claims'[d].closure # "completed"
                   /\ SameClaim(claims'[d], claims[d])
             /\ claims'[d].closure = "open" => rounds'[claims[d].round].state = "open"
  BY <1>1, <1>2, <1>3, <1>4 DEF OpenFacts
<1>. QED BY <1>1, <1>2, <1>4, <1>5 DEF QuietStep, AnswersQuiet, RobotRows

LEMMA LapseQuiet ==
    ASSUME RIInv, NEW c \in DOMAIN claims, Lapse(c)
    PROVE  QuietStep
<1>. DEFINE new == [claims[c] EXCEPT !.over = TRUE]
<1>1. claims[c] \in ClaimRows /\ RobotRows
  BY RowFacts DEF RIInv
<1>2. new \in ClaimRows /\ SameClaim(new, claims[c]) /\ new.closure = claims[c].closure
  BY <1>1 DEF ClaimRows, SameClaim
<1>3. claims' = [claims EXCEPT ![c] = new] /\ UNCHANGED <<vars, answers, catalog>>
      /\ claims[c].closure = "open"
  BY DEF Lapse
<1>. HIDE DEF new
<1>. QED BY <1>1, <1>2, <1>3, ClaimQuiet, SameAnswers

LEMMA RememberQuiet ==
    ASSUME RobotRows, NEW c \in DOMAIN claims, NEW m \in Messages(c), Remember(m),
           ~(m.op = "complete" /\ Judge(m) = "ready")
    PROVE  AnswersQuiet
<1>1. c \in 1..MaxClaims /\ m.id \in Ids
  BY RowFacts, MessageFacts
<1>2. /\ answers' \in [1..MaxClaims -> [Ids -> Answers \cup {NoAnswer}]]
      /\ \A d \in 1..MaxClaims, i \in Ids :
            /\ answers[d][i] # NoAnswer => answers'[d][i] = answers[d][i]
            /\ answers'[d][i] # NoAnswer => d <= Len(claims)
            /\ d # c \/ i # m.id => answers'[d][i] = answers[d][i]
      /\ answers[c][m.id] = NoAnswer =>
            /\ answers'[c][m.id].op = m.op
            /\ answers'[c][m.id].reply = "success" <=> Judge(m) = "ready"
  BY RememberFacts
<1>3. ~Success(NoAnswer)
  BY DEF Success, NoAnswer
<1>4. Success(answers'[c][m.id]) <=> Success(answers[c][m.id])
  BY <1>1, <1>2, <1>3 DEF Success
<1>5. \A d \in 1..MaxClaims, i \in Ids : Success(answers'[d][i]) <=> Success(answers[d][i])
  BY <1>2, <1>4
<1>. QED BY <1>2, <1>5 DEF AnswersQuiet

LEMMA MessageQuiet ==
    ASSUME RIInv, NEW c \in DOMAIN claims, NEW m \in Messages(c),
           Revoke(m) \/ Reject(m) \/ Renew(m)
    PROVE  QuietStep
<1>1. claims[c] \in ClaimRows /\ RobotRows /\ m.claim = c
  BY RowFacts, MessageFacts DEF RIInv
<1>2. UNCHANGED vars /\ UNCHANGED catalog /\ Remember(m)
  BY DEF Revoke, Reject, Renew
<1>3. ~(m.op = "complete" /\ Judge(m) = "ready")
  BY DEF Revoke, Reject, Renew
<1>4. AnswersQuiet
  BY <1>1, <1>2, <1>3, RememberQuiet
<1>5. CASE Revoke(m)
  <2>. DEFINE new == [claims[c] EXCEPT !.closure = Closure(Judge(m))]
  <2>1. Closure(Judge(m)) \in Closures \ {"completed", "open"}
    BY <1>5 DEF Revoke, Closure, Closures
  <2>2. new \in ClaimRows /\ SameClaim(new, claims[c]) /\ new.closure # "completed"
    BY <1>1, <2>1 DEF ClaimRows, SameClaim
  <2>3. claims' = [claims EXCEPT ![c] = new] /\ claims[c].closure = "open"
    BY <1>1, <1>5 DEF Revoke
  <2>. HIDE DEF new
  <2>. QED BY <1>2, <1>4, <2>2, <2>3, ClaimQuiet
<1>6. CASE Reject(m)
  <2>1. /\ IInv' /\ RobotsKept /\ RevisionNamesBasic /\ rounds' = rounds /\ claims' = claims
    BY <1>2, <1>6, ReviewStill DEF RIInv, Reject
  <2>. QED BY <1>1, <1>2, <1>4, <2>1 DEF QuietStep, AnswersQuiet, RIInv, RobotRows, OpenFacts
<1>7. CASE Renew(m)
  <2>. DEFINE new == [claims[c] EXCEPT !.lease = claims[c].lease + 1]
  <2>1. claims[c].lease + 1 \in 0..MaxLease
    BY <1>1, <1>7, RobotAssumption DEF Renew, ClaimRows, RobotAssumption
  <2>2. claims[c].closure = "open"
    BY <1>1, <1>7, JudgeFacts DEF Renew
  <2>3. new \in ClaimRows /\ SameClaim(new, claims[c]) /\ new.closure # "completed"
    BY <1>1, <2>1, <2>2 DEF ClaimRows, SameClaim
  <2>4. claims' = [claims EXCEPT ![c] = new]
    BY <1>1, <1>7 DEF Renew
  <2>. HIDE DEF new
  <2>. QED BY <1>2, <1>4, <2>2, <2>3, <2>4, ClaimQuiet
<1>. QED BY <1>5, <1>6, <1>7
-----------------------------------------------------------------------------
(* A claim: older claims of the robot in the round expire, one is added.   *)
FinalStep ==
    /\ \A c \in DOMAIN answers : \A i \in Ids :
          answers[c][i] # NoAnswer => answers'[c][i] = answers[c][i]
    /\ \A c \in DOMAIN claims : claims[c].closure # "open" => claims'[c] = claims[c]

CurrentStep ==
    \A r \in RoundNumbers : \A b \in Robots :
        opinions'[r][b] # opinions[r][b] => opinions'[r][b].about = problem.basic

LEMMA ClaimRowsOf ==
    ASSUME RIInv, NEW b \in Robots, Claim(b)
    PROVE  /\ claims' \in Seq(ClaimRows) /\ Len(claims') = Len(claims) + 1
           /\ claims'[Len(claims) + 1] = Fresh(b)
           /\ \A c \in DOMAIN claims :
                 \/ claims'[c] = claims[c] /\ c \notin Claiming(b)
                 \/ /\ claims[c].closure = "open" /\ claims'[c].closure = "expired"
                    /\ SameClaim(claims'[c], claims[c])
<1>. DEFINE mid == [c \in DOMAIN claims |-> IF c \in Claiming(b) THEN Expired(c) ELSE claims[c]]
<1>1. /\ DOMAIN claims = 1..Len(claims) /\ Len(claims) \in Nat /\ RobotRows /\ IInv
      /\ \A c \in DOMAIN claims : claims[c] \in ClaimRows
  BY RowFacts DEF RIInv
<1>2. ASSUME NEW c \in DOMAIN claims
      PROVE  /\ mid[c] \in ClaimRows
             /\ \/ mid[c] = claims[c] /\ c \notin Claiming(b)
                \/ /\ claims[c].closure = "open" /\ mid[c].closure = "expired"
                   /\ SameClaim(mid[c], claims[c])
  <2>1. claims[c] \in ClaimRows
    BY <1>1
  <2>2. CASE c \in Claiming(b)
    <3>1. mid[c] = [claims[c] EXCEPT !.closure = "expired"] /\ claims[c].closure = "open"
      BY <2>2 DEF Claiming, Expired
    <3>. QED BY <2>1, <3>1 DEF ClaimRows, Closures, SameClaim
  <2>3. CASE c \notin Claiming(b)
    BY <2>1, <2>3
  <2>. QED BY <2>2, <2>3
<1>3. mid \in [1..Len(claims) -> ClaimRows]
  BY <1>1, <1>2
<1>4. Fresh(b) \in ClaimRows
  <2>1. problem \in Problems /\ problem.round \in RoundNumbers
    BY <1>1, ReviewAssumption, PendingRound DEF IInv, TypeOK, Claim
  <2>. QED BY <1>1, <2>1, RobotAssumption DEF Fresh, ClaimRows, Problems, RobotRows, Closures, RobotAssumption
<1>5. claims' = Append(mid, Fresh(b))
  BY DEF Claim
<1>. HIDE DEF mid
<1>6. mid \in Seq(ClaimRows) /\ Len(mid) = Len(claims)
  BY <1>1, <1>3, Resequenced
<1>7. /\ claims' \in Seq(ClaimRows) /\ Len(claims') = Len(claims) + 1
      /\ claims'[Len(claims) + 1] = Fresh(b)
      /\ \A c \in 1..Len(claims) : claims'[c] = mid[c]
  BY <1>4, <1>5, <1>6, AppendProperties
<1>. QED BY <1>1, <1>2, <1>7

LEMMA ClaimKeeps ==
    ASSUME RIInv, NEW b \in Robots, Claim(b)
    PROVE  RIInv' /\ FinalStep /\ CurrentStep
<1>. DEFINE n == Len(claims)
<1>1. /\ DOMAIN claims = 1..n /\ n \in Nat /\ DOMAIN claims \subseteq 1..MaxClaims
      /\ \A c \in DOMAIN claims : claims[c] \in ClaimRows
      /\ IInv /\ RobotRows /\ ClaimsCurrent /\ OpenFacts /\ CompletedFacts /\ SuccessFacts
  BY RowFacts DEF RIInv
<1>2. /\ claims' \in Seq(ClaimRows) /\ Len(claims') = n + 1
      /\ claims'[n + 1] = Fresh(b)
      /\ \A c \in DOMAIN claims :
            \/ claims'[c] = claims[c] /\ c \notin Claiming(b)
            \/ /\ claims[c].closure = "open" /\ claims'[c].closure = "expired"
               /\ SameClaim(claims'[c], claims[c])
  BY ClaimRowsOf
<1>3. UNCHANGED <<vars, answers, catalog>> /\ n < MaxClaims
      /\ rounds[problem.round].state = "open" /\ opinions[problem.round][b] = NoOpinion
  BY DEF Claim
<1>4. /\ IInv' /\ RobotsKept /\ rounds' = rounds /\ opinions' = opinions
      /\ problem' = problem /\ answers' = answers /\ catalog' = catalog
  BY <1>1, <1>3, ReviewStill
<1>5. /\ Fresh(b).robot = b /\ Fresh(b).round = problem.round /\ Fresh(b).closure = "open"
      /\ Fresh(b).revision = problem.revision /\ Fresh(b).basic = problem.basic
  BY DEF Fresh
<1>6. DOMAIN claims' = 1..(n + 1) /\ \A c \in DOMAIN claims' : c \in DOMAIN claims \/ c = n + 1
  BY <1>1, <1>2
<1>. HIDE DEF n
<1>7. ASSUME NEW c \in DOMAIN claims
      PROVE  /\ SameClaim(claims'[c], claims[c])
             /\ claims'[c].closure = "open" => claims[c].closure = "open" /\ c \notin Claiming(b)
             /\ claims'[c].closure = "completed" <=> claims[c].closure = "completed"
             /\ claims[c].closure # "open" => claims'[c] = claims[c]
             /\ c \in 1..MaxClaims /\ c # n + 1
  BY <1>1, <1>2 DEF SameClaim
<1>8. RobotRows'
  <2>1. \A c \in 1..MaxClaims, i \in Ids : answers'[c][i] # NoAnswer => c <= Len(claims')
    BY <1>1, <1>2, <1>4 DEF RobotRows, n
  <2>2. n + 1 <= MaxClaims
    BY <1>1, <1>3, RobotAssumption DEF RobotAssumption
  <2>. QED BY <1>1, <1>2, <1>4, <2>1, <2>2 DEF RobotRows
<1>9. ClaimsCurrent'
  <2>1. problem.revision \in Nat
    BY <1>1 DEF IInv, TypeOK, Problems
  <2>2. ASSUME NEW c \in DOMAIN claims'
        PROVE  /\ claims'[c].revision <= problem.revision
               /\ claims'[c].revision = problem.revision => claims'[c].basic = problem.basic
    BY <1>1, <1>2, <1>5, <1>6, <1>7, <2>1 DEF ClaimsCurrent, SameClaim
  <2>. QED BY <1>4, <2>2 DEF ClaimsCurrent
<1>10. OpenFacts'
  <2>1. ASSUME NEW c \in DOMAIN claims', claims'[c].closure = "open"
        PROVE  /\ rounds[claims'[c].round].state = "open"
               /\ opinions[claims'[c].round][claims'[c].robot] = NoOpinion
    BY <1>1, <1>2, <1>3, <1>5, <1>6, <1>7, <2>1 DEF OpenFacts, SameClaim
  <2>2. ASSUME NEW c \in DOMAIN claims, claims'[c].closure = "open" PROVE claims'[c].robot # b
    <3>1. claims[c].closure = "open" /\ c \notin Claiming(b) /\ claims'[c].robot = claims[c].robot
      BY <1>7, <2>2 DEF SameClaim
    <3>2. rounds[claims[c].round].state = "open" /\ claims[c].round \in RoundNumbers
      BY <1>1, <3>1 DEF OpenFacts, ClaimRows
    <3>3. claims[c].round = problem.round
      BY <1>1, <3>2 DEF IInv, StatusMatchesRound
    <3>. QED BY <3>1, <3>3 DEF Claiming
  <2>3. ASSUME NEW c \in DOMAIN claims', NEW d \in DOMAIN claims', claims'[c].closure = "open",
               claims'[d].closure = "open", claims'[c].robot = claims'[d].robot
        PROVE  c = d
    <3>1. CASE c \in DOMAIN claims /\ d \in DOMAIN claims
      BY <1>1, <1>7, <2>3, <3>1 DEF OpenFacts, SameClaim
    <3>2. CASE c = n + 1 \/ d = n + 1
      BY <1>2, <1>5, <1>6, <2>2, <2>3, <3>2
    <3>. QED BY <1>6, <3>1, <3>2
  <2>. QED BY <1>4, <2>1, <2>3 DEF OpenFacts
<1>11. CompletedFacts'
  <2>1. ASSUME NEW c \in DOMAIN claims', claims'[c].closure = "completed"
        PROVE  /\ c \in DOMAIN claims /\ claims[c].closure = "completed"
               /\ claims'[c].robot = claims[c].robot /\ claims'[c].round = claims[c].round
    BY <1>2, <1>5, <1>6, <1>7, <2>1 DEF SameClaim
  <2>2. ASSUME NEW c \in DOMAIN claims', claims'[c].closure = "completed"
        PROVE  opinions[claims'[c].round][claims'[c].robot] # NoOpinion
    BY <1>1, <2>1, <2>2 DEF CompletedFacts
  <2>3. ASSUME NEW c \in DOMAIN claims', NEW d \in DOMAIN claims', claims'[c].closure = "completed",
               claims'[d].closure = "completed", claims'[c].robot = claims'[d].robot,
               claims'[c].round = claims'[d].round
        PROVE  c = d
    BY <1>1, <2>1, <2>3 DEF CompletedFacts
  <2>4. ASSUME NEW a \in Robots, NEW r \in RoundNumbers, opinions[r][a] # NoOpinion
        PROVE  \E c \in DOMAIN claims' : /\ claims'[c].closure = "completed"
                                         /\ claims'[c].robot = a /\ claims'[c].round = r
    <3>1. PICK c \in DOMAIN claims : /\ claims[c].closure = "completed"
                                     /\ claims[c].robot = a /\ claims[c].round = r
      BY <1>1, <2>4 DEF CompletedFacts
    <3>2. c \in DOMAIN claims'
      BY <1>1, <1>6
    <3>. QED BY <1>7, <3>1, <3>2
  <2>. QED BY <1>4, <2>2, <2>3, <2>4 DEF CompletedFacts
<1>12. SuccessFacts'
  <2>. SUFFICES ASSUME NEW c \in DOMAIN claims'
                PROVE  /\ claims'[c].closure = "completed" =>
                            \E i \in Ids : \A j \in Ids : Success(answers[c][j]) <=> j = i
                       /\ claims'[c].closure # "completed" => \A j \in Ids : ~Success(answers[c][j])
    BY <1>4 DEF SuccessFacts, Success
  <2>1. CASE c \in DOMAIN claims
    BY <1>1, <1>7, <2>1 DEF SuccessFacts
  <2>2. CASE c = n + 1
    <3>1. c \in 1..MaxClaims /\ ~(c <= n)
      BY <1>1, <1>3, <2>2, RobotAssumption DEF RobotAssumption
    <3>2. \A j \in Ids : answers[c][j] = NoAnswer
      BY <1>1, <3>1 DEF RobotRows, n
    <3>. QED BY <1>2, <1>5, <2>2, <3>2 DEF Success, NoAnswer
  <2>. QED BY <1>6, <2>1, <2>2
<1>13. FinalStep
  BY <1>4, <1>7 DEF FinalStep
<1>14. CurrentStep
  BY <1>4 DEF CurrentStep
<1>. QED BY <1>4, <1>8, <1>9, <1>10, <1>11, <1>12, <1>13, <1>14 DEF RIInv

-----------------------------------------------------------------------------
(* A completion.                                                           *)
LEMMA CompleteRows ==
    ASSUME RIInv, NEW c \in DOMAIN claims, NEW m \in Messages(c), Complete(m)
    PROVE  /\ IInv' /\ RevisionNamesBasic
           /\ problem.round \in RoundNumbers /\ problem.round = claims[c].round
           /\ claims[c].closure = "open" /\ claims[c].revision = problem.revision
           /\ \E new : /\ new # NoOpinion /\ new.about = claims[c].basic
                       /\ \A r \in RoundNumbers, b \in Robots :
                             opinions'[r][b] = IF r = problem.round /\ b = claims[c].robot
                                               THEN new ELSE opinions[r][b]
           /\ claims' \in Seq(ClaimRows) /\ Len(claims') = Len(claims)
           /\ SameClaim(claims'[c], claims[c]) /\ claims'[c].closure = "completed"
           /\ \A d \in DOMAIN claims \ {c} :
                 /\ \/ claims'[d] = claims[d]
                    \/ /\ claims[d].closure = "open" /\ claims'[d].closure = "round_closed"
                       /\ SameClaim(claims'[d], claims[d])
                 /\ claims'[d].closure = "open" => rounds'[claims[d].round].state = "open"
<1>1. /\ DOMAIN claims = 1..Len(claims) /\ \A d \in DOMAIN claims : claims[d] \in ClaimRows
      /\ IInv /\ RobotRows /\ OpenFacts /\ claims \in Seq(ClaimRows)
  BY RowFacts DEF RIInv, RobotRows
<1>2. m.claim = c /\ m.op = "complete" /\ Judge(m) = "ready" /\ m.payload[2] \in Opinions
  BY <1>1, MessageFacts DEF Complete
<1>3. /\ claims[c].closure = "open" /\ problem.status = "pending"
      /\ problem.round = claims[c].round /\ problem.revision = claims[c].revision
  BY <1>2, JudgeFacts
<1>4. /\ claims[c].robot \in Reviewers /\ claims[c].robot \in Robots
      /\ claims[c].basic \in Contents /\ m.payload[2] \in Verdicts
      /\ Robots \subseteq Reviewers
  BY <1>1, <1>2, RobotAssumption DEF ClaimRows, Reviewers, RobotAssumption
<1>5. PICK verdict, about, u : verdict = m.payload[2] /\ about = claims[c].basic /\ u = claims[c].robot
  OBVIOUS
<1>6. Opine(u, verdict, about) /\ UNCHANGED <<envVars, requests>>
  BY <1>2, <1>5 DEF Complete
<1>7. Effect /\ OpinionsKept /\ forced' = forced
  BY <1>1, <1>4, <1>5, <1>6, ReviewAssumption, OpineEffect DEF Effect
<1>8. IInv' /\ RevisionNamesBasic
  <2>1. /\ policy' \in Policies /\ ruleUp' \in BOOLEAN /\ mayReview' \subseteq Reviewers
        /\ \A q \in requests' : Sound(q)
    BY <1>1, <1>6 DEF IInv, TypeOK, envVars
  <2>. QED BY <1>1, <1>7, <2>1, ReviewAssumption, EffectKeepsIInv, EffectOnRevision
<1>9. \E new : /\ new # NoOpinion /\ new.about = claims[c].basic
               /\ \A r \in RoundNumbers, b \in Robots :
                     opinions'[r][b] = IF r = problem.round /\ b = claims[c].robot
                                       THEN new ELSE opinions[r][b]
  <2>1. PICK new : new = [verdict |-> verdict, about |-> about]
    OBVIOUS
  <2>2. new # NoOpinion /\ new.about = about
    BY <1>4, <1>5, <2>1 DEF NoOpinion, Verdicts
  <2>3. \A r \in RoundNumbers, v \in Reviewers :
          opinions'[r][v] = IF r = problem.round /\ v = u THEN new ELSE opinions[r][v]
    BY <1>1, <1>4, <1>5, <1>6, <2>1, ReviewAssumption, OpinionOfOneReviewer
  <2>. QED BY <1>4, <1>5, <2>2, <2>3
<1>10. PICK row : row = [claims[c] EXCEPT !.closure = "completed"]
  OBVIOUS
<1>11. row \in ClaimRows /\ SameClaim(row, claims[c]) /\ row.closure = "completed"
  <2>1. claims[c] \in ClaimRows
    BY <1>1
  <2>. QED BY <1>10, <2>1 DEF ClaimRows, Closures, SameClaim
<1>12. PICK cs : cs = [claims EXCEPT ![c] = row]
  OBVIOUS
<1>13. /\ cs \in Seq(ClaimRows) /\ Len(cs) = Len(claims) /\ DOMAIN cs = DOMAIN claims
       /\ \A d \in DOMAIN claims : cs[d] = IF d = c THEN row ELSE claims[d]
  BY <1>1, <1>11, <1>12, ExceptSeq
<1>14. claims' = RoundCloses(cs)
  BY <1>2, <1>10, <1>12 DEF Complete
<1>15. \A d \in DOMAIN cs : cs[d].closure = "open" => rounds[cs[d].round].state = "open"
  BY <1>1, <1>11, <1>13 DEF OpenFacts
<1>16. /\ claims' \in Seq(ClaimRows) /\ Len(claims') = Len(cs)
       /\ \A d \in DOMAIN cs :
             /\ \/ claims'[d] = cs[d]
                \/ /\ cs[d].closure = "open" /\ claims'[d].closure = "round_closed"
                   /\ SameClaim(claims'[d], cs[d])
             /\ claims'[d].closure = "open" => rounds'[cs[d].round].state = "open"
  BY <1>1, <1>7, <1>13, <1>14, <1>15, ReviewAssumption, ClosingTheRound
<1>17. problem.round \in RoundNumbers
  BY <1>1, <1>3, ReviewAssumption, PendingRound
<1>. QED BY <1>3, <1>8, <1>9, <1>11, <1>13, <1>16, <1>17

LEMMA CompleteKeeps ==
    ASSUME RIInv, NEW c \in DOMAIN claims, NEW m \in Messages(c), Complete(m)
    PROVE  RIInv' /\ FinalStep /\ CurrentStep
<1>1. /\ DOMAIN claims = 1..Len(claims) /\ DOMAIN claims \subseteq 1..MaxClaims
      /\ \A d \in DOMAIN claims : claims[d] \in ClaimRows
      /\ IInv /\ RobotRows /\ ClaimsCurrent /\ OpenFacts /\ CompletedFacts /\ SuccessFacts
  BY RowFacts DEF RIInv
<1>2. /\ IInv' /\ RevisionNamesBasic
      /\ problem.round \in RoundNumbers /\ problem.round = claims[c].round
      /\ claims[c].closure = "open" /\ claims[c].revision = problem.revision
      /\ claims' \in Seq(ClaimRows) /\ Len(claims') = Len(claims)
      /\ SameClaim(claims'[c], claims[c]) /\ claims'[c].closure = "completed"
  BY CompleteRows
<1>3. PICK new : /\ new # NoOpinion /\ new.about = claims[c].basic
                 /\ \A r \in RoundNumbers, b \in Robots :
                       opinions'[r][b] = IF r = problem.round /\ b = claims[c].robot
                                         THEN new ELSE opinions[r][b]
  BY CompleteRows
<1>4. ASSUME NEW d \in DOMAIN claims, d # c
      PROVE  /\ \/ claims'[d] = claims[d]
                \/ /\ claims[d].closure = "open" /\ claims'[d].closure = "round_closed"
                   /\ SameClaim(claims'[d], claims[d])
             /\ claims'[d].closure = "open" => rounds'[claims[d].round].state = "open"
  BY <1>4, CompleteRows
<1>5. DOMAIN claims' = DOMAIN claims
  BY <1>1, <1>2
<1>6. /\ m.claim = c /\ m.op = "complete" /\ m.id \in Ids /\ Judge(m) = "ready" /\ Remember(m)
      /\ catalog' = catalog
  BY <1>1, MessageFacts DEF Complete
<1>7. /\ answers' \in [1..MaxClaims -> [Ids -> Answers \cup {NoAnswer}]]
      /\ \A d \in 1..MaxClaims, i \in Ids :
            /\ answers[d][i] # NoAnswer => answers'[d][i] = answers[d][i]
            /\ answers'[d][i] # NoAnswer => d <= Len(claims)
            /\ d # c \/ i # m.id => answers'[d][i] = answers[d][i]
      /\ Success(answers'[c][m.id])
  <2>1. answers[c][m.id] = NoAnswer
    BY <1>6, JudgeFacts
  <2>. QED BY <1>1, <1>6, <2>1, RememberFacts DEF Success
<1>8. ASSUME NEW d \in DOMAIN claims
      PROVE  /\ SameClaim(claims'[d], claims[d])
             /\ claims'[d].closure = "completed" <=> d = c \/ claims[d].closure = "completed"
             /\ claims'[d].closure = "open" => /\ d # c /\ claims[d].closure = "open"
                                               /\ rounds'[claims[d].round].state = "open"
             /\ claims[d].closure # "open" => claims'[d] = claims[d]
             /\ claims[d].round \in RoundNumbers /\ claims[d].robot \in Robots
             /\ d \in 1..MaxClaims /\ claims[d].revision \in Nat
  <2>1. claims[d].round \in RoundNumbers /\ claims[d].robot \in Robots
        /\ d \in 1..MaxClaims /\ claims[d].revision \in Nat
    BY <1>1 DEF ClaimRows
  <2>2. CASE d = c
    BY <1>2, <2>1, <2>2
  <2>3. CASE d # c
    <3>1. /\ \/ claims'[d] = claims[d]
             \/ /\ claims[d].closure = "open" /\ claims'[d].closure = "round_closed"
                /\ SameClaim(claims'[d], claims[d])
          /\ claims'[d].closure = "open" => rounds'[claims[d].round].state = "open"
      BY <1>4, <2>3
    <3>. QED BY <2>1, <2>3, <3>1 DEF SameClaim
  <2>. QED BY <2>2, <2>3
<1>9. RobotRows'
  BY <1>1, <1>2, <1>6, <1>7 DEF RobotRows
<1>10. ClaimsCurrent'
  <2>1. problem.revision \in Nat /\ problem'.revision \in Nat
    BY <1>1, <1>2 DEF IInv, TypeOK, Problems
  <2>. SUFFICES ASSUME NEW d \in DOMAIN claims
                PROVE  /\ claims'[d].revision <= problem'.revision
                       /\ claims'[d].revision = problem'.revision => claims'[d].basic = problem'.basic
    BY <1>5 DEF ClaimsCurrent
  <2>2. claims'[d].revision = claims[d].revision /\ claims'[d].basic = claims[d].basic
        /\ claims[d].revision \in Nat
    BY <1>8 DEF SameClaim
  <2>3. /\ claims[d].revision <= problem.revision
        /\ claims[d].revision = problem.revision => claims[d].basic = problem.basic
    BY <1>1 DEF ClaimsCurrent
  <2>. QED BY <1>2, <2>1, <2>2, <2>3 DEF RevisionNamesBasic
<1>11. OpenFacts'
  <2>1. ASSUME NEW d \in DOMAIN claims, claims'[d].closure = "open"
        PROVE  /\ rounds'[claims'[d].round].state = "open"
               /\ opinions'[claims'[d].round][claims'[d].robot] = NoOpinion
    <3>1. /\ d # c /\ claims[d].closure = "open" /\ rounds'[claims[d].round].state = "open"
          /\ claims'[d].round = claims[d].round /\ claims'[d].robot = claims[d].robot
          /\ claims[d].round \in RoundNumbers /\ claims[d].robot \in Robots
      BY <1>8, <2>1 DEF SameClaim
    <3>2. claims[d].robot # claims[c].robot
          /\ opinions[claims[d].round][claims[d].robot] = NoOpinion
      BY <1>1, <1>2, <3>1 DEF OpenFacts
    <3>. QED BY <1>3, <3>1, <3>2
  <2>2. ASSUME NEW d \in DOMAIN claims, NEW e \in DOMAIN claims, claims'[d].closure = "open",
               claims'[e].closure = "open", claims'[d].robot = claims'[e].robot
        PROVE  d = e
    BY <1>1, <1>8, <2>2 DEF OpenFacts, SameClaim
  <2>. QED BY <1>5, <2>1, <2>2 DEF OpenFacts
<1>12. CompletedFacts'
  <2>1. opinions[claims[c].round][claims[c].robot] = NoOpinion
    BY <1>1, <1>2 DEF OpenFacts
  <2>2. ASSUME NEW d \in DOMAIN claims, d # c, claims[d].closure = "completed"
        PROVE  opinions[claims[d].round][claims[d].robot] # NoOpinion
    BY <1>1, <2>2 DEF CompletedFacts
  <2>3. ASSUME NEW d \in DOMAIN claims, claims'[d].closure = "completed"
        PROVE  opinions'[claims'[d].round][claims'[d].robot] # NoOpinion
    BY <1>2, <1>3, <1>8, <2>2, <2>3 DEF SameClaim
  <2>4. ASSUME NEW d \in DOMAIN claims, NEW e \in DOMAIN claims,
               claims'[d].closure = "completed", claims'[e].closure = "completed",
               claims'[d].robot = claims'[e].robot, claims'[d].round = claims'[e].round
        PROVE  d = e
    <3>1. claims[d].robot = claims[e].robot /\ claims[d].round = claims[e].round
      BY <1>8, <2>4 DEF SameClaim
    <3>2. (d = c \/ claims[d].closure = "completed") /\ (e = c \/ claims[e].closure = "completed")
      BY <1>8, <2>4
    <3>3. CASE d # c /\ e # c
      BY <1>1, <3>1, <3>2, <3>3 DEF CompletedFacts
    <3>4. CASE (d = c) # (e = c)
      BY <2>1, <2>2, <3>1, <3>2, <3>4
    <3>. QED BY <3>3, <3>4
  <2>5. ASSUME NEW b \in Robots, NEW r \in RoundNumbers, opinions'[r][b] # NoOpinion
        PROVE  \E d \in DOMAIN claims : /\ claims'[d].closure = "completed"
                                        /\ claims'[d].robot = b /\ claims'[d].round = r
    <3>1. CASE r = problem.round /\ b = claims[c].robot
      BY <1>2, <3>1 DEF SameClaim
    <3>2. CASE ~(r = problem.round /\ b = claims[c].robot)
      <4>1. opinions[r][b] # NoOpinion
        BY <1>3, <2>5, <3>2
      <4>2. PICK d \in DOMAIN claims : /\ claims[d].closure = "completed"
                                       /\ claims[d].robot = b /\ claims[d].round = r
        BY <1>1, <4>1 DEF CompletedFacts
      <4>. QED BY <1>8, <4>2 DEF SameClaim
    <3>. QED BY <3>1, <3>2
  <2>. QED BY <1>5, <2>3, <2>4, <2>5 DEF CompletedFacts
<1>13. SuccessFacts'
  <2>. SUFFICES ASSUME NEW d \in DOMAIN claims
                PROVE  /\ claims'[d].closure = "completed" =>
                            \E i \in Ids : \A j \in Ids : Success(answers'[d][j]) <=> j = i
                       /\ claims'[d].closure # "completed" => \A j \in Ids : ~Success(answers'[d][j])
    BY <1>5 DEF SuccessFacts, Success
  <2>1. CASE d = c
    <3>1. \A j \in Ids : ~Success(answers[c][j])
      BY <1>1, <1>2 DEF SuccessFacts
    <3>2. \A j \in Ids : Success(answers'[c][j]) <=> j = m.id
      BY <1>7, <1>8, <3>1
    <3>. QED BY <1>2, <1>6, <2>1, <3>2
  <2>2. CASE d # c
    <3>1. \A j \in Ids : answers'[d][j] = answers[d][j]
      BY <1>7, <1>8, <2>2
    <3>. QED BY <1>1, <1>8, <2>2, <3>1 DEF SuccessFacts
  <2>. QED BY <2>1, <2>2
<1>14. FinalStep
  BY <1>1, <1>7, <1>8 DEF FinalStep, RobotRows
<1>15. CurrentStep
  <2>1. claims[c].basic = problem.basic
    BY <1>1, <1>2 DEF ClaimsCurrent
  <2>. QED BY <1>3, <2>1 DEF CurrentStep
<1>. QED BY <1>2, <1>9, <1>10, <1>11, <1>12, <1>13, <1>14, <1>15 DEF RIInv
-----------------------------------------------------------------------------
LEMMA QuietOutcome ==
    ASSUME RIInv, QuietStep
    PROVE  RIInv' /\ FinalStep /\ CurrentStep
<1>1. RIInv'
  BY QuietKeeps
<1>2. FinalStep
  BY DEF FinalStep, QuietStep, RIInv, RobotRows
<1>3. CurrentStep
  BY DEF CurrentStep, QuietStep, RobotsKept
<1>. QED BY <1>1, <1>2, <1>3

LEMMA RobotStep ==
    ASSUME RIInv, [RobotNext]_robotVars
    PROVE  RIInv' /\ FinalStep /\ CurrentStep
<1>1. CASE Others
  BY <1>1, OthersQuiet, QuietOutcome
<1>2. CASE CatalogChange \/ UNCHANGED robotVars
  BY <1>2, CatalogQuiet, QuietOutcome
<1>3. ASSUME NEW b \in Robots, Claim(b) PROVE RIInv' /\ FinalStep /\ CurrentStep
  BY <1>3, ClaimKeeps
<1>4. ASSUME NEW c \in DOMAIN claims, Lapse(c) PROVE RIInv' /\ FinalStep /\ CurrentStep
  BY <1>4, LapseQuiet, QuietOutcome
<1>5. ASSUME NEW c \in DOMAIN claims, NEW m \in Messages(c), Revoke(m) \/ Reject(m) \/ Renew(m)
      PROVE  RIInv' /\ FinalStep /\ CurrentStep
  BY <1>5, MessageQuiet, QuietOutcome
<1>6. ASSUME NEW c \in DOMAIN claims, NEW m \in Messages(c), Complete(m)
      PROVE  RIInv' /\ FinalStep /\ CurrentStep
  BY <1>6, CompleteKeeps
<1>. QED BY <1>1, <1>2, <1>3, <1>4, <1>5, <1>6 DEF RobotNext

LEMMA RobotInitHolds == ASSUME RobotInit PROVE RIInv
<1>1. IInv
  BY ReviewAssumption, InitIInv DEF RobotInit
<1>2. claims = <<>> /\ DOMAIN claims = {} /\ Len(claims) = 0 /\ claims \in Seq(ClaimRows)
  BY DEF RobotInit
<1>3. answers \in [1..MaxClaims -> [Ids -> Answers \cup {NoAnswer}]]
      /\ \A c \in 1..MaxClaims, i \in Ids : answers[c][i] = NoAnswer
  BY DEF RobotInit
<1>4. RobotRows
  BY <1>2, <1>3, RobotAssumption DEF RobotInit, RobotRows, RobotAssumption
<1>5. \A r \in RoundNumbers, b \in Robots : opinions[r][b] = NoOpinion
  BY DEF RobotInit, Init, Reviewers
<1>6. ClaimsCurrent /\ OpenFacts /\ SuccessFacts
  BY <1>2 DEF ClaimsCurrent, OpenFacts, SuccessFacts
<1>7. CompletedFacts
  BY <1>2, <1>5 DEF CompletedFacts
<1>. QED BY <1>1, <1>4, <1>6, <1>7 DEF RIInv

(* The stored facts, counted.                                              *)
LEMMA OneOrNone ==
    ASSUME NEW S, NEW one \in BOOLEAN, one => \E x : S = {x}, ~one => S = {}
    PROVE  Cardinality(S) = IF one THEN 1 ELSE 0
<1>1. CASE one
  <2>1. PICK x : S = {x}
    BY <1>1
  <2>. QED BY <1>1, <2>1, FS_Singleton
<1>2. CASE ~one
  BY <1>2, FS_EmptySet
<1>. QED BY <1>1, <1>2

LEMMA FactsCount == ASSUME RIInv PROVE RobotInv
<1>1. /\ DOMAIN claims = 1..Len(claims) /\ DOMAIN claims \subseteq 1..MaxClaims
      /\ \A c \in DOMAIN claims : claims[c] \in ClaimRows
      /\ RobotRows /\ OpenFacts /\ CompletedFacts /\ SuccessFacts
  BY RowFacts DEF RIInv
<1>2. RobotTypeOK
  <2>1. \A c \in 1..MaxClaims, i \in Ids : answers[c][i] # NoAnswer =>
          /\ c <= Len(claims) /\ answers[c][i].reply \in Replies
          /\ answers[c][i].payload[1] \in 0..MaxLease
    <3>. SUFFICES ASSUME NEW c \in 1..MaxClaims, NEW i \in Ids, answers[c][i] # NoAnswer
                  PROVE  /\ c <= Len(claims) /\ answers[c][i].reply \in Replies
                         /\ answers[c][i].payload[1] \in 0..MaxLease
      OBVIOUS
    <3>1. answers[c][i] \in Answers /\ c <= Len(claims)
      BY <1>1 DEF RobotRows
    <3>. QED BY <3>1 DEF Answers
  <2>. QED BY <1>1, <2>1 DEF RobotTypeOK, RobotRows, ClaimRows
<1>3. OpenClaims
  BY <1>1 DEF OpenClaims, OpenFacts
<1>4. ASSUME NEW b \in Robots, NEW r \in RoundNumbers
      PROVE  Cardinality({c \in DOMAIN claims : claims[c].robot = b /\ claims[c].round = r
                                               /\ claims[c].closure = "completed"})
               = IF opinions[r][b] = NoOpinion THEN 0 ELSE 1
  <2>. DEFINE Done == {c \in DOMAIN claims : claims[c].robot = b /\ claims[c].round = r
                                            /\ claims[c].closure = "completed"}
  <2>1. opinions[r][b] = NoOpinion => Done = {}
    BY <1>1 DEF CompletedFacts
  <2>2. ASSUME opinions[r][b] # NoOpinion PROVE \E x : Done = {x}
    <3>1. PICK x \in DOMAIN claims : /\ claims[x].closure = "completed"
                                     /\ claims[x].robot = b /\ claims[x].round = r
      BY <1>1, <2>2 DEF CompletedFacts
    <3>2. \A y \in Done : y = x
      BY <1>1, <3>1 DEF CompletedFacts
    <3>3. x \in Done
      BY <3>1
    <3>. HIDE DEF Done
    <3>4. Done = {x}
      BY <3>2, <3>3
    <3>. QED BY <3>4
  <2>. HIDE DEF Done
  <2>3. Cardinality(Done) = IF opinions[r][b] # NoOpinion THEN 1 ELSE 0
    BY <2>1, <2>2, OneOrNone
  <2>. QED BY <2>3 DEF Done
<1>5. ASSUME NEW c \in DOMAIN claims
      PROVE  Cardinality({i \in Ids : answers[c][i].op = "complete"
                                     /\ answers[c][i].reply = "success"})
               = IF claims[c].closure = "completed" THEN 1 ELSE 0
  <2>. DEFINE Successes == {i \in Ids : answers[c][i].op = "complete"
                                       /\ answers[c][i].reply = "success"}
  <2>1. \A i : i \in Successes <=> i \in Ids /\ Success(answers[c][i])
    BY DEF Success
  <2>. HIDE DEF Successes
  <2>2. claims[c].closure # "completed" => Successes = {}
    BY <1>1, <2>1 DEF SuccessFacts
  <2>3. ASSUME claims[c].closure = "completed" PROVE \E x : Successes = {x}
    <3>1. PICK x \in Ids : \A j \in Ids : Success(answers[c][j]) <=> j = x
      BY <1>1, <2>3 DEF SuccessFacts
    <3>2. Successes = {x}
      BY <2>1, <3>1
    <3>. QED BY <3>2
  <2>4. Cardinality(Successes) = IF claims[c].closure = "completed" THEN 1 ELSE 0
    BY <2>2, <2>3, OneOrNone
  <2>. QED BY <2>4 DEF Successes
<1>6. CompletedOnce
  BY <1>4, <1>5 DEF CompletedOnce
<1>. QED BY <1>2, <1>3, <1>6 DEF RobotInv

(* The inductive invariant holds in every reachable state.                 *)
THEOREM RobotInvariant == RobotSpec => []RIInv
<1>1. RobotInit => RIInv
  BY RobotInitHolds
<1>2. RIInv /\ [RobotNext]_robotVars => RIInv'
  BY RobotStep
<1>. QED BY <1>1, <1>2, PTL DEF RobotSpec

(* No claim stays open beside a closed round or a second claim of its      *)
(* robot, and a robot's opinion, its completed claim and the stored        *)
(* success come together, once: RobotInv.                                  *)
THEOREM RobotsAreSafe == RobotSpec => []RobotInv
<1>1. RIInv => RobotInv
  BY FactsCount
<1>. QED BY <1>1, RobotInvariant, PTL

(* A robot's opinion is about the problem as it is when it is written:     *)
(* RobotOpinionsAreCurrent.                                                *)
THEOREM CurrentRobotOpinions == RobotSpec => RobotOpinionsAreCurrent
<1>1. RIInv /\ [RobotNext]_robotVars =>
        [\A r \in RoundNumbers : \A b \in Robots :
           opinions'[r][b] # opinions[r][b] => opinions'[r][b].about = problem.basic]_robotVars
  BY RobotStep DEF CurrentStep
<1>. QED BY <1>1, RobotInvariant, PTL DEF RobotSpec, RobotOpinionsAreCurrent

(* An answer and a closed claim never change: AnswersAreFinal.             *)
THEOREM FinalAnswers == RobotSpec => AnswersAreFinal
<1>1. RIInv /\ [RobotNext]_robotVars =>
        [/\ \A c \in DOMAIN answers : \A i \in Ids :
              answers[c][i] # NoAnswer => answers'[c][i] = answers[c][i]
         /\ \A c \in DOMAIN claims :
              claims[c].closure # "open" => claims'[c] = claims[c]]_robotVars
  BY RobotStep DEF FinalStep
<1>. QED BY <1>1, RobotInvariant, PTL DEF RobotSpec, AnswersAreFinal
=============================================================================
