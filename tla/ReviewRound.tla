---------------------------- MODULE ReviewRound ----------------------------
(***************************************************************************)
(* The review of one problem in apps/api: its row, its review rounds, the  *)
(* opinions given in them, and the requests of authors, reviewers and      *)
(* administrators that compete for it.  A request is composed from what    *)
(* its sender, or the first half of its handler, had read; by the time the *)
(* writing transaction runs the problem may have moved on.  Transactions   *)
(* lock the problem row, so each of them is one step.                      *)
(***************************************************************************)
EXTENDS Integers, FiniteSets

CONSTANTS
    Humans, Robots,  \* reviewers
    Contents,        \* values of the two fields a review is about
    Policies,        \* review policies an administrator may set
    MaxRounds,       \* bound of the model: rounds
    MaxRevision,     \* bound of the model: revisions
    MaxRequests      \* bound of the model: requests in flight

Reviewers == Humans \cup Robots
Verdicts  == {"approve", "changes", "reject"}
Rules     == [approvals : Nat \ {0}, rejections : Nat, robots : BOOLEAN]

ASSUME ReviewAssumption == /\ Humans \cap Robots = {}
                           /\ IsFiniteSet(Reviewers)
                           /\ Policies \subseteq Rules
                           /\ MaxRounds \in Nat \ {0}
                           /\ MaxRevision \in Nat \ {0}
                           /\ MaxRequests \in Nat

VARIABLES
    problem,    \* the row of problems, its current revision included
    rounds,     \* the rows of review_rounds
    opinions,   \* opinions[r][u]: the opinion of u in round r
    forced,     \* audited edits of frozen fields
    policy,     \* the review policy now in force
    ruleUp,     \* the plugin that owns the review rules is enabled
    mayReview,  \* who sees the problem and has problem.review for it
    requests    \* requests in flight

vars    == <<problem, rounds, opinions, forced, policy, ruleUp, mayReview, requests>>
envVars == <<policy, ruleUp, mayReview>>

RoundNumbers == 1..MaxRounds
Frozen       == {"pending", "approved"}
Problems     == [status : {"draft", "pending", "approved", "rejected"}, deleted : BOOLEAN,
                 revision : 1..MaxRevision, round : 0..MaxRounds, basic : Contents,
                 external : BOOLEAN]
NoRule       == [approvals |-> 0, rejections |-> 0, robots |-> FALSE]
RoundRows    == [state : {"none", "open", "approved", "rejected", "withdrawn"},
                 rule : Policies \cup {NoRule},
                 source : {"none", "rule", "manual", "withdrawal"},
                 counted : SUBSET Reviewers]
NoRound      == [state |-> "none", rule |-> NoRule, source |-> "none", counted |-> {}]
NoOpinion    == [verdict |-> "none", about |-> "nothing"]

TypeOK ==
    /\ problem \in Problems
    /\ rounds \in [RoundNumbers -> RoundRows]
    /\ opinions \in [RoundNumbers -> [Reviewers -> [verdict : Verdicts, about : Contents]
                                                   \cup {NoOpinion}]]
    /\ forced \in Nat
    /\ policy \in Policies
    /\ ruleUp \in BOOLEAN
    /\ mayReview \subseteq Reviewers
    /\ \A q \in requests : q.seen \in Problems /\ q.rule \in Policies \cup {NoRule}

Init ==
    /\ problem \in [status : {"draft"}, deleted : {FALSE}, revision : {1}, round : {0},
                    basic : Contents, external : {TRUE}]
    /\ rounds = [r \in RoundNumbers |-> NoRound]
    /\ opinions = [r \in RoundNumbers |-> [u \in Reviewers |-> NoOpinion]]
    /\ forced = 0
    /\ policy \in Policies
    /\ ruleUp = TRUE
    /\ mayReview = Reviewers
    /\ requests = {}

-----------------------------------------------------------------------------
(* The requests somebody can compose now.  `submit` also reads the review  *)
(* policy and prepares its rule before it writes.                          *)
Request(kind, who, arg, rule) ==
    [kind |-> kind, who |-> who, arg |-> arg, seen |-> problem, rule |-> rule]

Composed ==
    IF problem.deleted THEN {} ELSE
         {Request(k, "author", c, NoRule) : k \in {"edit", "force"}, c \in Contents}
    \cup {Request("submit", "author", "none", policy) : x \in IF ruleUp THEN {1} ELSE {}}
    \cup {Request(k, "author", "none", NoRule) : k \in {"withdraw", "delete", "apply"}}
    \cup {Request("finalize", "admin", d, NoRule) : d \in {"approved", "rejected"}}
    \cup {Request("external", "author", b, NoRule) : b \in BOOLEAN}
    \cup {Request("review", u, v, NoRule) : u \in Humans, v \in Verdicts}

(* A request that will be overtaken by others.                             *)
Ask(q) ==
    /\ Cardinality(requests) < MaxRequests
    /\ requests' = requests \cup {q}
    /\ UNCHANGED <<problem, rounds, opinions, forced, envVars>>

-----------------------------------------------------------------------------
(* replaceProblemInTransaction: the revision must be the one that was      *)
(* read; a new round opens only with a pending problem; a problem leaves   *)
(* `pending` only together with a matching end of its round.               *)
Closing(next) == problem.status = "pending" /\ next.status # "pending"

EndFor(status) == IF status \in {"approved", "rejected"} THEN status ELSE "withdrawn"

\* mutant: the revision is not compared
Replace_NoCas(next, seenRevision, roundState) ==
    /\ ~problem.deleted
    /\ next.revision <= MaxRevision
    /\ next.round \in {problem.round, problem.round + 1} \cap 0..MaxRounds
    /\ next.round # problem.round => next.status = "pending"
    /\ Closing(next) => roundState.state = EndFor(next.status)
    /\ problem' = next
    /\ rounds' = IF next.round # problem.round \/ Closing(next)
                 THEN [rounds EXCEPT ![next.round] = roundState]
                 ELSE rounds

Replace(next, seenRevision, roundState) ==
    /\ ~problem.deleted
    /\ problem.revision = seenRevision
    /\ next.revision <= MaxRevision
    /\ next.round \in {problem.round, problem.round + 1} \cap 0..MaxRounds
    /\ next.round # problem.round => next.status = "pending"
    /\ Closing(next) => roundState.state = EndFor(next.status)
    /\ problem' = next
    /\ rounds' = IF next.round # problem.round \/ Closing(next)
                 THEN [rounds EXCEPT ![next.round] = roundState]
                 ELSE rounds

Seen(q)      == ~problem.deleted /\ problem.revision = q.seen.revision
SameRound(q) == problem.round = q.seen.round

-----------------------------------------------------------------------------
(* The default review rule, over the latest opinions of the round, counts  *)
(* the opinions of those who may review now.                               *)
Usable(rule, given) ==
    {u \in mayReview : given[u].verdict # "none" /\ (u \in Robots => rule.robots)}

Voting(S, given, verdict) == {u \in S : given[u].verdict = verdict}

\* mutant: the policy now in force decides instead of the rule of the round
Evaluate_CurrentPolicy(rule, given) ==
    LET used == Usable(policy, given)
    IN  IF Cardinality(Voting(used, given, "reject")) > policy.rejections THEN "rejected"
        ELSE IF Cardinality(Voting(used, given, "approve")) >= policy.approvals THEN "approved"
        ELSE "pending"

Evaluate(rule, given) ==
    LET used == Usable(rule, given)
    IN  IF Cardinality(Voting(used, given, "reject")) > rule.rejections THEN "rejected"
        ELSE IF Cardinality(Voting(used, given, "approve")) >= rule.approvals THEN "approved"
        ELSE "pending"

(* What a human decision records as counted; without the rule, the         *)
(* opinions of the people who may review.                                  *)
Counted ==
    LET given == opinions[problem.round]
    IN  IF ruleUp THEN Usable(rounds[problem.round].rule, given)
        ELSE {u \in mayReview \cap Humans : given[u].verdict # "none"}

Ended(state, source, counted) ==
    [rounds[problem.round] EXCEPT !.state = state, !.source = source, !.counted = counted]

-----------------------------------------------------------------------------
(* The writing half of each handler.                                       *)
Edit(q) ==
    /\ q.kind = "edit"
    /\ q.seen.status \in Frozen => q.arg = q.seen.basic
    /\ Replace([q.seen EXCEPT !.basic = q.arg, !.revision = @ + 1], q.seen.revision, NoRound)
    /\ UNCHANGED <<opinions, forced>>

Submit(q) ==
    /\ q.kind = "submit"
    /\ q.seen.status \in {"draft", "rejected"}
    /\ Replace([q.seen EXCEPT !.status = "pending", !.round = @ + 1, !.revision = @ + 1],
               q.seen.revision,
               [state |-> "open", rule |-> q.rule, source |-> "none", counted |-> {}])
    /\ UNCHANGED <<opinions, forced>>

EditFrozen(q) ==
    /\ q.kind = "force"
    /\ problem.status \in Frozen
    /\ Seen(q)
    /\ Replace([problem EXCEPT !.basic = q.arg, !.revision = @ + 1], problem.revision, NoRound)
    /\ forced' = forced + 1
    /\ UNCHANGED opinions

SetExternal(q) ==
    /\ q.kind = "external"
    /\ Seen(q)
    /\ q.arg # problem.external
    /\ Replace([problem EXCEPT !.external = q.arg, !.revision = @ + 1], problem.revision, NoRound)
    /\ UNCHANGED <<opinions, forced>>

Withdraw(q) ==
    /\ q.kind = "withdraw"
    /\ problem.status \in {"pending", "approved", "rejected"}
    /\ Seen(q)
    /\ Replace([problem EXCEPT !.status = "draft", !.revision = @ + 1], problem.revision,
               Ended("withdrawn", "withdrawal", Counted))
    /\ UNCHANGED <<opinions, forced>>

Finalize(q) ==
    /\ q.kind = "finalize"
    /\ problem.status = "pending"
    /\ rounds[problem.round].state = "open"
    /\ SameRound(q) /\ Seen(q)
    /\ Replace([problem EXCEPT !.status = q.arg, !.revision = @ + 1], problem.revision,
               Ended(q.arg, "manual", Counted))
    /\ UNCHANGED <<opinions, forced>>

(* Suggestions of a closed round change only fields no review is about.    *)
Apply(q) ==
    /\ q.kind = "apply"
    /\ problem.status = "approved"
    /\ rounds[problem.round].state = "approved" /\ rounds[problem.round].counted # {}
    /\ SameRound(q) /\ Seen(q)
    /\ Replace([problem EXCEPT !.revision = @ + 1], problem.revision, NoRound)
    /\ UNCHANGED <<opinions, forced>>

Delete(q) ==
    /\ q.kind = "delete"
    /\ Seen(q)
    /\ problem' = [problem EXCEPT !.deleted = TRUE]
    /\ UNCHANGED <<rounds, opinions, forced>>

(* submitReviewInTransaction: the opinion, and the decision it leads to.   *)
\* mutant: the status of the problem is not checked
Opine_AnyStatus(u, verdict, about) ==
    /\ ~problem.deleted
    /\ problem.round > 0
    /\ u \in mayReview
    /\ ruleUp
    /\ opinions' = [opinions EXCEPT ![problem.round][u] = [verdict |-> verdict, about |-> about]]
    /\ LET rule    == rounds[problem.round].rule
           given   == opinions'[problem.round]
           outcome == Evaluate(rule, given)
       IN  IF outcome = "pending" \/ problem.status # "pending" THEN UNCHANGED <<problem, rounds>>
           ELSE Replace([problem EXCEPT !.status = outcome, !.revision = @ + 1],
                        problem.revision, Ended(outcome, "rule", Usable(rule, given)))
    /\ UNCHANGED forced

Opine(u, verdict, about) ==
    /\ ~problem.deleted
    /\ problem.status = "pending"
    /\ rounds[problem.round].state = "open"
    /\ u \in mayReview
    /\ ruleUp
    /\ opinions' = [opinions EXCEPT ![problem.round][u] = [verdict |-> verdict, about |-> about]]
    /\ LET rule    == rounds[problem.round].rule
           given   == opinions'[problem.round]
           outcome == Evaluate(rule, given)
       IN  IF outcome = "pending" THEN UNCHANGED <<problem, rounds>>
           ELSE Replace([problem EXCEPT !.status = outcome, !.revision = @ + 1],
                        problem.revision, Ended(outcome, "rule", Usable(rule, given)))
    /\ UNCHANGED forced

Review(q) ==
    /\ q.kind = "review"
    /\ SameRound(q)
    /\ Opine(q.who, q.arg, q.seen.basic)

Write(q) ==
    \/ Edit(q) \/ Submit(q) \/ EditFrozen(q) \/ SetExternal(q) \/ Withdraw(q) \/ Finalize(q)
    \/ Apply(q) \/ Delete(q) \/ Review(q)

(* A request is written at once or after others, or refused: it lacks a    *)
(* permission, fails a validation, a submit check or a comparison, or its  *)
(* connection is gone.                                                     *)
Direct(q) == Write(q) /\ UNCHANGED <<envVars, requests>>

Serve(q) == Write(q) /\ requests' = requests \ {q} /\ UNCHANGED envVars

Refuse(q) == /\ requests' = requests \ {q}
             /\ UNCHANGED <<problem, rounds, opinions, forced, envVars>>

-----------------------------------------------------------------------------
(* Administration around the problem.                                      *)
SetPolicy(p) == /\ p # policy
                /\ policy' = p
                /\ UNCHANGED <<problem, rounds, opinions, forced, ruleUp, mayReview, requests>>

TogglePlugin == /\ ruleUp' = ~ruleUp
                /\ UNCHANGED <<problem, rounds, opinions, forced, policy, mayReview, requests>>

SetReviewer(u) == /\ mayReview' = IF u \in mayReview THEN mayReview \ {u} ELSE mayReview \cup {u}
                  /\ UNCHANGED <<problem, rounds, opinions, forced, policy, ruleUp, requests>>

(* Deactivating a tag revises the problems that carry it, deleted or not.  *)
Retag == /\ problem.revision < MaxRevision
         /\ problem' = [problem EXCEPT !.revision = @ + 1]
         /\ UNCHANGED <<rounds, opinions, forced, envVars, requests>>

Activity ==
    \/ \E q \in Composed : Direct(q) \/ Ask(q)
    \/ \E q \in requests : Serve(q) \/ Refuse(q)
    \/ \E p \in Policies : SetPolicy(p)
    \/ \E u \in Reviewers : SetReviewer(u)
    \/ TogglePlugin

Next == Activity \/ Retag

Spec == Init /\ [][Next]_vars
-----------------------------------------------------------------------------
(* The status of the problem and the state of its rounds tell the same     *)
(* story: exactly the current round of a pending problem is open, an       *)
(* approved or rejected problem ended its current round that way, earlier  *)
(* rounds are over and later ones do not exist.  No stale save of an       *)
(* author reopens, skips or strands a round.                               *)
StatusMatchesRound ==
    /\ \A r \in RoundNumbers : rounds[r].state = "none" <=> r > problem.round
    /\ \A r \in RoundNumbers : rounds[r].state = "open"
                                 <=> problem.status = "pending" /\ r = problem.round
    /\ problem.status \in {"approved", "rejected"}
         => problem.round > 0 /\ rounds[problem.round].state = problem.status

(* A decision of the rule can always be justified afterwards: the opinions *)
(* it counted satisfy the rule the round was opened with, whatever policy  *)
(* is in force by then, and were all given in that round.                  *)
RuleDecisionsJustified ==
    \A r \in RoundNumbers : rounds[r].source = "rule" =>
        LET rule     == rounds[r].rule
            approves == Cardinality(Voting(rounds[r].counted, opinions[r], "approve"))
            rejects  == Cardinality(Voting(rounds[r].counted, opinions[r], "reject"))
        IN  /\ rounds[r].state = "approved"
                 => approves >= rule.approvals /\ rejects <= rule.rejections
            /\ rounds[r].state = "rejected" => rejects > rule.rejections
            /\ ~rule.robots => rounds[r].counted \cap Robots = {}
            /\ \A u \in rounds[r].counted : opinions[r][u] # NoOpinion

(* The rows are well formed, status and rounds tell one story, and what    *)
(* the rule decided can be justified.                                      *)
ReviewInv == TypeOK /\ StatusMatchesRound /\ RuleDecisionsJustified

(* A round that is over is read-only: neither its record nor an opinion in *)
(* it ever changes again; an open round keeps the rule it was opened with. *)
ClosedRoundsAreFinal ==
    [][\A r \in RoundNumbers :
         /\ rounds[r].state \notin {"none", "open"}
              => rounds'[r] = rounds[r] /\ opinions'[r] = opinions[r]
         /\ rounds[r].state = "open" => rounds'[r].rule = rounds[r].rule]_vars

(* While a problem is under review or approved, what the review is about   *)
(* changes only through the audited edit of an administrator.              *)
FrozenNeedsAudit ==
    [][problem.status \in Frozen /\ problem'.basic # problem.basic => forced' = forced + 1]_vars

(* The status changes only along the workflow, each time with a revision   *)
(* of its own, and only a submission starts a round.                       *)
StatusMovesAreLegal ==
    [][/\ problem'.round # problem.round
            => /\ problem'.round = problem.round + 1
               /\ problem.status \in {"draft", "rejected"} /\ problem'.status = "pending"
       /\ problem'.status # problem.status
            => /\ problem'.revision = problem.revision + 1
               /\ <<problem.status, problem'.status>> \in
                      {<<"draft", "pending">>, <<"rejected", "pending">>,
                       <<"pending", "approved">>, <<"pending", "rejected">>,
                       <<"pending", "draft">>, <<"approved", "draft">>, <<"rejected", "draft">>}]_vars

(* What docs/spec.md:13 says: an opinion whose content digest does not     *)
(* match cannot be written.                                                *)
OpinionsAreCurrent ==
    [][\A r \in RoundNumbers : \A u \in Reviewers :
         opinions'[r][u] # opinions[r][u] => opinions'[r][u].about = problem.basic]_vars
=============================================================================
