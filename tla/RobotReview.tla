---------------------------- MODULE RobotReview ----------------------------
(***************************************************************************)
(* Robots review problems through leases: a robot claims the open round of *)
(* a problem, works outside, renews the lease and hands in its opinion,    *)
(* while people edit, close and withdraw the same problem (ReviewRound).   *)
(* Every renewal and completion carries a request identifier, so that a    *)
(* robot that lost the answer may send it again.  Each operation is one    *)
(* transaction under the lock of the problem row; messages are late,       *)
(* duplicated or never sent, so any of them may arrive in any state.       *)
(***************************************************************************)
EXTENDS ReviewRound, Sequences

CONSTANTS
    Ids,         \* request identifiers a robot uses for one claim
    Opinions,    \* verdicts a robot gives
    MaxClaims,   \* bound of the model: claims ever made
    MaxLease,    \* bound of the model: renewals of a claim
    MaxCatalog   \* bound of the model: versions of the tag catalog

ASSUME RobotAssumption == /\ Opinions \subseteq Verdicts
                          /\ MaxClaims \in Nat \ {0}
                          /\ MaxLease \in Nat
                          /\ MaxCatalog \in Nat \ {0}

VARIABLES
    claims,    \* the rows of review_assignments, in the order they were made
    answers,   \* review_assignment_operations: answers[c][i] is what request i on claim c got
    catalog    \* the version of the tag catalog

robotVars == <<vars, claims, answers, catalog>>

Closures == {"open", "completed", "expired", "round_closed", "permission_revoked",
             "content_changed"}
Replies  == {"success", "not_found", "conflict"}
NoAnswer == [op |-> "none", payload |-> <<>>, reply |-> "none"]

(* What a robot may send about claim c: with the lease it knows, which a   *)
(* renewal makes old, and what the claim told it.                          *)
Messages(c) ==
    [claim : {c}, id : Ids, op : {"renew"}, payload : (0..claims[c].lease) \X {"none"}]
    \cup
    [claim : {c}, id : Ids, op : {"complete"}, payload : (0..claims[c].lease) \X Opinions]

RobotTypeOK ==
    /\ claims \in Seq([robot : Robots, round : RoundNumbers, revision : 1..MaxRevision,
                       catalog : 1..MaxCatalog, basic : Contents, lease : 0..MaxLease,
                       over : BOOLEAN, closure : Closures])
    /\ Len(claims) <= MaxClaims
    /\ DOMAIN answers = 1..MaxClaims
    /\ \A c \in 1..MaxClaims : \A i \in Ids :
         answers[c][i] # NoAnswer => /\ c <= Len(claims)
                                     /\ answers[c][i].reply \in Replies
                                     /\ answers[c][i].payload[1] \in 0..MaxLease
    /\ catalog \in 1..MaxCatalog

RobotInit ==
    /\ Init
    /\ claims = <<>>
    /\ answers = [c \in 1..MaxClaims |-> [i \in Ids |-> NoAnswer]]
    /\ catalog = 1

-----------------------------------------------------------------------------
(* Steps of ReviewRound: the transaction that ends a round also closes the *)
(* claims that are still open in it.                                       *)
\* mutant: the claims of the round stay open
RoundCloses_Forgotten(cs) == cs

RoundCloses(cs) ==
    IF problem.status = "pending" /\ problem'.status # "pending"
    THEN [c \in DOMAIN cs |->
            IF cs[c].round = problem.round /\ cs[c].closure = "open"
            THEN [cs[c] EXCEPT !.closure = "round_closed"]
            ELSE cs[c]]
    ELSE cs

Others ==
    /\ Activity
    /\ claims' = RoundCloses(claims)
    /\ UNCHANGED <<answers, catalog>>

(* The tag catalog changes, and revises the problem when it carries the    *)
(* tag that is deactivated.                                                *)
CatalogChange ==
    /\ catalog < MaxCatalog
    /\ catalog' = catalog + 1
    /\ Retag \/ UNCHANGED vars
    /\ UNCHANGED <<claims, answers>>

-----------------------------------------------------------------------------
MayClaim(b) == ~problem.deleted /\ problem.external /\ b \in mayReview

Claiming(b) == {c \in DOMAIN claims : claims[c].robot = b /\ claims[c].round = problem.round
                                      /\ claims[c].closure = "open"}

Expired(c) == [claims[c] EXCEPT !.closure = "expired"]

Fresh(b) == [robot |-> b, round |-> problem.round, revision |-> problem.revision,
             catalog |-> catalog, basic |-> problem.basic, lease |-> 0, over |-> FALSE,
             closure |-> "open"]

Claim(b) ==
    /\ MayClaim(b)
    /\ problem.status = "pending" /\ rounds[problem.round].state = "open"
    /\ \A c \in Claiming(b) : claims[c].over
    /\ opinions[problem.round][b] = NoOpinion
    /\ Len(claims) < MaxClaims
    /\ claims' = Append([c \in DOMAIN claims |->
                           IF c \in Claiming(b) THEN Expired(c) ELSE claims[c]],
                        Fresh(b))
    /\ UNCHANGED <<vars, answers, catalog>>

(* The lease of an open claim runs out.                                    *)
Lapse(c) ==
    /\ claims[c].closure = "open" /\ ~claims[c].over
    /\ claims' = [claims EXCEPT ![c].over = TRUE]
    /\ UNCHANGED <<vars, answers, catalog>>

-----------------------------------------------------------------------------
(* The checks of a renewal or a completion, in the order of the code.      *)
\* mutant: the revision of the problem is not compared
Judge_AnyRevision(m) ==
    LET claim == claims[m.claim]
    IN  IF problem.deleted THEN "gone"
        ELSE IF ~MayClaim(claim.robot) THEN "permission_revoked"
        ELSE IF answers[m.claim][m.id] # NoAnswer THEN "replay"
        ELSE IF claim.closure # "open" THEN "round_closed"
        ELSE IF claim.over THEN "expired"
        ELSE IF problem.status # "pending" \/ problem.round # claim.round THEN "round_closed"
        ELSE IF m.op = "complete" /\ claim.catalog # catalog THEN "catalog_changed"
        ELSE IF m.payload[1] # claim.lease THEN "stale"
        ELSE "ready"

\* mutant: a closed claim is not refused
Judge_ClosedToo(m) ==
    LET claim == claims[m.claim]
    IN  IF problem.deleted THEN "gone"
        ELSE IF ~MayClaim(claim.robot) THEN "permission_revoked"
        ELSE IF answers[m.claim][m.id] # NoAnswer THEN "replay"
        ELSE IF claim.over THEN "expired"
        ELSE IF problem.status # "pending" \/ problem.round # claim.round THEN "round_closed"
        ELSE IF problem.revision # claim.revision THEN "content_changed"
        ELSE IF m.op = "complete" /\ claim.catalog # catalog THEN "catalog_changed"
        ELSE IF m.payload[1] # claim.lease THEN "stale"
        ELSE "ready"

Judge(m) ==
    LET claim == claims[m.claim]
    IN  IF problem.deleted THEN "gone"
        ELSE IF ~MayClaim(claim.robot) THEN "permission_revoked"
        ELSE IF answers[m.claim][m.id] # NoAnswer THEN "replay"
        ELSE IF claim.closure # "open" THEN "round_closed"
        ELSE IF claim.over THEN "expired"
        ELSE IF problem.status # "pending" \/ problem.round # claim.round THEN "round_closed"
        ELSE IF problem.revision # claim.revision THEN "content_changed"
        ELSE IF m.op = "complete" /\ claim.catalog # catalog THEN "catalog_changed"
        ELSE IF m.payload[1] # claim.lease THEN "stale"
        ELSE "ready"

(* What the robot is told.                                                 *)
Reply(m) ==
    LET stored  == answers[m.claim][m.id]
        verdict == Judge(m)
    IN  CASE verdict = "replay" -> IF stored.op = m.op /\ stored.payload = m.payload
                                   THEN stored.reply ELSE "conflict"
          [] verdict = "ready" -> "success"
          [] verdict \in {"expired", "catalog_changed", "stale"} ->
               IF m.op = "complete" THEN "conflict" ELSE "not_found"
          [] OTHER -> "not_found"

(* A request that already has an answer keeps it (ON CONFLICT DO NOTHING). *)
Remember(m) ==
    answers' = IF answers[m.claim][m.id] # NoAnswer THEN answers
               ELSE [answers EXCEPT ![m.claim][m.id] =
                       [op |-> m.op, payload |-> m.payload, reply |-> Reply(m)]]

Closure(verdict) == IF verdict = "catalog_changed" THEN "content_changed" ELSE verdict

(* The claim is no longer good for anything: it is closed, once.           *)
Revoke(m) ==
    /\ Judge(m) \in {"permission_revoked", "expired", "round_closed", "content_changed",
                     "catalog_changed"}
    /\ claims[m.claim].closure = "open"
    /\ claims' = [claims EXCEPT ![m.claim].closure = Closure(Judge(m))]
    /\ Remember(m)
    /\ UNCHANGED <<vars, catalog>>

(* The message speaks of an older lease.                                   *)
Reject(m) ==
    /\ Judge(m) = "stale"
    /\ Remember(m)
    /\ UNCHANGED <<vars, claims, catalog>>

Renew(m) ==
    /\ m.op = "renew" /\ Judge(m) = "ready"
    /\ claims[m.claim].lease < MaxLease
    /\ claims' = [claims EXCEPT ![m.claim].lease = @ + 1]
    /\ Remember(m)
    /\ UNCHANGED <<vars, catalog>>

(* The opinion, the end of the claim, and the decision it may lead to,     *)
(* which closes the claims of the other robots.                            *)
Complete(m) ==
    /\ m.op = "complete" /\ Judge(m) = "ready"
    /\ Opine(claims[m.claim].robot, m.payload[2], claims[m.claim].basic)
    /\ claims' = RoundCloses([claims EXCEPT ![m.claim].closure = "completed"])
    /\ Remember(m)
    /\ UNCHANGED <<envVars, requests, catalog>>

RobotNext ==
    \/ Others
    \/ CatalogChange
    \/ \E b \in Robots : Claim(b)
    \/ \E c \in DOMAIN claims :
         \/ Lapse(c)
         \/ \E m \in Messages(c) : Revoke(m) \/ Reject(m) \/ Renew(m) \/ Complete(m)

RobotSpec == RobotInit /\ [][RobotNext]_robotVars
-----------------------------------------------------------------------------
(* A claim is open only in the open round, and a robot has at most one.    *)
OpenClaims ==
    /\ \A c \in DOMAIN claims : claims[c].closure = "open" => rounds[claims[c].round].state = "open"
    /\ \A c, d \in DOMAIN claims :
         /\ claims[c].closure = "open" /\ claims[d].closure = "open"
         /\ claims[c].robot = claims[d].robot
         => c = d

(* However often a robot repeats itself, and whoever it competes with:     *)
(* its opinion in a round, the completed claim and the stored success      *)
(* come together, once.                                                    *)
CompletedOnce ==
    /\ \A b \in Robots : \A r \in RoundNumbers :
         LET Done == {c \in DOMAIN claims : claims[c].robot = b /\ claims[c].round = r
                                            /\ claims[c].closure = "completed"}
         IN  Cardinality(Done) = IF opinions[r][b] = NoOpinion THEN 0 ELSE 1
    /\ \A c \in DOMAIN claims :
         LET Successes == {i \in Ids : answers[c][i].op = "complete"
                                       /\ answers[c][i].reply = "success"}
         IN  Cardinality(Successes) = IF claims[c].closure = "completed" THEN 1 ELSE 0

(* Claims and stored answers are well formed, no claim stays open beside a *)
(* closed round or a second claim of its robot, and what completed did so  *)
(* once.                                                                   *)
RobotInv == RobotTypeOK /\ OpenClaims /\ CompletedOnce

(* A robot's opinion is about the problem as it is when it is written.     *)
RobotOpinionsAreCurrent ==
    [][\A r \in RoundNumbers : \A b \in Robots :
         opinions'[r][b] # opinions[r][b] => opinions'[r][b].about = problem.basic]_robotVars

(* What a request was answered stays its answer, and a closed claim stays  *)
(* closed for the reason it has.                                           *)
AnswersAreFinal ==
    [][/\ \A c \in DOMAIN answers : \A i \in Ids :
            answers[c][i] # NoAnswer => answers'[c][i] = answers[c][i]
       /\ \A c \in DOMAIN claims :
            claims[c].closure # "open" => claims'[c] = claims[c]]_robotVars
=============================================================================
