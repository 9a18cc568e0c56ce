----------------------------- MODULE MCReviews -----------------------------
(* Reviewers, robots, contents and policies for the run of ReviewRound and *)
(* RobotReview.  A behaviour has one human reviewer and requests that are  *)
(* overtaken; or all human reviewers, and contents that stay as they are;  *)
(* or robots that compete, do not renew and use one identifier; or one     *)
(* claim of a robot, whose requests are sent in any order while contents   *)
(* and catalog change.  The plugin of the rule is disabled only in the     *)
(* second and the last, and an identifier used only after the first.       *)
EXTENDS RobotReview, TLC

CONSTANTS h1, h2, b1, b2, i1, i2, c1, c2

VARIABLES
    active,  \* the reviewers of this behaviour
    scene

(* Two approvals without a rejection, and one approval that outweighs one  *)
(* rejection and counts robots.                                            *)
Strict  == [approvals |-> 2, rejections |-> 0, robots |-> FALSE]
Lenient == [approvals |-> 1, rejections |-> 1, robots |-> TRUE]

BothPolicies == {Strict, Lenient}

Casts == [overtaken |-> {{u} : u \in Humans}, all |-> {Humans},
          competing |-> {Robots}, repeating |-> {{b} : b \in Robots}]

MCInit ==
    /\ RobotInit
    /\ scene \in DOMAIN Casts
    /\ active \in Casts[scene]
    /\ active \subseteq Robots => policy = Lenient

(* The others keep their permission and stay out of it.                    *)
OnlyTheActive ==
    /\ mayReview' \ active = mayReview \ active
    /\ \A u \in Reviewers \ active, r \in RoundNumbers : opinions'[r][u] = NoOpinion
    /\ \A q \in requests' : q.who \notin Reviewers \ active
    /\ scene # "overtaken" => requests' = {}
    /\ scene \in {"overtaken", "competing"} => ruleUp'
    /\ scene \in {"all", "competing"} => problem'.basic = problem.basic

Used == {i \in Ids : \E c \in DOMAIN claims : answers[c][i] # NoAnswer}

MCNext ==
    /\ IF active \subseteq Robots
       THEN RobotNext /\ policy' = policy
       ELSE Next /\ UNCHANGED <<claims, answers, catalog>>
    /\ OnlyTheActive
    /\ Used' # {i2}
    /\ scene = "competing" => /\ Used' \subseteq {i1}
                              /\ catalog' = 1
                              /\ \A c \in DOMAIN claims' : claims'[c].lease = 0
    /\ scene = "repeating" => Len(claims') <= 1
    /\ UNCHANGED <<active, scene>>

MCSpec == MCInit /\ [][MCNext]_<<robotVars, active, scene>>

(* Both pairs change places together.                                      *)
People          == {f \in Permutations({h1, h2, b1, b2}) :
                      {f[h1], f[h2]} = {h1, h2} /\ (f[h1] = h1 <=> f[b1] = b1)}
Interchangeable == People \cup Permutations({c1, c2})
=============================================================================
