----------------------------- MODULE ReviewMail -----------------------------
(***************************************************************************)
(* The outbox of review notifications (review-email.ts).  A review         *)
(* transaction writes one entry per event; the delivery loop of every API  *)
(* process claims an entry for five minutes, looks whether its owner still *)
(* wants it, hands it to SMTP, and marks it completed.  Times are          *)
(* abstracted to due or not: five minutes pass also for a slow sender.     *)
(***************************************************************************)
EXTENDS Integers

CONSTANTS
    Events,       \* event keys: a new opinion, a decision of one revision
    Senders,      \* delivery loops, one per API process
    MaxTrouble    \* bound of the model: crashes, slow senders, failing updates

ASSUME MailAssumption == MaxTrouble \in Nat /\ "none" \notin Events

VARIABLES
    entry,      \* entry[v]: the outbox row of event v
    due,        \* the events whose available_at has passed
    sender,     \* sender[s]: what the loop of s is doing
    tries,      \* tries[v]: how often v was handed to SMTP
    accepted,   \* accepted[v]: how often SMTP took it
    trouble     \* trouble so far

mailVars == <<entry, due, sender, tries, accepted, trouble>>

LastTry  == 4    \* item.attempts < 4 is retried
Outcomes == {"none", "sent", "skipped", "failed"}
NoEntry  == [state |-> "absent", attempts |-> 0, outcome |-> "none"]
Asleep   == [at |-> "idle", event |-> "none", claim |-> 0, outcome |-> "none"]
Most     == LastTry + 1 + MaxTrouble

MailTypeOK ==
    /\ entry \in [Events -> [state : {"absent", "pending", "completed", "purged"},
                             attempts : 0..Most, outcome : Outcomes]]
    /\ due \subseteq Events
    /\ sender \in [Senders -> [at : {"idle", "check", "send", "backoff", "complete"},
                               event : Events \cup {"none"}, claim : 0..Most, outcome : Outcomes]]
    /\ tries \in [Events -> 0..Most] /\ accepted \in [Events -> 0..Most]
    /\ trouble \in 0..MaxTrouble

MailInit ==
    /\ entry = [v \in Events |-> NoEntry]
    /\ due = {}
    /\ sender = [s \in Senders |-> Asleep]
    /\ tries = [v \in Events |-> 0] /\ accepted = [v \in Events |-> 0]
    /\ trouble = 0

-----------------------------------------------------------------------------
(* enqueueReviewEmail: in the transaction of the opinion or decision, ON   *)
(* CONFLICT (event_key) DO NOTHING.                                        *)
EnqueueMail(v) ==
    /\ entry[v].state = "absent"
    /\ entry' = [entry EXCEPT ![v].state = "pending"]
    /\ due' = due \cup {v}
    /\ UNCHANGED <<sender, tries, accepted, trouble>>

BecomesDue(v) ==
    /\ entry[v].state = "pending" /\ v \notin due
    /\ \A s \in Senders : sender[s].event = v => trouble < MaxTrouble
    /\ due' = due \cup {v}
    /\ trouble' = IF \E s \in Senders : sender[s].event = v THEN trouble + 1 ELSE trouble
    /\ UNCHANGED <<entry, sender, tries, accepted>>

\* mutant: the claim does not push available_at forward
ClaimMail_StaysDue(s, v) ==
    /\ sender[s].at = "idle"
    /\ entry[v].state = "pending" /\ v \in due
    /\ entry' = [entry EXCEPT ![v].attempts = IF @ < Most THEN @ + 1 ELSE @]
    /\ sender' = [sender EXCEPT ![s] = [at |-> "check", event |-> v, claim |-> entry[v].attempts,
                                        outcome |-> "skipped"]]
    /\ UNCHANGED <<due, tries, accepted, trouble>>

(* The claim is a transaction of its own; item.attempts is the count       *)
(* before it.                                                              *)
ClaimMail(s, v) ==
    /\ sender[s].at = "idle"
    /\ entry[v].state = "pending" /\ v \in due
    /\ entry' = [entry EXCEPT ![v].attempts = @ + 1]
    /\ due' = due \ {v}
    /\ sender' = [sender EXCEPT ![s] = [at |-> "check", event |-> v, claim |-> entry[v].attempts,
                                        outcome |-> "skipped"]]
    /\ UNCHANGED <<tries, accepted, trouble>>

Move(s, step, outcome) == sender' = [sender EXCEPT ![s].at = step, ![s].outcome = outcome]

(* The catch block.                                                        *)
Failed(s) ==
    IF sender[s].claim < LastTry THEN Move(s, "backoff", "none") ELSE Move(s, "complete", "failed")

(* The account, its preferences, the owner's view of the problem and the   *)
(* verified address are read anew; they may have changed, and the reads    *)
(* may throw into the same catch block.                                    *)
CheckMail(s) ==
    /\ sender[s].at = "check"
    /\ Move(s, "send", "skipped") \/ Move(s, "complete", "skipped") \/ Failed(s)
    /\ UNCHANGED <<entry, due, tries, accepted, trouble>>

SendMail(s) ==
    LET v == sender[s].event
    IN  /\ sender[s].at = "send"
        /\ tries' = [tries EXCEPT ![v] = @ + 1]
        /\ \/ Move(s, "complete", "sent") /\ accepted' = [accepted EXCEPT ![v] = @ + 1]
           \/ Failed(s) /\ UNCHANGED accepted
        /\ UNCHANGED <<entry, due, trouble>>

Sleep(s) == sender' = [sender EXCEPT ![s] = Asleep]

(* Both updates name the row by its id only.                               *)
BackOff(s) ==
    /\ sender[s].at = "backoff"
    /\ due' = due \ {sender[s].event}
    /\ Sleep(s)
    /\ UNCHANGED <<entry, tries, accepted, trouble>>

CompleteMail(s) ==
    LET v == sender[s].event
    IN  /\ sender[s].at = "complete"
        /\ entry' = IF entry[v].state = "purged" THEN entry
                    ELSE [entry EXCEPT ![v].state = "completed", ![v].outcome = sender[s].outcome]
        /\ Sleep(s)
        /\ UNCHANGED <<due, tries, accepted, trouble>>

(* A database call rejects deliverBatch, or the process dies; SMTP may     *)
(* have taken the message and its answer be lost.                          *)
SenderFails(s) ==
    LET v == sender[s].event
    IN  /\ sender[s].at # "idle"
        /\ trouble < MaxTrouble
        /\ trouble' = trouble + 1
        /\ \/ UNCHANGED <<tries, accepted>>
           \/ /\ sender[s].at = "send"
              /\ tries' = [tries EXCEPT ![v] = @ + 1]
              /\ accepted' = [accepted EXCEPT ![v] = @ + 1]
        /\ Sleep(s)
        /\ UNCHANGED <<entry, due>>

(* Thirty days after its completion an entry is deleted.                   *)
PurgeMail(v) ==
    /\ entry[v].state = "completed"
    /\ \A s \in Senders : sender[s].event # v
    /\ entry' = [entry EXCEPT ![v].state = "purged"]
    /\ UNCHANGED <<due, sender, tries, accepted, trouble>>

Delivery(s) ==
    \/ \E v \in Events : ClaimMail(s, v)
    \/ CheckMail(s) \/ SendMail(s) \/ BackOff(s) \/ CompleteMail(s)

MailNext ==
    \/ \E v \in Events : EnqueueMail(v) \/ BecomesDue(v) \/ PurgeMail(v)
    \/ \E s \in Senders : Delivery(s) \/ SenderFails(s)

MailSpec == MailInit /\ [][MailNext]_mailVars

(* The timer calls deliverBatch again and again, and time passes.          *)
MailFairness ==
    /\ \A s \in Senders : WF_mailVars(Delivery(s))
    /\ \A v \in Events : WF_mailVars(BecomesDue(v))

MailFairSpec == MailSpec /\ MailFairness
-----------------------------------------------------------------------------
(* Nobody gets a mail twice, and SMTP is not tried more than five times    *)
(* ("at most five times"), except after trouble: a sender that died or     *)
(* lost its update, or one that took longer than its five minutes.         *)
NoDuplicateMail ==
    \A v \in Events : accepted[v] <= 1 + trouble /\ tries[v] <= 5 + trouble

(* The recorded outcome is what happened: sent only when SMTP took it,     *)
(* failed only after the fifth claim; and a mail that SMTP took is not     *)
(* recorded as failed or skipped, but by a sender that overran.            *)
OutcomeIsTrue ==
    \A v \in Events :
        /\ entry[v].outcome = "sent" => accepted[v] > 0
        /\ entry[v].outcome = "failed" => entry[v].attempts >= 5
        /\ entry[v].outcome \in {"failed", "skipped"} => accepted[v] = 0 \/ trouble > 0

(* Types, no mail twice and outcomes that are true, with the exceptions    *)
(* named above.                                                            *)
MailInv == MailTypeOK /\ NoDuplicateMail /\ OutcomeIsTrue

(* Every event is dealt with: no claim, retry or crash leaves it waiting.  *)
EveryMailEnds ==
    \A v \in Events : entry[v].state = "pending" ~> entry[v].state \in {"completed", "purged"}
=============================================================================
