-------------------------- MODULE SideEffectsProofs --------------------------
(***************************************************************************)
(* Proofs about what the API does besides the review itself: exports, the  *)
(* stored files of problems, notification mails and backups, for every     *)
(* value of their constants.  The components share nothing; each has its   *)
(* section: the facts its inductive invariant adds to the invariant the    *)
(* runs check, a lemma per kind of step, and the theorem.                  *)
(***************************************************************************)
EXTENDS ExportTask, StoredFiles, ReviewMail, SiteBackup, FiniteSetTheorems, TLAPS

-----------------------------------------------------------------------------
(***************************************************************************)
(* ReviewMail, for every set of events and delivery loops and any amount   *)
(* of trouble.  The argument counts: a loop that holds an event is one     *)
(* mail that SMTP may still take, and each step that lets a second loop    *)
(* hold the event costs one unit of trouble.                               *)
(***************************************************************************)
Holders(v) == {s \in Senders : sender[s].event = v}

(* The loops that may still hand v to SMTP, and those of them or later     *)
(* that do not end with a mail that was sent.                              *)
Waiting(v) == {s \in Senders : sender[s].event = v /\ sender[s].at \in {"check", "send"}}
Open(v)    == {s \in Senders : /\ sender[s].event = v
                               /\ ~(sender[s].at = "complete" /\ sender[s].outcome = "sent")}

(* v can be claimed now, or once it is due.                                *)
Free(v) == entry[v].state = "pending" /\ (v \in due \/ Holders(v) = {})

(* What a loop that holds an event knows of it.                            *)
HolderFacts ==
    \A s \in Senders :
        LET v == sender[s].event
        IN  /\ sender[s].at = "idle" <=> v = "none"
            /\ v # "none" =>
                 /\ entry[v].state \in {"pending", "completed"}
                 /\ sender[s].claim + 1 <= entry[v].attempts
                 /\ entry[v].attempts <= sender[s].claim + 1 + trouble
                 /\ v \in due => entry[v].attempts <= sender[s].claim + trouble
                 /\ sender[s].at = "backoff" => sender[s].claim < LastTry
                 /\ sender[s].at = "complete" /\ sender[s].outcome = "failed"
                       => sender[s].claim >= LastTry
                 /\ sender[s].at = "complete" /\ sender[s].outcome = "sent" => accepted[v] > 0

EntryFacts ==
    \A v \in Events :
        /\ entry[v].state = "absent" => entry[v] = NoEntry /\ tries[v] = 0 /\ accepted[v] = 0
        /\ entry[v].state = "pending" => entry[v].outcome = "none"
        /\ v \in due => entry[v].state # "absent"

(* The mails SMTP took and those it may still take; the claims that were   *)
(* sent and those that may still be.                                       *)
Counting ==
    \A v \in Events :
        /\ IsFiniteSet(Waiting(v)) /\ IsFiniteSet(Open(v))
        /\ tries[v] + Cardinality(Waiting(v)) <= entry[v].attempts
        /\ entry[v].attempts <= LastTry + 1 + trouble
        /\ Free(v) => entry[v].attempts <= LastTry + trouble
        /\ accepted[v] + Cardinality(Open(v)) <= 1 + trouble
        /\ Free(v) \/ entry[v].outcome \in {"failed", "skipped"}
              => accepted[v] + Cardinality(Open(v)) <= trouble

(* The inductive invariant.                                                *)
MailIInv == MailTypeOK /\ HolderFacts /\ EntryFacts /\ Counting /\ OutcomeIsTrue

-----------------------------------------------------------------------------
(* Finite sets that gain or lose one element.                              *)
LEMMA OneMore ==
    ASSUME NEW S, IsFiniteSet(S), NEW x
    PROVE  /\ IsFiniteSet(S \cup {x}) /\ Cardinality(S \cup {x}) \in Nat
           /\ Cardinality(S \cup {x}) <= Cardinality(S) + 1
<1>1. Cardinality(S) \in Nat
  BY FS_CardinalityType
<1>2. /\ IsFiniteSet(S \cup {x})
      /\ Cardinality(S \cup {x}) = IF x \in S THEN Cardinality(S) ELSE Cardinality(S) + 1
  BY FS_AddElement
<1>. QED BY <1>1, <1>2

LEMMA OneLess ==
    ASSUME NEW S, IsFiniteSet(S), NEW x
    PROVE  /\ IsFiniteSet(S \ {x}) /\ Cardinality(S \ {x}) \in Nat
           /\ Cardinality(S \ {x}) <= Cardinality(S)
           /\ x \in S => Cardinality(S \ {x}) + 1 = Cardinality(S)
<1>1. Cardinality(S) \in Nat
  BY FS_CardinalityType
<1>2. /\ IsFiniteSet(S \ {x})
      /\ Cardinality(S \ {x}) = IF x \in S THEN Cardinality(S) - 1 ELSE Cardinality(S)
  BY FS_RemoveElement
<1>3. Cardinality(S \ {x}) \in Nat
  BY <1>2, FS_CardinalityType
<1>. QED BY <1>1, <1>2, <1>3

(* The types of the parts, and the counts as numbers.                      *)
LEMMA MailTypes ==
    ASSUME MailIInv
    PROVE  /\ trouble \in Nat /\ MaxTrouble \in Nat /\ trouble <= MaxTrouble /\ "none" \notin Events
           /\ Most = 5 + MaxTrouble /\ LastTry = 4
           /\ \A v \in Events : /\ entry[v].attempts \in Nat /\ tries[v] \in Nat /\ accepted[v] \in Nat
                                /\ Cardinality(Waiting(v)) \in Nat /\ Cardinality(Open(v)) \in Nat
           /\ \A s \in Senders : sender[s].claim \in Nat
<1>1. ASSUME NEW v \in Events PROVE Cardinality(Waiting(v)) \in Nat /\ Cardinality(Open(v)) \in Nat
  BY FS_CardinalityType DEF MailIInv, Counting
<1>. QED BY <1>1, MailAssumption DEF MailAssumption, MailIInv, MailTypeOK, Most, LastTry

LEMMA EnqueueKeeps == ASSUME MailIInv, NEW e \in Events, EnqueueMail(e) PROVE MailIInv'
<1>0. /\ entry[e] = NoEntry /\ tries[e] = 0 /\ accepted[e] = 0 /\ Holders(e) = {}
      /\ entry' = [entry EXCEPT ![e].state = "pending"] /\ due' = due \cup {e}
      /\ UNCHANGED <<sender, tries, accepted, trouble>>
  BY MailTypes DEF EnqueueMail, MailIInv, EntryFacts, HolderFacts, Holders, NoEntry
<1>1. MailTypeOK'
  BY <1>0 DEF MailIInv, MailTypeOK
<1>2. HolderFacts' /\ EntryFacts' /\ OutcomeIsTrue'
  BY <1>0, MailTypes DEF MailIInv, MailTypeOK, HolderFacts, EntryFacts, OutcomeIsTrue, Holders, NoEntry
<1>3. Counting'
  <2>1. SUFFICES ASSUME NEW v \in Events
                 PROVE  /\ IsFiniteSet(Waiting(v)) /\ IsFiniteSet(Open(v))
                        /\ tries[v] + Cardinality(Waiting(v)) <= entry'[v].attempts
                        /\ entry'[v].attempts <= LastTry + 1 + trouble
                        /\ Free(v)' => entry'[v].attempts <= LastTry + trouble
                        /\ accepted[v] + Cardinality(Open(v)) <= 1 + trouble
                        /\ Free(v)' \/ entry'[v].outcome \in {"failed", "skipped"}
                              => accepted[v] + Cardinality(Open(v)) <= trouble
    BY <1>0 DEF Counting, Waiting, Open
  <2>2. CASE v # e
    BY <1>0, <2>2 DEF MailIInv, MailTypeOK, Counting, Free, Holders
  <2>3. CASE v = e
    <3>1. Open(e) = {} /\ Waiting(e) = {} /\ Cardinality({}) = 0
      BY <1>0, FS_EmptySet DEF Open, Waiting, Holders
    <3>2. entry'[e].attempts = 0 /\ entry'[e].outcome = "none"
      BY <1>0 DEF MailIInv, MailTypeOK, NoEntry
    <3>3. /\ IsFiniteSet(Waiting(e)) /\ IsFiniteSet(Open(e))
          /\ Cardinality(Open(e)) = 0 /\ Cardinality(Waiting(e)) = 0
      BY <3>1, FS_EmptySet
    <3>. QED BY <1>0, <2>3, <3>2, <3>3, MailTypes
  <2>. QED BY <2>2, <2>3
<1>. QED BY <1>1, <1>2, <1>3 DEF MailIInv

LEMMA DueKeeps == ASSUME MailIInv, NEW e \in Events, BecomesDue(e) PROVE MailIInv'
<1>0. /\ entry[e].state = "pending" /\ due' = due \cup {e}
      /\ trouble' \in {trouble, trouble + 1} /\ trouble' <= MaxTrouble
      /\ Holders(e) # {} => trouble' = trouble + 1
      /\ UNCHANGED <<entry, sender, tries, accepted>>
  BY MailTypes DEF BecomesDue, Holders
<1>1. MailTypeOK'
  BY <1>0, MailTypes DEF MailIInv, MailTypeOK
<1>2. HolderFacts' /\ EntryFacts' /\ OutcomeIsTrue'
  BY <1>0, MailTypes DEF MailIInv, MailTypeOK, HolderFacts, EntryFacts, OutcomeIsTrue, Holders
<1>3. Counting'
  <2>1. \A v \in Events : Waiting(v)' = Waiting(v) /\ Open(v)' = Open(v) /\ Holders(v)' = Holders(v)
    BY <1>0 DEF Waiting, Open, Holders
  <2>. QED BY <1>0, <2>1, MailTypes DEF MailIInv, Counting, Free, LastTry
<1>. QED BY <1>1, <1>2, <1>3 DEF MailIInv

LEMMA ClaimKeeps ==
    ASSUME MailIInv, NEW s \in Senders, NEW e \in Events, ClaimMail(s, e) PROVE MailIInv'
<1>. DEFINE new == [at |-> "check", event |-> e, claim |-> entry[e].attempts, outcome |-> "skipped"]
<1>0. /\ sender[s].at = "idle" /\ sender[s].event = "none"
      /\ entry[e].state = "pending" /\ e \in due /\ Free(e)
      /\ entry' = [entry EXCEPT ![e].attempts = @ + 1] /\ due' = due \ {e}
      /\ sender' = [sender EXCEPT ![s] = new]
      /\ UNCHANGED <<tries, accepted, trouble>>
  BY DEF ClaimMail, MailIInv, HolderFacts, Free
<1>1. entry[e].attempts <= LastTry + trouble /\ entry[e].attempts + 1 \in 0..Most
  BY <1>0, MailTypes DEF MailIInv, Counting
<1>2. MailTypeOK'
  <2>1. new \in [at : {"idle", "check", "send", "backoff", "complete"},
                 event : Events \cup {"none"}, claim : 0..Most, outcome : Outcomes]
    BY <1>1, MailTypes DEF Outcomes
  <2>. HIDE DEF new
  <2>. QED BY <1>0, <1>1, <2>1 DEF MailIInv, MailTypeOK
<1>3. EntryFacts' /\ OutcomeIsTrue'
  BY <1>0, MailTypes DEF MailIInv, MailTypeOK, EntryFacts, OutcomeIsTrue
<1>4. HolderFacts'
  BY <1>0, MailTypes DEF MailIInv, MailTypeOK, HolderFacts
<1>5. Counting'
  <2>1. ASSUME NEW v \in Events, v # e
        PROVE  Waiting(v)' = Waiting(v) /\ Open(v)' = Open(v) /\ Free(v)' = Free(v)
    BY <1>0, <2>1, MailTypes DEF MailIInv, MailTypeOK, Waiting, Open, Free, Holders
  <2>2. ASSUME NEW v \in Events, v = e
        PROVE  Waiting(v)' = Waiting(e) \cup {s} /\ Open(v)' = Open(e) \cup {s} /\ ~Free(v)'
    BY <1>0, <2>2, MailTypes DEF MailIInv, MailTypeOK, Waiting, Open, Free, Holders
  <2>3. /\ IsFiniteSet(Waiting(e) \cup {s}) /\ Cardinality(Waiting(e) \cup {s}) \in Nat
        /\ Cardinality(Waiting(e) \cup {s}) <= Cardinality(Waiting(e)) + 1
        /\ IsFiniteSet(Open(e) \cup {s}) /\ Cardinality(Open(e) \cup {s}) \in Nat
        /\ Cardinality(Open(e) \cup {s}) <= Cardinality(Open(e)) + 1
    BY OneMore DEF MailIInv, Counting
  <2>4. SUFFICES ASSUME NEW v \in Events
                 PROVE  /\ IsFiniteSet(Waiting(v)') /\ IsFiniteSet(Open(v)')
                        /\ tries[v] + Cardinality(Waiting(v)') <= entry'[v].attempts
                        /\ entry'[v].attempts <= LastTry + 1 + trouble
                        /\ Free(v)' => entry'[v].attempts <= LastTry + trouble
                        /\ accepted[v] + Cardinality(Open(v)') <= 1 + trouble
                        /\ Free(v)' \/ entry'[v].outcome \in {"failed", "skipped"}
                              => accepted[v] + Cardinality(Open(v)') <= trouble
    BY <1>0 DEF Counting
  <2>5. CASE v # e
    BY <1>0, <2>1, <2>5 DEF MailIInv, MailTypeOK, Counting
  <2>6. CASE v = e
    <3>1. entry'[e].attempts = entry[e].attempts + 1 /\ entry'[e].outcome = "none"
      BY <1>0 DEF MailIInv, MailTypeOK, EntryFacts
    <3>2. /\ tries[e] + Cardinality(Waiting(e)) <= entry[e].attempts
          /\ accepted[e] + Cardinality(Open(e)) <= trouble
      BY <1>0 DEF MailIInv, Counting
    <3>3. Waiting(v)' = Waiting(e) \cup {s} /\ Open(v)' = Open(e) \cup {s} /\ ~Free(v)'
      BY <2>2, <2>6
    <3>. QED BY <1>0, <1>1, <2>3, <2>6, <3>1, <3>2, <3>3, MailTypes
  <2>. QED BY <2>5, <2>6
<1>. QED BY <1>2, <1>3, <1>4, <1>5 DEF MailIInv

-----------------------------------------------------------------------------
(* The sets of an event when a loop that holds it goes to sleep.           *)
LEMMA SleepSets ==
    ASSUME MailIInv, NEW s \in Senders, sender[s].at # "idle", Sleep(s), NEW v \in Events
    PROVE  /\ Holders(v)' = Holders(v) \ {s} /\ Waiting(v)' = Waiting(v) \ {s}
           /\ Open(v)' = Open(v) \ {s}
           /\ IsFiniteSet(Waiting(v)') /\ IsFiniteSet(Open(v)')
           /\ Cardinality(Waiting(v)') \in Nat /\ Cardinality(Open(v)') \in Nat
           /\ Cardinality(Waiting(v)') <= Cardinality(Waiting(v))
           /\ Cardinality(Open(v)') <= Cardinality(Open(v))
           /\ s \in Waiting(v) => Cardinality(Waiting(v)') + 1 = Cardinality(Waiting(v))
           /\ s \in Open(v) => Cardinality(Open(v)') + 1 = Cardinality(Open(v))
<1>1. /\ Holders(v)' = Holders(v) \ {s} /\ Waiting(v)' = Waiting(v) \ {s}
      /\ Open(v)' = Open(v) \ {s}
  BY MailTypes DEF MailIInv, MailTypeOK, Sleep, Asleep, Holders, Waiting, Open
<1>2. IsFiniteSet(Waiting(v)) /\ IsFiniteSet(Open(v))
  BY DEF MailIInv, Counting
<1>. QED BY <1>1, <1>2, OneLess

LEMMA HolderOf ==
    ASSUME MailIInv, NEW s \in Senders, sender[s].at # "idle"
    PROVE  /\ sender[s].event \in Events
           /\ entry[sender[s].event].state \in {"pending", "completed"}
           /\ sender[s].claim \in Nat
           /\ sender[s].claim + 1 <= entry[sender[s].event].attempts
           /\ entry[sender[s].event].attempts <= sender[s].claim + 1 + trouble
           /\ sender[s].at = "backoff" => sender[s].claim < LastTry
           /\ sender[s].at = "complete" /\ sender[s].outcome = "failed" => sender[s].claim >= LastTry
           /\ sender[s].at = "complete" /\ sender[s].outcome = "sent"
                 => accepted[sender[s].event] > 0
BY DEF MailIInv, MailTypeOK, HolderFacts

LEMMA BackOffKeeps == ASSUME MailIInv, NEW s \in Senders, BackOff(s) PROVE MailIInv'
<1>. DEFINE e == sender[s].event
<1>0. /\ sender[s].at = "backoff" /\ sender' = [sender EXCEPT ![s] = Asleep]
      /\ due' = due \ {e} /\ e \in Events /\ Sleep(s)
      /\ UNCHANGED <<entry, tries, accepted, trouble>>
  BY HolderOf DEF BackOff, Sleep
<1>1. /\ entry[e].attempts <= LastTry + trouble
      /\ s \in Open(e)
  <2>1. sender[s].claim < LastTry /\ entry[e].attempts <= sender[s].claim + 1 + trouble
    BY <1>0, HolderOf
  <2>2. s \in Open(e)
    BY <1>0 DEF Open
  <2>. QED BY <1>0, <2>1, <2>2, MailTypes
<1>2. MailTypeOK'
  BY <1>0, MailTypes DEF MailIInv, MailTypeOK, Asleep, Outcomes
<1>3. HolderFacts' /\ EntryFacts' /\ OutcomeIsTrue'
  BY <1>0, MailTypes DEF MailIInv, MailTypeOK, HolderFacts, EntryFacts, OutcomeIsTrue, Asleep
<1>4. Counting'
  <2>1. SUFFICES ASSUME NEW v \in Events
                 PROVE  /\ IsFiniteSet(Waiting(v)') /\ IsFiniteSet(Open(v)')
                        /\ tries[v] + Cardinality(Waiting(v)') <= entry[v].attempts
                        /\ entry[v].attempts <= LastTry + 1 + trouble
                        /\ Free(v)' => entry[v].attempts <= LastTry + trouble
                        /\ accepted[v] + Cardinality(Open(v)') <= 1 + trouble
                        /\ Free(v)' \/ entry[v].outcome \in {"failed", "skipped"}
                              => accepted[v] + Cardinality(Open(v)') <= trouble
    BY <1>0 DEF Counting
  <2>2. /\ Holders(v)' = Holders(v) \ {s}
        /\ IsFiniteSet(Waiting(v)') /\ IsFiniteSet(Open(v)')
        /\ Cardinality(Waiting(v)') \in Nat /\ Cardinality(Open(v)') \in Nat
        /\ Cardinality(Waiting(v)') <= Cardinality(Waiting(v))
        /\ Cardinality(Open(v)') <= Cardinality(Open(v))
        /\ s \in Open(v) => Cardinality(Open(v)') + 1 = Cardinality(Open(v))
    BY <1>0, SleepSets
  <2>3. v # e => (Free(v)' => Free(v))
    BY <1>0, <2>2 DEF Free, Holders
  <2>. QED BY <1>0, <1>1, <2>2, <2>3, MailTypes DEF MailIInv, Counting
<1>. QED BY <1>2, <1>3, <1>4 DEF MailIInv

LEMMA CompleteKeeps == ASSUME MailIInv, NEW s \in Senders, CompleteMail(s) PROVE MailIInv'
<1>. DEFINE e == sender[s].event
<1>0. /\ sender[s].at = "complete" /\ sender' = [sender EXCEPT ![s] = Asleep]
      /\ e \in Events /\ Sleep(s) /\ sender[s].outcome \in Outcomes
      /\ entry[e].state \in {"pending", "completed"}
      /\ entry' = [entry EXCEPT ![e].state = "completed", ![e].outcome = sender[s].outcome]
      /\ UNCHANGED <<due, tries, accepted, trouble>>
  <2>1. sender[s].outcome \in Outcomes
    BY DEF MailIInv, MailTypeOK
  <2>. QED BY <2>1, HolderOf DEF CompleteMail, Sleep
<1>1. /\ entry'[e].state = "completed" /\ entry'[e].outcome = sender[s].outcome
      /\ entry'[e].attempts = entry[e].attempts
      /\ \A v \in Events \ {e} : entry'[v] = entry[v]
  BY <1>0 DEF MailIInv, MailTypeOK
<1>2. /\ sender[s].outcome = "sent" => accepted[e] > 0
      /\ sender[s].outcome = "failed" => entry[e].attempts >= 5
      /\ sender[s].outcome # "sent" => s \in Open(e)
  <2>1. /\ sender[s].outcome = "sent" => accepted[e] > 0
        /\ sender[s].outcome = "failed" => sender[s].claim >= LastTry
        /\ sender[s].claim + 1 <= entry[e].attempts
    BY <1>0, HolderOf
  <2>2. sender[s].outcome # "sent" => s \in Open(e)
    BY <1>0 DEF Open
  <2>. QED BY <1>0, <2>1, <2>2, MailTypes
<1>3. MailTypeOK'
  BY <1>0, MailTypes DEF MailIInv, MailTypeOK, Asleep, Outcomes
<1>4. HolderFacts' /\ EntryFacts'
  <2>1. \A v \in Events : /\ entry'[v].attempts = entry[v].attempts
                          /\ entry'[v].state = entry[v].state \/ v = e
    BY <1>1
  <2>2. HolderFacts'
    <3>1. SUFFICES ASSUME NEW t \in Senders, t # s
          PROVE  LET v == sender[t].event
                 IN  v # "none" => entry'[v].state \in {"pending", "completed"}
      BY <1>0, <2>1, MailTypes DEF MailIInv, MailTypeOK, HolderFacts, Asleep
    <3>. QED BY <1>1, <2>1 DEF MailIInv, MailTypeOK, HolderFacts
  <2>3. EntryFacts'
    BY <1>0, <1>1 DEF MailIInv, EntryFacts
  <2>. QED BY <2>2, <2>3
<1>5. \A v \in Events : accepted[v] + Cardinality(Open(v)) <= 1 + trouble
  BY DEF MailIInv, Counting
<1>6. OutcomeIsTrue'
  <2>1. sender[s].outcome # "sent" => accepted[e] <= trouble
    <3>1. s \in Open(e) => Cardinality(Open(e)) >= 1
      BY <1>0, SleepSets, MailTypes
    <3>. QED BY <1>0, <1>2, <1>5, <3>1, MailTypes
  <2>2. ASSUME NEW v \in Events
        PROVE  /\ entry'[v].outcome = "sent" => accepted[v] > 0
               /\ entry'[v].outcome = "failed" => entry'[v].attempts >= 5
               /\ entry'[v].outcome \in {"failed", "skipped"} => accepted[v] = 0 \/ trouble > 0
    <3>1. CASE v = e
      BY <1>0, <1>1, <1>2, <2>1, <3>1, MailTypes
    <3>2. CASE v # e
      BY <1>1, <3>2 DEF MailIInv, OutcomeIsTrue
    <3>. QED BY <3>1, <3>2
  <2>. QED BY <1>0, <2>2 DEF OutcomeIsTrue
<1>7. Counting'
  <2>1. SUFFICES ASSUME NEW v \in Events
                 PROVE  /\ IsFiniteSet(Waiting(v)') /\ IsFiniteSet(Open(v)')
                        /\ tries[v] + Cardinality(Waiting(v)') <= entry'[v].attempts
                        /\ entry'[v].attempts <= LastTry + 1 + trouble
                        /\ Free(v)' => entry'[v].attempts <= LastTry + trouble
                        /\ accepted[v] + Cardinality(Open(v)') <= 1 + trouble
                        /\ Free(v)' \/ entry'[v].outcome \in {"failed", "skipped"}
                              => accepted[v] + Cardinality(Open(v)') <= trouble
    BY <1>0 DEF Counting
  <2>2. /\ Holders(v)' = Holders(v) \ {s}
        /\ IsFiniteSet(Waiting(v)') /\ IsFiniteSet(Open(v)')
        /\ Cardinality(Waiting(v)') \in Nat /\ Cardinality(Open(v)') \in Nat
        /\ Cardinality(Waiting(v)') <= Cardinality(Waiting(v))
        /\ Cardinality(Open(v)') <= Cardinality(Open(v))
        /\ s \in Open(v) => Cardinality(Open(v)') + 1 = Cardinality(Open(v))
    BY <1>0, SleepSets
  <2>3. /\ v = e => ~Free(v)'
        /\ v # e => (Free(v)' => Free(v)) /\ entry'[v] = entry[v]
    BY <1>0, <1>1, <2>2 DEF Free, Holders
  <2>4. entry'[v].attempts = entry[v].attempts
    BY <1>1
  <2>5. CASE v # e
    BY <1>0, <1>1, <2>2, <2>3, <2>4, <2>5, MailTypes DEF MailIInv, Counting
  <2>6. CASE v = e
    <3>1. /\ tries[v] + Cardinality(Waiting(v)) <= entry[v].attempts
          /\ entry[v].attempts <= LastTry + 1 + trouble
      BY DEF MailIInv, Counting
    <3>2. entry'[v].outcome \in {"failed", "skipped"} => s \in Open(v)
      BY <1>1, <1>2, <2>6
    <3>. QED BY <1>5, <2>2, <2>3, <2>4, <2>6, <3>1, <3>2, MailTypes
  <2>. QED BY <2>5, <2>6
<1>. QED BY <1>3, <1>4, <1>6, <1>7 DEF MailIInv

LEMMA FailsKeeps == ASSUME MailIInv, NEW s \in Senders, SenderFails(s) PROVE MailIInv'
<1>. DEFINE e == sender[s].event
<1>0. /\ sender[s].at # "idle" /\ sender' = [sender EXCEPT ![s] = Asleep]
      /\ e \in Events /\ Sleep(s)
      /\ trouble' = trouble + 1 /\ trouble < MaxTrouble
      /\ UNCHANGED <<entry, due>>
      /\ \/ UNCHANGED <<tries, accepted>>
         \/ /\ sender[s].at = "send"
            /\ tries' = [tries EXCEPT ![e] = @ + 1] /\ accepted' = [accepted EXCEPT ![e] = @ + 1]
  BY HolderOf DEF SenderFails, Sleep
<1>1. /\ tries' \in [Events -> Nat] /\ accepted' \in [Events -> Nat]
      /\ \A v \in Events : \/ tries'[v] = tries[v] /\ accepted'[v] = accepted[v]
                           \/ /\ s \in Waiting(v) /\ s \in Open(v)
                              /\ tries'[v] = tries[v] + 1 /\ accepted'[v] = accepted[v] + 1
  BY <1>0, MailTypes DEF MailIInv, MailTypeOK, Waiting, Open
<1>2. ASSUME NEW v \in Events
      PROVE  /\ Holders(v)' = Holders(v) \ {s}
             /\ IsFiniteSet(Waiting(v)') /\ IsFiniteSet(Open(v)')
             /\ Cardinality(Waiting(v)') \in Nat /\ Cardinality(Open(v)') \in Nat
             /\ tries'[v] + Cardinality(Waiting(v)') <= entry[v].attempts
             /\ accepted'[v] + Cardinality(Open(v)') <= 1 + trouble
             /\ tries'[v] <= entry[v].attempts /\ accepted'[v] <= 1 + trouble
             /\ entry[v].attempts <= LastTry + 1 + trouble
  BY <1>0, <1>1, SleepSets, MailTypes DEF MailIInv, Counting
<1>3. MailTypeOK'
  <2>1. \A v \in Events : tries'[v] \in 0..Most /\ accepted'[v] \in 0..Most
    BY <1>0, <1>1, <1>2, MailTypes
  <2>. QED BY <1>0, <1>1, <2>1, MailTypes DEF MailIInv, MailTypeOK, Asleep, Outcomes
<1>4. HolderFacts' /\ EntryFacts' /\ OutcomeIsTrue'
  BY <1>0, <1>1, MailTypes DEF MailIInv, MailTypeOK, HolderFacts, EntryFacts, OutcomeIsTrue, Asleep
<1>5. Counting'
  <2>1. SUFFICES ASSUME NEW v \in Events
                 PROVE  /\ IsFiniteSet(Waiting(v)') /\ IsFiniteSet(Open(v)')
                        /\ tries'[v] + Cardinality(Waiting(v)') <= entry[v].attempts
                        /\ entry[v].attempts <= LastTry + 1 + trouble'
                        /\ entry[v].attempts <= LastTry + trouble'
                        /\ accepted'[v] + Cardinality(Open(v)') <= 1 + trouble'
                        /\ accepted'[v] + Cardinality(Open(v)') <= trouble'
    BY <1>0 DEF Counting
  <2>. QED BY <1>0, <1>1, <1>2, MailTypes
<1>. QED BY <1>3, <1>4, <1>5 DEF MailIInv

LEMMA PurgeKeeps == ASSUME MailIInv, NEW e \in Events, PurgeMail(e) PROVE MailIInv'
<1>0. /\ entry[e].state = "completed" /\ Holders(e) = {}
      /\ entry' = [entry EXCEPT ![e].state = "purged"]
      /\ UNCHANGED <<due, sender, tries, accepted, trouble>>
  BY DEF PurgeMail, Holders
<1>1. MailTypeOK'
  BY <1>0 DEF MailIInv, MailTypeOK
<1>2. HolderFacts' /\ EntryFacts' /\ OutcomeIsTrue'
  BY <1>0 DEF MailIInv, MailTypeOK, HolderFacts, EntryFacts, OutcomeIsTrue, Holders
<1>3. Counting'
  <2>1. \A v \in Events : /\ Waiting(v)' = Waiting(v) /\ Open(v)' = Open(v)
                          /\ Free(v)' => Free(v)
                          /\ entry'[v].attempts = entry[v].attempts
                          /\ entry'[v].outcome = entry[v].outcome
    BY <1>0 DEF MailIInv, MailTypeOK, Waiting, Open, Free, Holders
  <2>. QED BY <1>0, <2>1 DEF MailIInv, Counting
<1>. QED BY <1>1, <1>2, <1>3 DEF MailIInv

-----------------------------------------------------------------------------
(* A loop that goes on with its event, whatever step and outcome it goes   *)
(* to, when it lets no count grow beyond what the step used up.            *)
LEMMA MoveKeeps ==
    ASSUME MailIInv, NEW s \in Senders, sender[s].at \in {"check", "send"},
           NEW a \in {"send", "backoff", "complete"}, NEW o \in Outcomes, Move(s, a, o),
           a = "backoff" => sender[s].claim < LastTry,
           a = "complete" /\ o = "failed" => sender[s].claim >= LastTry,
           UNCHANGED <<entry, due, trouble>>,
           \/ UNCHANGED <<tries, accepted>> /\ ~(a = "complete" /\ o = "sent")
           \/ /\ sender[s].at = "send" /\ a # "send"
              /\ tries' = [tries EXCEPT ![sender[s].event] = @ + 1]
              /\ \/ UNCHANGED accepted /\ ~(a = "complete" /\ o = "sent")
                 \/ /\ a = "complete" /\ o = "sent"
                    /\ accepted' = [accepted EXCEPT ![sender[s].event] = @ + 1]
    PROVE  MailIInv'
<1>e. PICK e \in Events : e = sender[s].event
  BY HolderOf
<1>0. /\ s \in Waiting(e) /\ s \in Open(e) /\ sender[s].event = e
      /\ sender' = [sender EXCEPT ![s].at = a, ![s].outcome = o]
  BY <1>e DEF Move, Waiting, Open
<1>1. /\ sender'[s] = [sender[s] EXCEPT !.at = a, !.outcome = o]
      /\ \A t \in Senders \ {s} : sender'[t] = sender[t]
      /\ \A t \in Senders : sender'[t].event = sender[t].event /\ sender'[t].claim = sender[t].claim
  BY <1>0 DEF MailIInv, MailTypeOK
<1>2. /\ tries' \in [Events -> Nat] /\ accepted' \in [Events -> Nat]
      /\ \A v \in Events : tries[v] <= tries'[v] /\ accepted[v] <= accepted'[v]
      /\ \A v \in Events \ {e} : tries'[v] = tries[v] /\ accepted'[v] = accepted[v]
      /\ a = "complete" /\ o = "sent" => accepted'[e] = accepted[e] + 1
      /\ ~(a = "complete" /\ o = "sent") => accepted'[e] = accepted[e]
      /\ a = "send" => tries'[e] = tries[e]
      /\ tries'[e] <= tries[e] + 1
  <2>1. tries \in [Events -> Nat] /\ accepted \in [Events -> Nat]
    BY MailTypes DEF MailIInv, MailTypeOK
  <2>2. \/ tries' = tries
        \/ tries' = [tries EXCEPT ![e] = @ + 1] /\ a # "send"
    BY <1>0
  <2>3. \/ accepted' = accepted /\ ~(a = "complete" /\ o = "sent")
        \/ accepted' = [accepted EXCEPT ![e] = @ + 1] /\ a = "complete" /\ o = "sent"
    BY <1>0
  <2>. QED BY <2>1, <2>2, <2>3
<1>3. ASSUME NEW v \in Events, v # e
      PROVE  /\ Holders(v)' = Holders(v) /\ Waiting(v)' = Waiting(v) /\ Open(v)' = Open(v)
             /\ tries'[v] = tries[v] /\ accepted'[v] = accepted[v]
  <2>1. ASSUME NEW t \in Senders
        PROVE  /\ sender'[t].event = v <=> sender[t].event = v
               /\ sender[t].event = v => sender'[t] = sender[t]
    BY <1>0, <1>1, <1>3
  <2>. QED BY <1>2, <1>3, <2>1 DEF Holders, Waiting, Open
<1>4. ASSUME NEW v \in Events, v = e
      PROVE  /\ Holders(v)' = Holders(v)
             /\ Waiting(v)' = IF a = "send" THEN Waiting(v) ELSE Waiting(v) \ {s}
             /\ Open(v)' = IF a = "complete" /\ o = "sent" THEN Open(v) \ {s} ELSE Open(v)
  <2>1. sender'[s].at = a /\ sender'[s].outcome = o
    BY <1>1 DEF MailIInv, MailTypeOK
  <2>2. /\ sender'[s].event = v /\ sender[s].event = v
        /\ sender[s].at \in {"check", "send"}
        /\ \A t \in Senders \ {s} : sender'[t] = sender[t]
    BY <1>0, <1>1, <1>4
  <2>3. Holders(v)' = Holders(v)
    BY <2>2 DEF Holders
  <2>4. Waiting(v)' = IF a = "send" THEN Waiting(v) ELSE Waiting(v) \ {s}
    BY <2>1, <2>2 DEF Waiting
  <2>5. Open(v)' = IF a = "complete" /\ o = "sent" THEN Open(v) \ {s} ELSE Open(v)
    BY <2>1, <2>2 DEF Open
  <2>. QED BY <2>3, <2>4, <2>5
<1>5. /\ IsFiniteSet(Waiting(e)) /\ IsFiniteSet(Open(e))
      /\ tries[e] + Cardinality(Waiting(e)) <= entry[e].attempts
      /\ accepted[e] + Cardinality(Open(e)) <= 1 + trouble
      /\ entry[e].attempts <= LastTry + 1 + trouble
  BY <1>0 DEF MailIInv, Counting
<1>6. /\ IsFiniteSet(Waiting(e) \ {s}) /\ Cardinality(Waiting(e) \ {s}) \in Nat
      /\ Cardinality(Waiting(e) \ {s}) + 1 = Cardinality(Waiting(e))
      /\ IsFiniteSet(Open(e) \ {s}) /\ Cardinality(Open(e) \ {s}) \in Nat
      /\ Cardinality(Open(e) \ {s}) + 1 = Cardinality(Open(e))
  BY <1>0, <1>5, OneLess
<1>7. ASSUME NEW v \in Events
      PROVE  /\ Holders(v)' = Holders(v)
             /\ IsFiniteSet(Waiting(v)') /\ IsFiniteSet(Open(v)')
             /\ Cardinality(Waiting(v)') \in Nat /\ Cardinality(Open(v)') \in Nat
             /\ tries'[v] + Cardinality(Waiting(v)') <= tries[v] + Cardinality(Waiting(v))
             /\ accepted'[v] + Cardinality(Open(v)') <= accepted[v] + Cardinality(Open(v))
  <2>1. CASE v # e
    BY <1>3, <2>1, MailTypes DEF MailIInv, Counting
  <2>2. CASE v = e
    <3>1. /\ Holders(v)' = Holders(v)
          /\ Waiting(v)' = IF a = "send" THEN Waiting(e) ELSE Waiting(e) \ {s}
          /\ Open(v)' = IF a = "complete" /\ o = "sent" THEN Open(e) \ {s} ELSE Open(e)
      BY <1>4, <2>2
    <3>. QED BY <1>0, <1>2, <1>5, <1>6, <2>2, <3>1, MailTypes
  <2>. QED BY <2>1, <2>2
<1>8. \A v \in Events : /\ tries[v] + Cardinality(Waiting(v)) <= entry[v].attempts
                        /\ accepted[v] + Cardinality(Open(v)) <= 1 + trouble
                        /\ entry[v].attempts <= LastTry + 1 + trouble
                        /\ entry[v].outcome \in {"failed", "skipped"}
                              => accepted[v] + Cardinality(Open(v)) <= trouble
                        /\ Free(v) => accepted[v] + Cardinality(Open(v)) <= trouble
  BY DEF MailIInv, Counting
<1>9. MailTypeOK'
  <2>1. \A v \in Events : tries'[v] \in 0..Most /\ accepted'[v] \in 0..Most
    BY <1>2, <1>7, <1>8, MailTypes
  <2>2. /\ tries' \in [Events -> 0..Most] /\ accepted' \in [Events -> 0..Most]
    BY <1>2, <2>1
  <2>3. sender' \in [Senders -> [at : {"idle", "check", "send", "backoff", "complete"},
                                 event : Events \cup {"none"}, claim : 0..Most, outcome : Outcomes]]
    <3>1. /\ sender \in [Senders -> [at : {"idle", "check", "send", "backoff", "complete"},
                                     event : Events \cup {"none"}, claim : 0..Most,
                                     outcome : Outcomes]]
          /\ sender' = [sender EXCEPT ![s] = [@ EXCEPT !.at = a, !.outcome = o]]
      BY <1>0 DEF MailIInv, MailTypeOK
    <3>2. [sender[s] EXCEPT !.at = a, !.outcome = o]
             \in [at : {"idle", "check", "send", "backoff", "complete"},
                  event : Events \cup {"none"}, claim : 0..Most, outcome : Outcomes]
      BY <3>1
    <3>. QED BY <3>1, <3>2
  <2>. QED BY <2>2, <2>3 DEF MailIInv, MailTypeOK
<1>10. HolderFacts'
  <2>1. ASSUME NEW t \in Senders \ {s}
        PROVE  sender[t].event # "none" => accepted[sender[t].event] <= accepted'[sender[t].event]
    BY <1>2 DEF MailIInv, MailTypeOK
  <2>2. sender'[s].at = a /\ sender'[s].outcome = o
    BY <1>1 DEF MailIInv, MailTypeOK
  <2>3. a = "complete" /\ o = "sent" => accepted'[e] > 0
    BY <1>0, <1>2, MailTypes
  <2>4. ASSUME NEW t \in Senders \ {s}
        PROVE  /\ sender'[t] = sender[t]
               /\ sender[t].at = "complete" /\ sender[t].outcome = "sent" /\ sender[t].event # "none"
                    => accepted'[sender[t].event] > 0
    BY <1>1, <1>2, <2>1, MailTypes DEF MailIInv, MailTypeOK, HolderFacts
  <2>. QED BY <1>0, <1>1, <2>2, <2>3, <2>4, MailTypes DEF MailIInv, MailTypeOK, HolderFacts
<1>11. EntryFacts'
  <2>1. entry[e].state # "absent"
    BY <1>0, HolderOf
  <2>. QED BY <1>2, <2>1 DEF MailIInv, EntryFacts
<1>12. OutcomeIsTrue'
  BY <1>2, <1>7, <1>8, MailTypes DEF MailIInv, OutcomeIsTrue
<1>13. Counting'
  <2>1. \A v \in Events : Free(v)' => Free(v)
    BY <1>7 DEF Free
  <2>. QED BY <1>2, <1>7, <1>8, <2>1, MailTypes DEF MailIInv, Counting
<1>. QED BY <1>9, <1>10, <1>11, <1>12, <1>13 DEF MailIInv

LEMMA CheckKeeps == ASSUME MailIInv, NEW s \in Senders, CheckMail(s) PROVE MailIInv'
<1>1. /\ sender[s].at = "check" /\ UNCHANGED <<entry, due, tries, accepted, trouble>>
      /\ "skipped" \in Outcomes /\ "none" \in Outcomes /\ "failed" \in Outcomes
      /\ sender[s].claim \in Nat /\ LastTry = 4
  BY MailTypes DEF CheckMail, Outcomes
<1>2. CASE Move(s, "send", "skipped") \/ Move(s, "complete", "skipped")
  BY <1>1, <1>2, MoveKeeps
<1>3. CASE Move(s, "backoff", "none") /\ sender[s].claim < LastTry
  BY <1>1, <1>3, MoveKeeps
<1>4. CASE Move(s, "complete", "failed") /\ ~(sender[s].claim < LastTry)
  BY <1>1, <1>4, MoveKeeps
<1>. QED BY <1>2, <1>3, <1>4 DEF CheckMail, Failed

LEMMA SendKeeps == ASSUME MailIInv, NEW s \in Senders, SendMail(s) PROVE MailIInv'
<1>1. /\ sender[s].at = "send" /\ UNCHANGED <<entry, due, trouble>>
      /\ tries' = [tries EXCEPT ![sender[s].event] = @ + 1]
      /\ "sent" \in Outcomes /\ "none" \in Outcomes /\ "failed" \in Outcomes
      /\ sender[s].claim \in Nat /\ LastTry = 4
  BY MailTypes DEF SendMail, Outcomes
<1>2. CASE /\ Move(s, "complete", "sent")
           /\ accepted' = [accepted EXCEPT ![sender[s].event] = @ + 1]
  BY <1>1, <1>2, MoveKeeps
<1>3. CASE Move(s, "backoff", "none") /\ sender[s].claim < LastTry /\ UNCHANGED accepted
  BY <1>1, <1>3, MoveKeeps
<1>4. CASE Move(s, "complete", "failed") /\ sender[s].claim >= LastTry /\ UNCHANGED accepted
  BY <1>1, <1>4, MoveKeeps
<1>. QED BY <1>1, <1>2, <1>3, <1>4 DEF SendMail, Failed

-----------------------------------------------------------------------------
LEMMA InitMail == MailInit => MailIInv
<1>1. SUFFICES ASSUME MailInit PROVE MailIInv
  OBVIOUS
<1>2. MailTypeOK /\ HolderFacts /\ EntryFacts /\ OutcomeIsTrue
  BY <1>1, MailAssumption DEF MailAssumption, MailInit, MailTypeOK, HolderFacts, EntryFacts,
     OutcomeIsTrue, NoEntry, Asleep, Outcomes, Most, LastTry
<1>3. \A v \in Events : Waiting(v) = {} /\ Open(v) = {} /\ ~Free(v)
  BY <1>1, MailAssumption DEF MailAssumption, MailInit, Waiting, Open, Free, Asleep, NoEntry
<1>4. IsFiniteSet({}) /\ Cardinality({}) = 0
  BY FS_EmptySet
<1>5. ASSUME NEW v \in Events
      PROVE  entry[v].attempts = 0 /\ entry[v].outcome = "none" /\ tries[v] = 0 /\ accepted[v] = 0
             /\ trouble = 0 /\ LastTry = 4
  BY <1>1 DEF MailInit, NoEntry, LastTry
<1>6. Counting
  <2>1. \A v \in Events : /\ IsFiniteSet(Waiting(v)) /\ IsFiniteSet(Open(v))
                          /\ Cardinality(Waiting(v)) = 0 /\ Cardinality(Open(v)) = 0
    BY <1>3, <1>4
  <2>2. SUFFICES ASSUME NEW v \in Events
                 PROVE  /\ tries[v] + Cardinality(Waiting(v)) <= entry[v].attempts
                        /\ entry[v].attempts <= LastTry + 1 + trouble
                        /\ ~Free(v) /\ entry[v].outcome \notin {"failed", "skipped"}
                        /\ accepted[v] + Cardinality(Open(v)) <= 1 + trouble
    BY <2>1 DEF Counting
  <2>. QED BY <1>3, <1>5, <2>1
<1>. QED BY <1>2, <1>6 DEF MailIInv

LEMMA StepMail == MailIInv /\ [MailNext]_mailVars => MailIInv'
<1>1. SUFFICES ASSUME MailIInv, [MailNext]_mailVars PROVE MailIInv'
  OBVIOUS
<1>2. CASE UNCHANGED mailVars
  <2>1. MailTypeOK' /\ HolderFacts' /\ EntryFacts' /\ OutcomeIsTrue'
    BY <1>1, <1>2 DEF mailVars, MailIInv, MailTypeOK, HolderFacts, EntryFacts, OutcomeIsTrue
  <2>2. Counting'
    <3>1. \A v \in Events : Waiting(v)' = Waiting(v) /\ Open(v)' = Open(v) /\ Free(v)' = Free(v)
      BY <1>2 DEF mailVars, Waiting, Open, Free, Holders
    <3>. QED BY <1>1, <1>2, <3>1 DEF mailVars, MailIInv, Counting
  <2>. QED BY <2>1, <2>2 DEF MailIInv
<1>. QED
  BY <1>1, <1>2, EnqueueKeeps, DueKeeps, PurgeKeeps, ClaimKeeps, CheckKeeps, SendKeeps, BackOffKeeps,
     CompleteKeeps, FailsKeeps DEF MailNext, Delivery

(* For every number of events and delivery loops, and all trouble: nobody  *)
(* gets a mail twice, SMTP is not tried more than five times, and the      *)
(* recorded outcome is what happened, but for the trouble MailInv names.   *)
THEOREM MailsAreSafe == MailSpec => []MailInv
<1>1. MailIInv => MailInv
  <2>1. SUFFICES ASSUME MailIInv, NEW v \in Events
                 PROVE  accepted[v] <= 1 + trouble /\ tries[v] <= 5 + trouble
    BY DEF MailIInv, MailInv, NoDuplicateMail
  <2>. QED BY <2>1, MailTypes DEF MailIInv, Counting
<1>. QED BY <1>1, InitMail, StepMail, PTL DEF MailSpec

-----------------------------------------------------------------------------
(***************************************************************************)
(* StoredFiles, for every set of uploads and paths and all bounds.         *)
(***************************************************************************)
(* Some revision links the file.                                           *)
IsLinked(u) == \E r \in 1..Len(history) : u \in history[r].files

(* What the step an upload has reached says of its file.                   *)
UploadFacts ==
    \A u \in Uploads :
        /\ upload[u].at \in {"none", "stage", "publish", "link"} => ~IsLinked(u)
        /\ upload[u].at # "none" => upload[u].path \in Paths
        /\ upload[u].at \in {"none", "stage", "publish"} => u \notin objects
        /\ upload[u].at = "link" => u \in objects
        /\ upload[u].at # "publish" => u \notin staged \/ u \in unlucky
        /\ upload[u].at = "delete" /\ IsLinked(u) => u \in unanswered

(* The inductive invariant.                                                *)
FilesIInv ==
    FilesTypeOK /\ UploadFacts /\ RevisionsStayComplete /\ NoOwnerlessFiles /\ ProgramMatchesConfig

-----------------------------------------------------------------------------
LEMMA FileTypes ==
    ASSUME FilesIInv
    PROVE  /\ history \in Seq(Revisions) /\ Len(history) \in 1..MaxRevision
           /\ Current \in Revisions
           /\ MaxRevision \in Nat /\ NoProgram \notin Paths
           /\ \A f \in Current.files : f \in Uploads /\ IsLinked(f) /\ upload[f].path \in Paths
           /\ \A r \in 1..Len(history) : history[r].files \subseteq Uploads
<1>1. /\ history \in Seq(Revisions) /\ Len(history) \in 1..MaxRevision
      /\ MaxRevision \in Nat /\ NoProgram \notin Paths
  BY FilesAssumption DEF FilesAssumption, FilesIInv, FilesTypeOK
<1>2. \A r \in 1..Len(history) : history[r] \in Revisions
  BY <1>1
<1>3. Current \in Revisions
  BY <1>1, <1>2 DEF Current
<1>4. \A r \in 1..Len(history) : history[r].files \subseteq Uploads
  BY <1>2 DEF Revisions
<1>5. \A f \in Current.files : f \in Uploads /\ IsLinked(f)
  BY <1>1, <1>4 DEF Current, IsLinked
<1>. QED BY <1>1, <1>3, <1>4, <1>5 DEF FilesIInv, UploadFacts

(* A new revision keeps the older ones, and its judge program is the one   *)
(* its configuration names.                                                *)
LEMMA Revised ==
    ASSUME FilesIInv, NEW F \in SUBSET Uploads, NEW p \in Paths \cup {NoProgram},
           Revise(F, p), Resolves(F, p), \A f \in F : upload[f].path \in Paths,
           \A f \in Uploads : upload'[f].judge = upload[f].judge /\ upload'[f].path = upload[f].path
    PROVE  /\ history' \in Seq(Revisions) /\ Len(history') \in 1..MaxRevision
           /\ Len(history') = Len(history) + 1
           /\ \A r \in 1..Len(history) : history'[r] = history[r]
           /\ history'[Len(history')] = Synchronized(F, p)
           /\ \A r \in 1..Len(history') : r \in 1..Len(history) \/ r = Len(history')
           /\ ProgramMatchesConfig'
<1>. DEFINE new == Synchronized(F, p)
<1>1. new \in Revisions /\ new.files \subseteq F /\ new.program = p
  BY DEF Synchronized, Revisions
<1>2. history' = Append(history, new) /\ Len(history) < MaxRevision
  BY DEF Revise
<1>. HIDE DEF new
<1>3. /\ history' \in Seq(Revisions) /\ Len(history') \in 1..MaxRevision
      /\ Len(history') = Len(history) + 1
      /\ \A r \in 1..Len(history) : history'[r] = history[r]
      /\ history'[Len(history')] = new
      /\ \A r \in 1..Len(history') : r \in 1..Len(history) \/ r = Len(history')
  BY <1>1, <1>2, FileTypes
<1>4. {upload[f].path : f \in Programs(new.files)} = {p} \ {NoProgram}
  <2>1. Programs(new.files) = {f \in F : upload[f].judge /\ upload[f].path = p}
    BY DEF new, Synchronized, Programs, AtPath
  <2>2. CASE p = NoProgram
    BY <2>1, <2>2, FileTypes
  <2>3. CASE p # NoProgram
    <3>1. PICK f \in F : upload[f].judge /\ upload[f].path = p
      BY <2>3 DEF Resolves, Programs, AtPath
    <3>2. f \in Programs(new.files)
      BY <2>1, <3>1
    <3>3. \A g \in Programs(new.files) : upload[g].path = p
      BY <2>1
    <3>. QED BY <2>3, <3>1, <3>2, <3>3
  <2>. QED BY <2>2, <2>3
<1>5. ProgramMatchesConfig'
  <2>1. SUFFICES ASSUME NEW r \in 1..Len(history')
                 PROVE  {upload'[f].path : f \in {g \in history'[r].files : upload'[g].judge}}
                           = {history'[r].program} \ {NoProgram}
    BY DEF ProgramMatchesConfig, Programs
  <2>2. history'[r].files \subseteq Uploads
    BY <1>1, <1>3, FileTypes
  <2>3. {upload'[f].path : f \in {g \in history'[r].files : upload'[g].judge}}
           = {upload[f].path : f \in {g \in history'[r].files : upload[g].judge}}
    BY <2>2
  <2>4. CASE r = Len(history')
    BY <1>1, <1>3, <1>4, <2>3, <2>4 DEF Programs
  <2>5. CASE r \in 1..Len(history)
    BY <1>3, <2>3, <2>5 DEF FilesIInv, ProgramMatchesConfig, Programs
  <2>. QED BY <1>3, <2>4, <2>5
<1>. QED BY <1>3, <1>5 DEF new

(* What linked files are is not changed by a step that writes no revision. *)
LEMMA ProgramsKept ==
    ASSUME FilesIInv, UNCHANGED history,
           \A f \in Uploads : IsLinked(f) => /\ upload'[f].judge = upload[f].judge
                                             /\ upload'[f].path = upload[f].path
    PROVE  ProgramMatchesConfig'
<1>1. SUFFICES ASSUME NEW r \in 1..Len(history)
               PROVE  {upload'[f].path : f \in {g \in history[r].files : upload'[g].judge}}
                         = {history[r].program} \ {NoProgram}
  BY DEF ProgramMatchesConfig, Programs
<1>2. \A f \in history[r].files : f \in Uploads /\ IsLinked(f)
  BY FileTypes DEF IsLinked
<1>3. {upload'[f].path : f \in {g \in history[r].files : upload'[g].judge}}
         = {upload[f].path : f \in {g \in history[r].files : upload[g].judge}}
  BY <1>2
<1>. QED BY <1>3 DEF FilesIInv, ProgramMatchesConfig, Programs

(* The steps that write no revision.                                       *)
LEMMA BeginKeeps ==
    ASSUME FilesIInv, NEW u \in Uploads, NEW judge \in BOOLEAN, NEW path \in Paths,
           NEW mode \in Modes, NEW seen \in 1..MaxRevision, BeginUpload(u, judge, path, mode, seen)
    PROVE  FilesIInv'
<1>. DEFINE new == [at |-> "stage", judge |-> judge, path |-> path, mode |-> mode, seen |-> seen]
<1>1. /\ upload[u].at = "none" /\ ~IsLinked(u)
      /\ upload' = [upload EXCEPT ![u] = new]
      /\ UNCHANGED <<history, staged, objects, unlucky, unanswered>>
  BY DEF BeginUpload, FilesIInv, UploadFacts
<1>2. upload'[u] = new /\ \A f \in Uploads \ {u} : upload'[f] = upload[f]
  BY <1>1 DEF FilesIInv, FilesTypeOK
<1>3. FilesTypeOK'
  <2>1. new \in [at : UploadAt, judge : BOOLEAN, path : Paths \cup {NoProgram},
                 mode : Modes, seen : 0..MaxRevision]
    BY FileTypes DEF UploadAt
  <2>. HIDE DEF new
  <2>. QED BY <1>1, <2>1 DEF FilesIInv, FilesTypeOK
<1>4. UploadFacts' /\ RevisionsStayComplete' /\ NoOwnerlessFiles'
  BY <1>1, <1>2 DEF FilesIInv, UploadFacts, RevisionsStayComplete, NoOwnerlessFiles, IsLinked,
     FilesTypeOK
<1>5. ProgramMatchesConfig'
  BY <1>1, <1>2, ProgramsKept
<1>. QED BY <1>3, <1>4, <1>5 DEF FilesIInv

(* An upload that goes to another step stays the same request.             *)
LEMMA Moved ==
    ASSUME FilesTypeOK, NEW u \in Uploads, NEW a \in UploadAt, Goto(u, a)
    PROVE  /\ upload' \in [Uploads -> [at : UploadAt, judge : BOOLEAN, path : Paths \cup {NoProgram},
                                       mode : Modes, seen : 0..MaxRevision]]
           /\ \A f \in Uploads : upload'[f].judge = upload[f].judge /\ upload'[f].path = upload[f].path
           /\ \A f \in Uploads \ {u} : upload'[f].at = upload[f].at
           /\ upload'[u].at = a
<1>. DEFINE Row == [at : UploadAt, judge : BOOLEAN, path : Paths \cup {NoProgram},
                    mode : Modes, seen : 0..MaxRevision]
            new == [upload[u] EXCEPT !.at = a]
<1>1. upload \in [Uploads -> Row] /\ upload' = [upload EXCEPT ![u] = new]
  BY DEF FilesTypeOK, Goto
<1>2. /\ new \in Row /\ new.at = a /\ new.judge = upload[u].judge /\ new.path = upload[u].path
  BY <1>1
<1>. HIDE DEF new
<1>3. upload' \in [Uploads -> Row]
  BY <1>1, <1>2
<1>4. /\ \A f \in Uploads \ {u} : upload'[f] = upload[f]
      /\ upload'[u] = new
  BY <1>1
<1>. QED BY <1>2, <1>3, <1>4

LEMMA QuietKeeps ==
    ASSUME FilesIInv, NEW u \in Uploads,
           Stage(u) \/ Publish(u) \/ DeleteUpload(u) \/ UploadDies(u)
    PROVE  FilesIInv'
<1>1. /\ UNCHANGED <<history, unanswered>>
      /\ upload' \in [Uploads -> [at : UploadAt, judge : BOOLEAN, path : Paths \cup {NoProgram},
                                  mode : Modes, seen : 0..MaxRevision]]
      /\ \A f \in Uploads : upload'[f].judge = upload[f].judge /\ upload'[f].path = upload[f].path
      /\ \A f \in Uploads \ {u} : upload'[f].at = upload[f].at
      /\ upload[u].at \in {"stage", "publish", "link", "delete"}
      /\ upload'[u].at \in {"publish", "link", "over"}
  <2>1. PICK a \in {"publish", "link", "over"} : Goto(u, a)
    BY DEF Stage, Publish, DeleteUpload, UploadDies
  <2>2. a \in UploadAt
    BY DEF UploadAt
  <2>. QED BY <2>1, <2>2, Moved DEF Stage, Publish, DeleteUpload, UploadDies, FilesIInv
<1>2. /\ staged' \subseteq staged \cup {u} /\ objects' \subseteq objects \cup {u}
      /\ unlucky' \in {unlucky, unlucky \cup {u}}
      /\ objects \ {u} \subseteq objects' /\ staged \ {u} \subseteq staged'
  BY DEF Stage, Publish, DeleteUpload, UploadDies
<1>3. FilesTypeOK'
  BY <1>1, <1>2 DEF FilesIInv, FilesTypeOK
<1>4. \A v \in Uploads : IsLinked(v)' <=> IsLinked(v)
  BY <1>1 DEF IsLinked
<1>5. UploadFacts'
  <2>1. ASSUME NEW v \in Uploads, v # u
        PROVE  /\ upload'[v].at = upload[v].at
               /\ v \in objects' <=> v \in objects
               /\ v \in staged' => v \in staged
               /\ v \in unlucky => v \in unlucky'
    BY <1>1, <1>2, <2>1
  <2>2. /\ upload'[u].at \in {"none", "stage", "publish", "link"} => ~IsLinked(u)
        /\ upload'[u].at \in {"none", "stage", "publish"} => u \notin objects'
        /\ upload'[u].at = "link" => u \in objects'
        /\ upload'[u].at # "publish" => u \notin staged' \/ u \in unlucky'
        /\ upload'[u].at = "delete" /\ IsLinked(u) => u \in unanswered
    BY DEF Stage, Publish, DeleteUpload, UploadDies, Goto, FilesIInv, FilesTypeOK, UploadFacts
  <2>. QED BY <1>1, <1>4, <2>1, <2>2 DEF FilesIInv, UploadFacts
<1>6. RevisionsStayComplete'
  <2>1. IsLinked(u) => u \in objects' \cup unanswered
    <3>1. CASE DeleteUpload(u)
      BY <3>1 DEF DeleteUpload, FilesIInv, UploadFacts
    <3>2. CASE Stage(u) \/ Publish(u)
      BY <3>2 DEF Stage, Publish, FilesIInv, UploadFacts
    <3>3. CASE UploadDies(u)
      BY <3>3, FileTypes DEF UploadDies, FilesIInv, RevisionsStayComplete, IsLinked
    <3>. QED BY <3>1, <3>2, <3>3
  <2>. QED BY <1>1, <1>2, <2>1 DEF FilesIInv, RevisionsStayComplete, IsLinked
<1>7. NoOwnerlessFiles'
  <2>1. u \in staged' \cup objects' => \/ upload'[u].at \in {"publish", "link", "delete"}
                                       \/ u \in unlucky'
                                       \/ IsLinked(u)
    BY DEF Stage, Publish, DeleteUpload, UploadDies, Goto, FilesIInv, FilesTypeOK, UploadFacts,
       NoOwnerlessFiles, IsLinked
  <2>. QED BY <1>1, <1>2, <2>1 DEF FilesIInv, FilesTypeOK, NoOwnerlessFiles, IsLinked
<1>8. ProgramMatchesConfig'
  BY <1>1, ProgramsKept
<1>. QED BY <1>3, <1>5, <1>6, <1>7, <1>8 DEF FilesIInv

-----------------------------------------------------------------------------
(* The steps that write a revision of files that were linked before, and   *)
(* perhaps of one upload more, whose object exists.                        *)
LEMMA WriteKeeps ==
    ASSUME FilesIInv, NEW F \in SUBSET Uploads, NEW p \in Paths \cup {NoProgram},
           Revise(F, p), Resolves(F, p), UNCHANGED <<staged, objects, unlucky>>,
           \/ F \subseteq Current.files /\ UNCHANGED <<upload, unanswered>>
           \/ \E u \in Uploads :
                 /\ upload[u].at = "link" /\ F \subseteq Current.files \cup {u}
                 /\ u \in Synchronized(F, p).files
                 /\ \/ Goto(u, "over") /\ UNCHANGED unanswered
                    \/ Goto(u, "delete") /\ unanswered' = unanswered \cup {u}
    PROVE  FilesIInv'
<1>1. PICK G \in SUBSET Uploads :
          /\ F \subseteq Current.files \cup G
          /\ \A u \in G : /\ upload[u].at = "link" /\ u \in Synchronized(F, p).files
                          /\ upload'[u].at \in {"over", "delete"}
                          /\ upload'[u].at = "delete" => u \in unanswered'
          /\ \A f \in Uploads \ G : upload'[f].at = upload[f].at
          /\ unanswered \subseteq unanswered' /\ unanswered' \subseteq unanswered \cup G
          /\ upload' \in [Uploads -> [at : UploadAt, judge : BOOLEAN, path : Paths \cup {NoProgram},
                                      mode : Modes, seen : 0..MaxRevision]]
          /\ \A f \in Uploads : upload'[f].judge = upload[f].judge /\ upload'[f].path = upload[f].path
  <2>1. CASE F \subseteq Current.files /\ UNCHANGED <<upload, unanswered>>
    <3>. WITNESS {} \in SUBSET Uploads
    <3>. QED BY <2>1 DEF FilesIInv, FilesTypeOK
  <2>2. ASSUME NEW u \in Uploads, upload[u].at = "link", F \subseteq Current.files \cup {u},
               u \in Synchronized(F, p).files,
               \/ Goto(u, "over") /\ UNCHANGED unanswered
               \/ Goto(u, "delete") /\ unanswered' = unanswered \cup {u}
        PROVE  \E G \in SUBSET Uploads :
                  /\ F \subseteq Current.files \cup G
                  /\ \A v \in G : /\ upload[v].at = "link" /\ v \in Synchronized(F, p).files
                                  /\ upload'[v].at \in {"over", "delete"}
                                  /\ upload'[v].at = "delete" => v \in unanswered'
                  /\ \A f \in Uploads \ G : upload'[f].at = upload[f].at
                  /\ unanswered \subseteq unanswered' /\ unanswered' \subseteq unanswered \cup G
                  /\ upload' \in [Uploads -> [at : UploadAt, judge : BOOLEAN,
                                              path : Paths \cup {NoProgram}, mode : Modes,
                                              seen : 0..MaxRevision]]
                  /\ \A f \in Uploads : /\ upload'[f].judge = upload[f].judge
                                        /\ upload'[f].path = upload[f].path
    <3>1. PICK a \in {"over", "delete"} :
             /\ Goto(u, a) /\ (a = "over" => UNCHANGED unanswered)
             /\ a = "delete" => unanswered' = unanswered \cup {u}
      BY <2>2
    <3>2. a \in UploadAt
      BY DEF UploadAt
    <3>3. /\ upload' \in [Uploads -> [at : UploadAt, judge : BOOLEAN, path : Paths \cup {NoProgram},
                                      mode : Modes, seen : 0..MaxRevision]]
          /\ \A f \in Uploads : upload'[f].judge = upload[f].judge /\ upload'[f].path = upload[f].path
          /\ \A f \in Uploads \ {u} : upload'[f].at = upload[f].at
          /\ upload'[u].at = a
      BY <3>1, <3>2, Moved DEF FilesIInv
    <3>. WITNESS {u} \in SUBSET Uploads
    <3>. QED BY <2>2, <3>1, <3>3
  <2>. QED BY <2>1, <2>2
<1>2. /\ \A f \in F : f \in Uploads /\ upload[f].path \in Paths /\ (IsLinked(f) \/ f \in objects)
  BY <1>1, FileTypes DEF FilesIInv, UploadFacts
<1>3. /\ history' \in Seq(Revisions) /\ Len(history') \in 1..MaxRevision
      /\ Len(history') = Len(history) + 1
      /\ \A r \in 1..Len(history) : history'[r] = history[r]
      /\ history'[Len(history')] = Synchronized(F, p)
      /\ \A r \in 1..Len(history') : r \in 1..Len(history) \/ r = Len(history')
      /\ ProgramMatchesConfig'
  BY <1>1, <1>2, Revised
<1>4. Synchronized(F, p).files \subseteq F
  BY DEF Synchronized
<1>5. /\ \A v \in Uploads : IsLinked(v)' => IsLinked(v) \/ v \in Synchronized(F, p).files
      /\ \A v \in Uploads : IsLinked(v) => IsLinked(v)'
      /\ \A v \in Synchronized(F, p).files : IsLinked(v)'
  BY <1>3, FileTypes DEF IsLinked
<1>6. FilesTypeOK'
  BY <1>1, <1>3 DEF FilesIInv, FilesTypeOK
<1>7. UploadFacts'
  <2>1. ASSUME NEW v \in Uploads
        PROVE  /\ upload'[v].at \in {"none", "stage", "publish", "link"} => ~IsLinked(v)'
               /\ upload'[v].at = "delete" /\ IsLinked(v)' => v \in unanswered'
    <3>1. CASE v \in G
      BY <1>1, <3>1
    <3>2. CASE v \notin G
      <4>1. upload'[v].at = upload[v].at /\ (IsLinked(v)' => IsLinked(v))
        BY <1>1, <1>4, <1>5, <3>2, FileTypes
      <4>. QED BY <1>1, <4>1 DEF FilesIInv, UploadFacts
    <3>. QED BY <3>1, <3>2
  <2>. QED BY <1>1, <2>1 DEF FilesIInv, UploadFacts
<1>8. RevisionsStayComplete'
  <2>1. \A f \in Synchronized(F, p).files : f \in objects \cup unanswered
    BY <1>2, <1>4 DEF FilesIInv, RevisionsStayComplete, IsLinked
  <2>. QED BY <1>1, <1>3, <2>1 DEF FilesIInv, RevisionsStayComplete
<1>9. NoOwnerlessFiles'
  <2>1. ASSUME NEW v \in staged \cup objects
        PROVE  upload'[v].at \in {"publish", "link", "delete"} \/ v \in unlucky \/ IsLinked(v)'
    <3>1. v \in Uploads
      BY DEF FilesIInv, FilesTypeOK
    <3>2. upload[v].at \in {"publish", "link", "delete"} \/ v \in unlucky \/ IsLinked(v)
      BY DEF FilesIInv, NoOwnerlessFiles, IsLinked
    <3>. QED BY <1>1, <1>5, <3>1, <3>2
  <2>. QED BY <2>1 DEF NoOwnerlessFiles, IsLinked
<1>. QED BY <1>3, <1>6, <1>7, <1>8, <1>9 DEF FilesIInv

LEMMA LinkKeeps ==
    ASSUME FilesIInv, NEW u \in Uploads, LinkUpload(u) \/ LinkThrows(u) PROVE FilesIInv'
<1>1. upload[u].at = "link" /\ UNCHANGED <<staged, objects, unlucky>>
  BY DEF LinkUpload, LinkThrows
<1>2. CASE UNCHANGED history
  <2>1. Goto(u, "delete") /\ unanswered \subseteq unanswered' /\ unanswered' \subseteq unanswered \cup {u}
    BY <1>2, FileTypes DEF LinkUpload, LinkThrows, Revise
  <2>2. "delete" \in UploadAt
    BY DEF UploadAt
  <2>3. /\ upload' \in [Uploads -> [at : UploadAt, judge : BOOLEAN, path : Paths \cup {NoProgram},
                                    mode : Modes, seen : 0..MaxRevision]]
        /\ \A f \in Uploads : upload'[f].judge = upload[f].judge /\ upload'[f].path = upload[f].path
        /\ \A f \in Uploads \ {u} : upload'[f].at = upload[f].at
        /\ upload'[u].at = "delete"
    BY <2>1, <2>2, Moved DEF FilesIInv
  <2>4. \A v \in Uploads : IsLinked(v)' <=> IsLinked(v)
    BY <1>2 DEF IsLinked
  <2>5. FilesTypeOK'
    BY <1>1, <1>2, <2>1, <2>3 DEF FilesIInv, FilesTypeOK
  <2>6. UploadFacts'
    <3>1. ~IsLinked(u) /\ (u \notin staged \/ u \in unlucky)
      BY <1>1 DEF FilesIInv, UploadFacts
    <3>. QED BY <1>1, <2>1, <2>3, <2>4, <3>1 DEF FilesIInv, UploadFacts
  <2>7. RevisionsStayComplete' /\ NoOwnerlessFiles'
    <3>1. \A v \in staged \cup objects : v \in Uploads
      BY DEF FilesIInv, FilesTypeOK
    <3>. QED
      BY <1>1, <1>2, <2>1, <2>3, <3>1 DEF FilesIInv, RevisionsStayComplete, NoOwnerlessFiles
  <2>8. ProgramMatchesConfig'
    BY <1>2, <2>3, ProgramsKept
  <2>. QED BY <2>5, <2>6, <2>7, <2>8 DEF FilesIInv
<1>3. CASE ~UNCHANGED history
  <2>. DEFINE F == Linked(u)
              p == ProgramOf(u)
  <2>1. /\ MayLink(u) /\ Revise(F, p)
        /\ \/ Goto(u, "over") /\ UNCHANGED unanswered
           \/ Goto(u, "delete") /\ unanswered' = unanswered \cup {u}
    BY <1>3 DEF LinkUpload, LinkThrows
  <2>2. /\ F \in SUBSET Uploads /\ F \subseteq Current.files \cup {u} /\ u \in F
    BY FileTypes DEF Linked
  <2>3. p \in Paths \cup {NoProgram} /\ (upload[u].judge => p = upload[u].path)
    BY <1>1, FileTypes DEF ProgramOf, Revisions, FilesIInv, UploadFacts
  <2>4. Resolves(F, p)
    BY <2>1 DEF MayLink, MayWrite
  <2>. HIDE DEF F, p
  <2>5. u \in Synchronized(F, p).files
    BY <2>2, <2>3 DEF Synchronized, Programs, AtPath
  <2>. QED BY <1>1, <2>1, <2>2, <2>3, <2>4, <2>5, WriteKeeps
<1>. QED BY <1>2, <1>3

LEMMA SaveKeeps ==
    ASSUME FilesIInv, NEW p \in Paths \cup {NoProgram}, SaveProblem(p) PROVE FilesIInv'
<1>1. Current.files \in SUBSET Uploads
  BY FileTypes DEF Revisions
<1>. QED BY <1>1, WriteKeeps DEF SaveProblem, MayWrite

(* A removed file leaves the judge program of the new revision resolved:   *)
(* either it was the program, and then none is named, or another file is.  *)
LEMMA RemoveKeeps == ASSUME FilesIInv, NEW f \in Uploads, RemoveFile(f) PROVE FilesIInv'
<1>. DEFINE F == Current.files \ {f}
            p == WithoutFile(f)
<1>1. F \in SUBSET Uploads /\ p \in Paths \cup {NoProgram}
  BY FileTypes DEF Revisions, WithoutFile
<1>2. {upload[g].path : g \in Programs(Current.files)} = {Current.program} \ {NoProgram}
  BY FileTypes, SMTT(30) DEF FilesIInv, ProgramMatchesConfig, Current
<1>3. Resolves(F, p)
  <2>1. CASE p = NoProgram
    BY <2>1 DEF Resolves
  <2>2. CASE p # NoProgram
    <3>1. p = Current.program /\ ~(upload[f].judge /\ upload[f].path = Current.program)
      BY <2>2 DEF WithoutFile
    <3>2. PICK g \in Programs(Current.files) : upload[g].path = p
      BY <1>2, <2>2, <3>1
    <3>3. g \in AtPath(Programs(F), p)
      BY <3>1, <3>2 DEF Programs, AtPath
    <3>. QED BY <3>3 DEF Resolves
  <2>. QED BY <2>1, <2>2
<1>4. Revise(F, p) /\ UNCHANGED <<upload, staged, objects, unlucky, unanswered>>
  BY DEF RemoveFile
<1>. HIDE DEF p
<1>. QED BY <1>1, <1>3, <1>4, WriteKeeps

-----------------------------------------------------------------------------
LEMMA InitFiles == FilesInit => FilesIInv
<1>1. SUFFICES ASSUME FilesInit PROVE FilesIInv
  OBVIOUS
<1>2. /\ history = <<[files |-> {}, program |-> NoProgram]>> /\ Len(history) = 1
      /\ [files |-> {}, program |-> NoProgram] \in Revisions
      /\ history[1] = [files |-> {}, program |-> NoProgram]
  BY <1>1 DEF FilesInit, Revisions
<1>3. FilesTypeOK
  BY <1>1, <1>2, FilesAssumption DEF FilesAssumption, FilesInit, FilesTypeOK, NoUpload, UploadAt, Modes
<1>4. \A v \in Uploads : ~IsLinked(v)
  BY <1>2 DEF IsLinked
<1>5. UploadFacts /\ RevisionsStayComplete /\ NoOwnerlessFiles
  BY <1>1, <1>2, <1>4 DEF FilesInit, UploadFacts, RevisionsStayComplete, NoOwnerlessFiles, NoUpload
<1>6. ProgramMatchesConfig
  BY <1>2 DEF ProgramMatchesConfig, Programs
<1>. QED BY <1>3, <1>5, <1>6 DEF FilesIInv

LEMMA StepFiles == FilesIInv /\ [FilesNext]_filesVars => FilesIInv'
<1>1. SUFFICES ASSUME FilesIInv, [FilesNext]_filesVars PROVE FilesIInv'
  OBVIOUS
<1>2. CASE UNCHANGED filesVars
  <2>1. FilesTypeOK' /\ RevisionsStayComplete' /\ NoOwnerlessFiles'
    BY <1>1, <1>2 DEF filesVars, FilesIInv, FilesTypeOK, RevisionsStayComplete, NoOwnerlessFiles
  <2>2. UploadFacts'
    BY <1>1, <1>2 DEF filesVars, FilesIInv, UploadFacts, IsLinked
  <2>3. ProgramMatchesConfig'
    BY <1>1, <1>2, ProgramsKept DEF filesVars
  <2>. QED BY <2>1, <2>2, <2>3 DEF FilesIInv
<1>. QED BY <1>1, <1>2, BeginKeeps, QuietKeeps, LinkKeeps, SaveKeeps, RemoveKeeps DEF FilesNext

(* For all uploads, paths and interleavings: every revision keeps the      *)
(* objects of its files, no bytes are left without an owner, and each      *)
(* revision links the judge program its configuration names, with the      *)
(* exceptions of lost replies and dead processes FilesInv names.           *)
THEOREM FilesAreSafe == FilesSpec => []FilesInv
<1>1. FilesIInv => FilesInv
  BY DEF FilesIInv, FilesInv
<1>. QED BY <1>1, InitFiles, StepFiles, PTL DEF FilesSpec

-----------------------------------------------------------------------------
(***************************************************************************)
(* ExportTask, for every number of problems, attempts, restarts and failing *)
(* calls.  Each action of the handler is one InvocationStep: what it may do *)
(* to the queue entry, the row and the objects, by the step it leaves and  *)
(* the step it goes to.                                                    *)
(***************************************************************************)
(* An attempt that sealed the task is past its commit, and    *)
(* its number is never handed out again in this process.                   *)
Past == {"catch", "last", "bury", "ended"}

SealFacts ==
    /\ task = "succeeded" =>
          /\ result \in artifacts \cap files
          /\ result \in (0..restarts) \X Runs
          /\ result[1] = restarts => run[result[2]].at \in Past
    /\ task # "succeeded" => result = None

(* The objects attempts of this process stand for.                         *)
ObjectFacts ==
    /\ None \notin artifacts
    /\ \A e \in Runs : run[e].at # "none" => e <= issued
    /\ \A e \in Runs : run[e].at = "commit" => Object(e) \in artifacts
    /\ faults = 0 /\ restarts = 0 =>
          \A o \in artifacts :
             o = result \/ \E e \in Runs : o = Object(e) /\ run[e].at \in {"commit", "undo"}

(* A problem is left while the handler reads and converts.                 *)
NextFact(r) ==
    r.at \in {"start", "precheck", "announce", "read", "convert", "told"} => r.next <= Problems

ExportIInv ==
    /\ ExportTypeOK
    /\ phase[Task] = "succeeded" => task = "succeeded"
    /\ SealFacts
    /\ ObjectFacts
    /\ \A e \in Runs : NextFact(run[e])

-----------------------------------------------------------------------------
LEMMA PercentBounded ==
    ASSUME NEW P \in Nat \ {0}, NEW n \in 0..P
    PROVE  (n * 70) \div P \in 0..70
<1>. DEFINE q == (n * 70) \div P
<1>1. q \in Int /\ P * q <= n * 70 /\ n * 70 < P * q + P
  OBVIOUS
<1>. HIDE DEF q
<1>2. ASSUME NEW k \in Nat PROVE P * k >= 0
  OBVIOUS
<1>3. q <= 70
  <2>1. SUFFICES ASSUME q - 71 \in Nat PROVE FALSE
    BY <1>1
  <2>2. P * (q - 71) >= 0
    BY <1>2, <2>1
  <2>3. P * (q - 71) = P * q - P * 71
    BY <1>1
  <2>. QED BY <1>1, <2>2, <2>3
<1>4. q >= 0
  <2>1. SUFFICES ASSUME 0 - 1 - q \in Nat PROVE FALSE
    BY <1>1
  <2>2. P * (0 - 1 - q) >= 0
    BY <1>2, <2>1
  <2>3. P * (0 - 1 - q) = 0 - P - P * q
    BY <1>1
  <2>. QED BY <1>1, <2>2, <2>3
<1>. QED BY <1>1, <1>3, <1>4 DEF q

LEMMA SharesBounded ==
    ASSUME NEW e \in Runs, run[e] \in ExportRun, run[e].next <= Problems
    PROVE  ReadPercent(e) \in 0..100 /\ ConvPercent(e) \in 0..100
<1>1. Problems \in Nat \ {0} /\ run[e].next - 1 \in 0..Problems /\ run[e].next \in 0..Problems
  BY ExportAssumption DEF ExportAssumption, ExportRun
<1>2. Share(run[e].next - 1) \in 0..70 /\ Share(run[e].next) \in 0..70
  BY <1>1, PercentBounded DEF Share
<1>. QED BY <1>2 DEF ReadPercent, ConvPercent, AtLeastTen

(* The queue entry.                                                        *)
LEMMA ExportReport ==
    ASSUME LifeTypeOK, NEW e, NEW outcome, Report(e, outcome)
    PROVE  /\ LifeTypeOK' /\ issued' = issued
           /\ phase'[Task] = "succeeded" => phase[Task] = "succeeded" \/ outcome = "succeeded"
<1>. USE TaskAssumption, MaxAttemptsAssumption
     DEF TaskAssumption, MaxAttemptsAssumption, LifeTypeOK, Phases, Final
<1>1. CASE UNCHANGED lifeVars
  BY <1>1 DEF lifeVars
<1>2. ASSUME NEW p \in {"succeeded", "queued", "failed"}, LeaveFor(Task, p),
             p = "succeeded" => outcome = "succeeded"
      PROVE  /\ LifeTypeOK' /\ issued' = issued
             /\ phase'[Task] = "succeeded" => phase[Task] = "succeeded" \/ outcome = "succeeded"
  BY <1>2 DEF LeaveFor
<1>. QED BY <1>1, <1>2 DEF Report, Succeed, Retry, GiveUp

LEMMA ExportQueue ==
    ASSUME LifeTypeOK,
           Submit(Task) \/ Grant(Task) \/ Reclaim({Task}) \/ Lapse({Task}) \/ UNCHANGED lifeVars
    PROVE  /\ LifeTypeOK' /\ (phase'[Task] = "succeeded" => phase[Task] = "succeeded")
           /\ issued' = issued \/ (Grant(Task) /\ issued' = issued + 1)
BY TaskAssumption, MaxAttemptsAssumption
   DEF TaskAssumption, MaxAttemptsAssumption, LifeTypeOK, Phases, Final, Submit, Grant, Reclaim, Lapse,
       lifeVars

-----------------------------------------------------------------------------
(* A step of one invocation: what it does to the queue, the row and the    *)
(* objects.                                                                *)
ExportQueueStep(e) ==
    \/ UNCHANGED lifeVars
    \/ \E outcome \in {"succeeded", "permanent", "retryable"} :
          Report(e, outcome) /\ (outcome = "succeeded" => task' = "succeeded")

Goes(e, to) ==
    /\ UNCHANGED <<result, files, artifacts>>
    /\ \/ task' = task
       \/ task = "queued" /\ task' = "running"
       \/ task = "running" /\ task' = "failed"
    /\ run[e].at \in Past => to \in Past
    /\ to # "commit"
    /\ run[e].at \in {"commit", "undo"} => to = "undo" \/ faults' > 0

Publishes(e, to) ==
    /\ run[e].at = "publish" /\ to = "commit"
    /\ artifacts' = artifacts \cup {Object(e)}
    /\ UNCHANGED <<task, result, files>>

Seals(e, to) ==
    /\ run[e].at = "commit" /\ to \in Past
    /\ task = "running" /\ task' = "succeeded"
    /\ result' = Object(e) /\ files' = files \cup {Object(e)} /\ artifacts' = artifacts

Undoes(e, to) ==
    /\ run[e].at = "undo" /\ to = "catch"
    /\ artifacts' = artifacts \ {Object(e)}
    /\ UNCHANGED <<task, result, files>>

Moves(e, to) == Goes(e, to) \/ Publishes(e, to) \/ Seals(e, to) \/ Undoes(e, to)

InvocationStep(e) ==
    /\ ExportQueueStep(e)
    /\ run[e].at # "none"
    /\ \E new \in ExportRun : run' = [run EXCEPT ![e] = new] /\ NextFact(new) /\ Moves(e, new.at)
    /\ percent' \in 0..100
    /\ UNCHANGED exportEnv
    /\ faults' \in 0..MaxFaults /\ faults' >= faults

LEMMA InvocationKeeps ==
    ASSUME ExportIInv, NEW e \in Runs, InvocationStep(e)
    PROVE  ExportIInv'
<1>1. PICK new \in ExportRun : run' = [run EXCEPT ![e] = new] /\ NextFact(new) /\ Moves(e, new.at)
  BY DEF InvocationStep
<1>2. /\ LifeTypeOK /\ run \in [Runs -> ExportRun] /\ restarts \in 0..MaxRestarts
      /\ task \in {"absent", "queued", "running", "succeeded", "failed"}
      /\ result \in Objects /\ artifacts \subseteq Objects /\ files \subseteq Objects
      /\ allowed \in BOOLEAN /\ convertible \in BOOLEAN /\ faults \in 0..MaxFaults
      /\ SealFacts /\ ObjectFacts /\ \A d \in Runs : NextFact(run[d])
      /\ phase[Task] = "succeeded" => task = "succeeded"
  BY DEF ExportIInv, ExportTypeOK
<1>3. /\ ExportQueueStep(e) /\ run[e].at # "none" /\ percent' \in 0..100
      /\ restarts' = restarts /\ allowed' = allowed /\ convertible' = convertible
      /\ faults' \in 0..MaxFaults /\ faults' >= faults
  BY DEF InvocationStep, exportEnv
<1>4. /\ run' \in [Runs -> ExportRun] /\ run'[e] = new
      /\ \A d \in Runs \ {e} : run'[d] = run[d]
  BY <1>1, <1>2
<1>5. /\ Object(e) \in Objects /\ Object(e) # None /\ Object(e) = <<restarts, e>>
      /\ \A d \in Runs : Object(d) = Object(e) => d = e
  BY <1>2 DEF Object, Objects, None
<1>6. task = "succeeded" => task' = "succeeded"
  BY <1>1 DEF Moves, Goes, Publishes, Seals, Undoes
<1>7. LifeTypeOK' /\ issued' = issued /\ (phase'[Task] = "succeeded" => task' = "succeeded")
  <2>1. CASE UNCHANGED lifeVars
    BY <1>2, <1>6, <2>1 DEF lifeVars, LifeTypeOK
  <2>2. ASSUME NEW outcome, Report(e, outcome), outcome = "succeeded" => task' = "succeeded"
        PROVE  /\ LifeTypeOK' /\ issued' = issued
               /\ phase'[Task] = "succeeded" => task' = "succeeded"
    BY <1>2, <1>6, <2>2, ExportReport
  <2>. QED BY <1>3, <2>1, <2>2 DEF ExportQueueStep
<1>8. ExportTypeOK'
  <2>1. /\ task' \in {"absent", "queued", "running", "succeeded", "failed"}
        /\ result' \in Objects /\ artifacts' \subseteq Objects /\ files' \subseteq Objects
    BY <1>1, <1>2, <1>5 DEF Moves, Goes, Publishes, Seals, Undoes
  <2>. QED BY <1>2, <1>3, <1>4, <1>7, <2>1 DEF ExportTypeOK
<1>9. SealFacts'
  <2>1. result = Object(e) => task # "succeeded" \/ run[e].at \in Past
    BY <1>2, <1>5 DEF SealFacts
  <2>2. restarts \in 0..restarts
    BY <1>2, ExportAssumption DEF ExportAssumption
  <2>3. CASE Goes(e, new.at)
    <3>1. result' = result /\ artifacts' = artifacts /\ files' = files
          /\ (task' = "succeeded" <=> task = "succeeded")
      BY <1>2, <2>3 DEF Goes
    <3>2. \A d \in Runs : run[d].at \in Past => run'[d].at \in Past
      BY <1>4, <2>3 DEF Goes
    <3>3. task = "succeeded" => result[2] \in Runs
      BY <1>2 DEF SealFacts
    <3>. QED BY <1>2, <1>3, <3>1, <3>2, <3>3 DEF SealFacts
  <2>4. CASE Publishes(e, new.at)
    <3>1. result' = result /\ artifacts \subseteq artifacts' /\ files' = files /\ task' = task
      BY <2>4 DEF Publishes
    <3>2. \A d \in Runs : run[d].at \in Past => run'[d].at \in Past
      BY <1>4, <2>4 DEF Publishes, Past
    <3>3. task = "succeeded" => result[2] \in Runs
      BY <1>2 DEF SealFacts
    <3>. QED BY <1>2, <1>3, <3>1, <3>2, <3>3 DEF SealFacts
  <2>5. CASE Seals(e, new.at)
    <3>1. task' = "succeeded" /\ result' = Object(e) /\ Object(e) \in files' /\ Object(e) \in artifacts'
      BY <1>2, <2>5 DEF Seals, ObjectFacts
    <3>2. Object(e) \in (0..restarts) \X Runs /\ Object(e)[2] = e
      BY <1>5, <2>2
    <3>. QED BY <1>3, <1>4, <2>5, <3>1, <3>2 DEF SealFacts, Seals
  <2>6. CASE Undoes(e, new.at)
    <3>1. result' = result /\ artifacts' = artifacts \ {Object(e)} /\ files' = files /\ task' = task
      BY <2>6 DEF Undoes
    <3>2. task = "succeeded" => result # Object(e) /\ result[2] \in Runs
      BY <1>2, <2>1, <2>6 DEF Undoes, Past, SealFacts
    <3>3. \A d \in Runs : run[d].at \in Past => run'[d].at \in Past
      BY <1>4, <2>6 DEF Undoes, Past
    <3>. QED BY <1>2, <1>3, <3>1, <3>2, <3>3 DEF SealFacts
  <2>. QED BY <1>1, <2>3, <2>4, <2>5, <2>6 DEF Moves
<1>10. ObjectFacts'
  <2>1. None \notin artifacts'
    BY <1>1, <1>2, <1>5 DEF Moves, Goes, Publishes, Seals, Undoes, ObjectFacts
  <2>2. \A d \in Runs : run'[d].at # "none" => d <= issued'
    BY <1>2, <1>3, <1>4, <1>7 DEF ObjectFacts
  <2>3. ASSUME NEW d \in Runs, run'[d].at = "commit" PROVE <<restarts, d>> \in artifacts'
    <3>1. CASE d = e
      BY <1>1, <1>4, <1>5, <2>3, <3>1 DEF Moves, Goes, Publishes, Seals, Undoes, Past
    <3>2. CASE d # e
      <4>1. Object(d) \in artifacts /\ Object(d) # Object(e) /\ Object(d) = <<restarts, d>>
        BY <1>2, <1>4, <1>5, <2>3, <3>2 DEF ObjectFacts, Object
      <4>. QED BY <1>1, <4>1 DEF Moves, Goes, Publishes, Seals, Undoes
    <3>. QED BY <3>1, <3>2
  <2>4. ASSUME faults' = 0, restarts = 0, NEW o \in artifacts'
        PROVE  o = result' \/ \E d \in Runs : o = <<restarts, d>> /\ run'[d].at \in {"commit", "undo"}
    <3>1. faults = 0
      BY <1>2, <1>3, <2>4, ExportAssumption DEF ExportAssumption
    <3>2. CASE o = Object(e) /\ run'[e].at \in {"commit", "undo"}
      BY <1>5, <3>2
    <3>3. CASE o # Object(e) \/ run'[e].at \notin {"commit", "undo"}
      <4>1. o \in artifacts
        BY <1>1, <1>4, <2>4, <3>3 DEF Moves, Goes, Publishes, Seals, Undoes
      <4>2. CASE o = result
        <5>1. task = "succeeded"
          BY <1>2, <2>1, <4>1, <4>2 DEF SealFacts, ObjectFacts
        <5>. QED BY <1>1, <4>2, <5>1 DEF Moves, Goes, Publishes, Seals, Undoes
      <4>3. ASSUME NEW d \in Runs, o = Object(d), run[d].at \in {"commit", "undo"}
            PROVE  o = result' \/ \E x \in Runs : o = <<restarts, x>> /\ run'[x].at \in {"commit", "undo"}
        <5>1. CASE d # e
          BY <1>4, <4>3, <5>1 DEF Object
        <5>2. CASE d = e
          BY <1>1, <1>4, <2>4, <3>3, <4>3, <5>2 DEF Moves, Goes, Publishes, Seals, Undoes
        <5>. QED BY <5>1, <5>2
      <4>. QED BY <1>2, <2>4, <3>1, <4>1, <4>2, <4>3 DEF ObjectFacts
    <3>. QED BY <3>2, <3>3
  <2>. QED BY <1>3, <2>1, <2>2, <2>3, <2>4 DEF ObjectFacts, Object
<1>11. \A d \in Runs : NextFact(run'[d])
  BY <1>1, <1>2, <1>4
<1>. QED BY <1>7, <1>8, <1>9, <1>10, <1>11 DEF ExportIInv, NextFact

-----------------------------------------------------------------------------
(* How an action leaves its invocation.                                    *)
Shape(e, to) ==
    \E new \in ExportRun : run' = [run EXCEPT ![e] = new] /\ new.at = to /\ NextFact(new)

LEMMA ShapeFacts ==
    ASSUME NEW e \in Runs, run \in [Runs -> ExportRun], NextFact(run[e])
    PROVE  /\ \A to \in {"read", "convert", "told", "precheck", "announce"} :
                 Continue(e, to) /\ run[e].next <= Problems => Shape(e, to) /\ UNCHANGED lifeVars
           /\ \A to \in {"publish", "commit", "undo", "bury", "last"} :
                 Continue(e, to) => Shape(e, to) /\ UNCHANGED lifeVars
           /\ \A error \in {"temporary", "package"} :
                 Raise(e, error) => Shape(e, "catch") /\ UNCHANGED lifeVars
           /\ \A outcome : Done(e, outcome) => Shape(e, "ended") /\ Report(e, outcome)
<1>1. run[e] \in ExportRun /\ Problems \in Nat \ {0}
  BY ExportAssumption DEF ExportAssumption
<1>2. ASSUME NEW to \in {"read", "convert", "told", "precheck", "announce"}, Continue(e, to),
             run[e].next <= Problems
      PROVE  Shape(e, to) /\ UNCHANGED lifeVars
  <2>. DEFINE new == [run[e] EXCEPT !.at = to]
  <2>1. new \in ExportRun /\ new.at = to /\ NextFact(new)
    BY <1>1, <1>2 DEF ExportRun, NextFact
  <2>2. run' = [run EXCEPT ![e] = new] /\ UNCHANGED lifeVars
    BY <1>2 DEF Continue
  <2>. QED BY <2>1, <2>2 DEF Shape
<1>3. ASSUME NEW to \in {"publish", "commit", "undo", "bury", "last"}, Continue(e, to)
      PROVE  Shape(e, to) /\ UNCHANGED lifeVars
  <2>. DEFINE new == [run[e] EXCEPT !.at = to]
  <2>1. new \in ExportRun /\ new.at = to /\ NextFact(new)
    BY <1>1, <1>3 DEF ExportRun, NextFact
  <2>2. run' = [run EXCEPT ![e] = new] /\ UNCHANGED lifeVars
    BY <1>3 DEF Continue
  <2>. QED BY <2>1, <2>2 DEF Shape
<1>4. ASSUME NEW error \in {"temporary", "package"}, Raise(e, error)
      PROVE  Shape(e, "catch") /\ UNCHANGED lifeVars
  <2>. DEFINE new == [run[e] EXCEPT !.at = "catch", !.error = error]
  <2>1. new \in ExportRun /\ new.at = "catch" /\ NextFact(new)
    BY <1>1, <1>4 DEF ExportRun, NextFact
  <2>2. run' = [run EXCEPT ![e] = new] /\ UNCHANGED lifeVars
    BY <1>4 DEF Raise
  <2>. QED BY <2>1, <2>2 DEF Shape
<1>5. ASSUME NEW outcome, Done(e, outcome)
      PROVE  Shape(e, "ended") /\ Report(e, outcome)
  <2>. DEFINE new == [NoExport EXCEPT !.at = "ended", !.aborted = run[e].aborted]
  <2>1. new \in ExportRun /\ new.at = "ended" /\ NextFact(new)
    <3>1. NoExport \in ExportRun
      BY <1>1 DEF ExportRun, NoExport
    <3>2. run[e].aborted \in BOOLEAN
      BY <1>1 DEF ExportRun
    <3>. QED BY <3>1, <3>2 DEF ExportRun, NextFact
  <2>2. run' = [run EXCEPT ![e] = new] /\ Report(e, outcome)
    BY <1>5 DEF Done
  <2>. QED BY <2>1, <2>2 DEF Shape
<1>. QED BY <1>2, <1>3, <1>4, <1>5

LEMMA InvocationFrom ==
    ASSUME NEW e \in Runs, NEW to, Shape(e, to), Moves(e, to), ExportQueueStep(e),
           run[e].at # "none", percent' \in 0..100, UNCHANGED exportEnv,
           faults' \in 0..MaxFaults, faults' >= faults
    PROVE  InvocationStep(e)
BY DEF Shape, InvocationStep

LEMMA HandlerStarts ==
    ASSUME ExportIInv, NEW e \in Runs,
           StartExport(e) \/ Precheck(e) \/ Announce(e) \/ ReportProblem(e) \/ LastExport(e)
    PROVE  InvocationStep(e)
<1>1. /\ run \in [Runs -> ExportRun] /\ run[e] \in ExportRun /\ NextFact(run[e]) /\ percent \in 0..100
      /\ faults \in 0..MaxFaults /\ MaxFaults \in Nat
      /\ task \in {"absent", "queued", "running", "succeeded", "failed"}
  BY ExportAssumption DEF ExportIInv, ExportTypeOK, ExportAssumption
<1>2. faults' \in 0..MaxFaults /\ faults' >= faults /\ UNCHANGED exportEnv
  BY <1>1 DEF Calm, StartExport, Precheck, Announce, ReportProblem, LastExport
<1>3. percent' = percent /\ UNCHANGED <<result, files, artifacts>>
  BY DEF StartExport, Precheck, Announce, ReportProblem, LastExport, BeginRow, StoreQuiet, rowVars
<1>4. CASE StartExport(e)
  <2>1. /\ run[e].at = "start" /\ run[e].next <= Problems
        /\ task' = IF task = "queued" THEN "running" ELSE task
    BY <1>1, <1>4 DEF StartExport, At, NextFact, BeginRow
  <2>2. CASE Continue(e, "precheck")
    <3>1. Shape(e, "precheck") /\ UNCHANGED lifeVars
      BY <1>1, <2>1, <2>2, ShapeFacts
    <3>2. Moves(e, "precheck")
      BY <1>1, <1>3, <2>1 DEF Moves, Goes, Past
    <3>. QED BY <1>1, <1>2, <1>3, <2>1, <3>1, <3>2, InvocationFrom DEF ExportQueueStep
  <2>3. ASSUME NEW outcome \in {"succeeded", "permanent"}, Done(e, outcome),
               outcome = "succeeded" => task' = "succeeded"
        PROVE  InvocationStep(e)
    <3>1. Shape(e, "ended") /\ Report(e, outcome)
      BY <1>1, <2>3, ShapeFacts
    <3>2. Moves(e, "ended")
      BY <1>1, <1>3, <2>1 DEF Moves, Goes, Past
    <3>3. ExportQueueStep(e)
      BY <2>3, <3>1 DEF ExportQueueStep
    <3>. QED BY <1>1, <1>2, <1>3, <2>1, <3>1, <3>2, <3>3, InvocationFrom
  <2>. QED BY <1>4, <2>2, <2>3 DEF StartExport
<1>5. CASE LastExport(e)
  <2>1. /\ run[e].at = "last"
        /\ task' = IF task = "queued" THEN "running" ELSE task
    BY <1>1, <1>5 DEF LastExport, At, BeginRow
  <2>2. CASE Continue(e, "bury")
    <3>1. Shape(e, "bury") /\ UNCHANGED lifeVars
      BY <1>1, <2>1, <2>2, ShapeFacts
    <3>2. Moves(e, "bury")
      BY <1>1, <1>3, <2>1 DEF Moves, Goes, Past
    <3>. QED BY <1>1, <1>2, <1>3, <2>1, <3>1, <3>2, InvocationFrom DEF ExportQueueStep
  <2>3. ASSUME NEW outcome \in {"succeeded", "permanent"}, Done(e, outcome),
               outcome = "succeeded" => task' = "succeeded"
        PROVE  InvocationStep(e)
    <3>1. Shape(e, "ended") /\ Report(e, outcome)
      BY <1>1, <2>3, ShapeFacts
    <3>2. Moves(e, "ended")
      BY <1>1, <1>3, <2>1 DEF Moves, Goes, Past
    <3>3. ExportQueueStep(e)
      BY <2>3, <3>1 DEF ExportQueueStep
    <3>. QED BY <1>1, <1>2, <1>3, <2>1, <3>1, <3>2, <3>3, InvocationFrom
  <2>. QED BY <1>5, <2>2, <2>3 DEF LastExport
<1>6. CASE Precheck(e) \/ Announce(e)
  <2>1. run[e].at \in {"precheck", "announce"} /\ run[e].next <= Problems /\ task' = task
    BY <1>1, <1>6 DEF Precheck, Announce, At, NextFact, StoreQuiet, rowVars
  <2>2. ASSUME NEW to \in {"announce", "read", "catch"}, Shape(e, to), UNCHANGED lifeVars
        PROVE  InvocationStep(e)
    <3>1. Moves(e, to)
      BY <1>1, <1>3, <2>1, <2>2 DEF Moves, Goes, Past
    <3>. QED BY <1>1, <1>2, <1>3, <2>1, <2>2, <3>1, InvocationFrom DEF ExportQueueStep
  <2>3. \/ Continue(e, "announce") \/ Continue(e, "read")
        \/ Raise(e, "package") \/ Raise(e, "temporary")
    BY <1>6 DEF Precheck, Announce
  <2>. QED BY <1>1, <2>1, <2>2, <2>3, ShapeFacts
<1>7. CASE ReportProblem(e)
  <2>1. run[e].at = "told" /\ run[e].next <= Problems /\ task' = task
    BY <1>1, <1>7 DEF ReportProblem, At, NextFact, StoreQuiet, rowVars
  <2>2. ASSUME NEW to \in {"writing", "announce", "catch"}, Shape(e, to), UNCHANGED lifeVars
        PROVE  InvocationStep(e)
    <3>1. Moves(e, to)
      BY <1>1, <1>3, <2>1, <2>2 DEF Moves, Goes, Past
    <3>. QED BY <1>1, <1>2, <1>3, <2>1, <2>2, <3>1, InvocationFrom DEF ExportQueueStep
  <2>3. CASE Holds(e)
    <3>. DEFINE to == IF run[e].next = Problems THEN "writing" ELSE "announce"
                new == [run[e] EXCEPT !.next = @ + 1, !.at = to]
    <3>1. run' = [run EXCEPT ![e] = new] /\ UNCHANGED lifeVars
      BY <1>1, <1>7, <2>3 DEF ReportProblem
    <3>2. new \in ExportRun /\ new.at = to /\ NextFact(new)
      <4>1. Problems \in Nat \ {0} /\ run[e].next \in 1..Problems + 1
        BY <1>1, ExportAssumption DEF ExportRun, ExportAssumption
      <4>2. run[e].next + 1 \in 1..Problems + 1 /\ to \in {"writing", "announce"}
        BY <2>1, <4>1
      <4>3. to = "announce" => run[e].next + 1 <= Problems
        BY <2>1, <4>1
      <4>4. new.at = to /\ new.next = run[e].next + 1 /\ new \in ExportRun
        <5>. HIDE DEF to
        <5>. QED BY <1>1, <4>2 DEF ExportRun
      <4>. HIDE DEF to, new
      <4>. QED BY <4>2, <4>3, <4>4 DEF NextFact
    <3>3. Shape(e, to)
      BY <3>1, <3>2 DEF Shape
    <3>4. to \in {"writing", "announce"}
      OBVIOUS
    <3>. HIDE DEF to, new
    <3>. QED BY <2>2, <3>1, <3>3, <3>4
  <2>4. CASE ~Holds(e)
    BY <1>1, <1>7, <2>2, <2>4, ShapeFacts DEF ReportProblem
  <2>. QED BY <2>3, <2>4
<1>. QED BY <1>4, <1>5, <1>6, <1>7

(* The statements that move the progress.                                  *)
LEMMA ProgressMoved ==
    ASSUME percent \in 0..100, NEW new \in 0..100, MoveTo(new) \/ UNCHANGED rowVars
    PROVE  percent' \in 0..100 /\ UNCHANGED <<task, result, files>>
BY DEF MoveTo, rowVars

LEMMA HandlerReads ==
    ASSUME ExportIInv, NEW e \in Runs, ReadProblem(e) \/ ConvertProblem(e) \/ StartWriting(e)
    PROVE  InvocationStep(e)
<1>1. /\ run \in [Runs -> ExportRun] /\ run[e] \in ExportRun /\ NextFact(run[e]) /\ percent \in 0..100
      /\ faults \in 0..MaxFaults /\ MaxFaults \in Nat
  BY ExportAssumption DEF ExportIInv, ExportTypeOK, ExportAssumption
<1>2. faults' \in 0..MaxFaults /\ faults' >= faults /\ UNCHANGED exportEnv /\ artifacts' = artifacts
  BY <1>1 DEF Calm, ReadProblem, ConvertProblem, StartWriting
<1>3. ASSUME NEW to \in {"convert", "told", "catch", "publish"}, Shape(e, to), UNCHANGED lifeVars,
             run[e].at \in {"read", "convert", "writing"},
             percent' \in 0..100, UNCHANGED <<task, result, files>>
      PROVE  InvocationStep(e)
  <2>1. Moves(e, to)
    BY <1>2, <1>3 DEF Moves, Goes, Past
  <2>. QED BY <1>1, <1>2, <1>3, <2>1, InvocationFrom DEF ExportQueueStep
<1>4. CASE ReadProblem(e)
  <2>1. run[e].at = "read" /\ run[e].next <= Problems
    BY <1>1, <1>4 DEF ReadProblem, At, NextFact
  <2>2. ReadPercent(e) \in 0..100
    BY <1>1, <2>1, SharesBounded
  <2>3. percent' \in 0..100 /\ UNCHANGED <<task, result, files>>
    BY <1>1, <1>4, <2>2, ProgressMoved DEF ReadProblem
  <2>4. Continue(e, "convert") \/ Raise(e, "temporary") \/ Raise(e, "package")
    BY <1>4 DEF ReadProblem
  <2>. QED BY <1>1, <1>3, <2>1, <2>3, <2>4, ShapeFacts
<1>5. CASE ConvertProblem(e)
  <2>1. run[e].at = "convert" /\ run[e].next <= Problems
    BY <1>1, <1>5 DEF ConvertProblem, At, NextFact
  <2>2. ConvPercent(e) \in 0..100
    BY <1>1, <2>1, SharesBounded
  <2>3. percent' \in 0..100 /\ UNCHANGED <<task, result, files>>
    BY <1>1, <1>5, <2>2, ProgressMoved DEF ConvertProblem
  <2>4. Continue(e, "told") \/ Raise(e, "temporary") \/ Raise(e, "package")
    BY <1>5 DEF ConvertProblem
  <2>. QED BY <1>1, <1>3, <2>1, <2>3, <2>4, ShapeFacts
<1>6. CASE StartWriting(e)
  <2>1. run[e].at = "writing"
    BY <1>6 DEF StartWriting, At
  <2>2. percent' \in 0..100 /\ UNCHANGED <<task, result, files>>
    <3>1. 85 \in 0..100
      OBVIOUS
    <3>. QED BY <1>1, <1>6, <3>1, ProgressMoved DEF StartWriting
  <2>3. Continue(e, "publish") \/ Raise(e, "temporary") \/ Raise(e, "package")
    BY <1>6 DEF StartWriting
  <2>. QED BY <1>1, <1>3, <2>1, <2>2, <2>3, ShapeFacts
<1>. QED BY <1>4, <1>5, <1>6

LEMMA HandlerEnds ==
    ASSUME ExportIInv, NEW e \in Runs,
           PublishArtifact(e) \/ CommitExport(e) \/ UndoArtifact(e) \/ CatchExport(e) \/ BuryExport(e)
    PROVE  InvocationStep(e)
<1>1. /\ run \in [Runs -> ExportRun] /\ run[e] \in ExportRun /\ NextFact(run[e]) /\ percent \in 0..100
      /\ faults \in 0..MaxFaults /\ MaxFaults \in Nat
  BY ExportAssumption DEF ExportIInv, ExportTypeOK, ExportAssumption
<1>2. faults' \in 0..MaxFaults /\ faults' >= faults /\ UNCHANGED exportEnv
  BY <1>1 DEF Calm, PublishArtifact, CommitExport, UndoArtifact, CatchExport, BuryExport
<1>3. percent' \in 0..100
  BY <1>1 DEF PublishArtifact, CommitExport, UndoArtifact, CatchExport, BuryExport, StoreQuiet, rowVars,
              SealRow, FailExport
<1>4. ASSUME NEW to, Shape(e, to), Moves(e, to), ExportQueueStep(e), run[e].at # "none"
      PROVE  InvocationStep(e)
  BY <1>1, <1>2, <1>3, <1>4, InvocationFrom
<1>5. CASE PublishArtifact(e)
  <2>1. run[e].at = "publish" /\ UNCHANGED <<task, result, files>>
    BY <1>5 DEF PublishArtifact, At, rowVars
  <2>2. CASE Raise(e, "package") /\ artifacts' = artifacts
    <3>1. Shape(e, "catch") /\ UNCHANGED lifeVars
      BY <1>1, <2>2, ShapeFacts
    <3>2. Moves(e, "catch")
      BY <2>1, <2>2 DEF Moves, Goes, Past
    <3>. QED BY <1>4, <2>1, <3>1, <3>2 DEF ExportQueueStep
  <2>3. CASE Continue(e, "commit") /\ artifacts' = artifacts \cup {Object(e)}
    <3>1. Shape(e, "commit") /\ UNCHANGED lifeVars
      BY <1>1, <2>3, ShapeFacts
    <3>2. Moves(e, "commit")
      BY <2>1, <2>3 DEF Moves, Publishes
    <3>. QED BY <1>4, <2>1, <3>1, <3>2 DEF ExportQueueStep
  <2>. QED BY <1>5, <2>2, <2>3 DEF PublishArtifact
<1>6. CASE CommitExport(e)
  <2>1. run[e].at = "commit" /\ artifacts' = artifacts
    BY <1>6 DEF CommitExport, At
  <2>2. CASE task = "running"
    <3>1. Shape(e, "ended") /\ Report(e, "succeeded")
      BY <1>1, <1>6, <2>2, ShapeFacts DEF CommitExport
    <3>2. /\ task' = "succeeded" /\ result' = Object(e) /\ files' = files \cup {Object(e)}
      BY <1>6, <2>2 DEF CommitExport, SealRow
    <3>3. Moves(e, "ended")
      BY <2>1, <2>2, <3>2 DEF Moves, Seals, Past
    <3>4. ExportQueueStep(e)
      BY <3>1, <3>2 DEF ExportQueueStep
    <3>. QED BY <1>4, <2>1, <3>1, <3>3, <3>4
  <2>3. CASE task # "running"
    <3>1. Shape(e, "undo") /\ UNCHANGED lifeVars
      BY <1>1, <1>6, <2>3, ShapeFacts DEF CommitExport
    <3>2. UNCHANGED <<task, result, files>>
      BY <1>6, <2>3 DEF CommitExport, SealRow, rowVars
    <3>3. Moves(e, "undo")
      BY <2>1, <3>2 DEF Moves, Goes, Past
    <3>. QED BY <1>4, <2>1, <3>1, <3>3 DEF ExportQueueStep
  <2>. QED BY <2>2, <2>3
<1>7. CASE UndoArtifact(e)
  <2>1. /\ run[e].at = "undo" /\ artifacts' = artifacts \ {Object(e)}
        /\ UNCHANGED <<task, result, files>> /\ Raise(e, "temporary")
    BY <1>7 DEF UndoArtifact, At, rowVars
  <2>2. Shape(e, "catch") /\ UNCHANGED lifeVars
    BY <1>1, <2>1, ShapeFacts
  <2>3. Moves(e, "catch")
    BY <2>1 DEF Moves, Undoes
  <2>. QED BY <1>4, <2>1, <2>2, <2>3 DEF ExportQueueStep
<1>8. CASE CatchExport(e)
  <2>1. run[e].at = "catch" /\ UNCHANGED <<task, result, files, artifacts>>
    BY <1>8 DEF CatchExport, At, StoreQuiet, rowVars
  <2>2. \A to \in {"bury", "last", "ended"} : Moves(e, to)
    BY <2>1 DEF Moves, Goes, Past
  <2>3. CASE Done(e, "retryable")
    BY <1>1, <1>4, <2>1, <2>2, <2>3, ShapeFacts DEF ExportQueueStep
  <2>4. CASE Continue(e, "bury") \/ Continue(e, "last")
    BY <1>1, <1>4, <2>1, <2>2, <2>4, ShapeFacts DEF ExportQueueStep
  <2>. QED BY <1>8, <2>3, <2>4 DEF CatchExport
<1>9. CASE BuryExport(e)
  <2>1. /\ run[e].at = "bury" /\ UNCHANGED <<result, files, artifacts>>
        /\ task' = IF task = "running" THEN "failed" ELSE task
    BY <1>9 DEF BuryExport, At, FailExport
  <2>2. Moves(e, "ended")
    BY <2>1 DEF Moves, Goes, Past
  <2>3. ASSUME NEW outcome \in {"succeeded", "permanent", "retryable"}, Done(e, outcome),
               outcome = "succeeded" => task' = "succeeded"
        PROVE  InvocationStep(e)
    BY <1>1, <1>4, <2>1, <2>2, <2>3, ShapeFacts DEF ExportQueueStep
  <2>. QED BY <1>9, <2>1, <2>3 DEF BuryExport
<1>. QED BY <1>5, <1>6, <1>7, <1>8, <1>9

(* A call that throws has the effect of the call, or none.                 *)
LEMMA ThrowsAreSteps == ASSUME ExportIInv, NEW e \in Runs, ExportErrs(e) PROVE InvocationStep(e)
<1>1. /\ run \in [Runs -> ExportRun] /\ run[e] \in ExportRun /\ NextFact(run[e]) /\ percent \in 0..100
      /\ faults \in 0..MaxFaults /\ MaxFaults \in Nat
  BY ExportAssumption DEF ExportIInv, ExportTypeOK, ExportAssumption
<1>2. faults' \in 0..MaxFaults /\ faults' >= faults /\ UNCHANGED exportEnv /\ faults' > 0
  BY <1>1 DEF ExportErrs
<1>3. ASSUME NEW to, Shape(e, to), Moves(e, to), ExportQueueStep(e), run[e].at # "none",
             percent' \in 0..100
      PROVE  InvocationStep(e)
  BY <1>1, <1>2, <1>3, InvocationFrom
<1>4. CASE CallThrows(e)
  <2>1. artifacts' = artifacts
    BY <1>4 DEF CallThrows
  <2>2. /\ run[e].at \in {"start", "precheck", "announce", "read", "convert", "told", "writing",
                          "publish", "last", "bury"}
        /\ \/ Raise(e, "temporary") /\ run[e].at \notin {"last", "bury"}
           \/ Done(e, "retryable")
    BY <1>4 DEF CallThrows, At
  <2>3. /\ percent' \in 0..100 /\ UNCHANGED <<result, files>>
        /\ \/ task' = task
           \/ task = "queued" /\ task' = "running"
           \/ task = "running" /\ task' = "failed"
    <3>1. CASE UNCHANGED rowVars
      BY <1>1, <3>1 DEF rowVars
    <3>2. CASE BeginRow \/ FailExport
      BY <1>1, <3>2 DEF BeginRow, FailExport
    <3>3. ASSUME NEW new \in 0..100, MoveTo(new)
          PROVE  percent' \in 0..100 /\ UNCHANGED <<task, result, files>>
      BY <1>1, <3>3, ProgressMoved
    <3>4. ReadPercent(e) \in 0..100 \/ ~At(e, "read")
      BY <1>1, SharesBounded DEF NextFact, At
    <3>5. ConvPercent(e) \in 0..100 \/ ~At(e, "convert")
      BY <1>1, SharesBounded DEF NextFact, At
    <3>6. 85 \in 0..100
      OBVIOUS
    <3>7. UNCHANGED rowVars \/ BeginRow \/ FailExport \/ \E new \in 0..100 : MoveTo(new)
      BY <1>4, <3>4, <3>5, <3>6 DEF CallThrows, Effect
    <3>. QED BY <3>1, <3>2, <3>3, <3>7
  <2>4. Moves(e, "catch") \/ run[e].at \in {"last", "bury"}
    BY <1>2, <2>1, <2>2, <2>3 DEF Moves, Goes, Past
  <2>5. Moves(e, "ended")
    BY <1>2, <2>1, <2>2, <2>3 DEF Moves, Goes, Past
  <2>6. CASE Raise(e, "temporary") /\ run[e].at \notin {"last", "bury"}
    <3>1. Shape(e, "catch") /\ UNCHANGED lifeVars
      BY <1>1, <2>6, ShapeFacts
    <3>. QED BY <1>3, <2>2, <2>3, <2>4, <2>6, <3>1 DEF ExportQueueStep
  <2>7. CASE Done(e, "retryable")
    <3>1. Shape(e, "ended") /\ Report(e, "retryable")
      BY <1>1, <2>7, ShapeFacts
    <3>2. ExportQueueStep(e)
      BY <3>1 DEF ExportQueueStep
    <3>. QED BY <1>3, <2>2, <2>3, <2>5, <3>1, <3>2
  <2>. QED BY <2>2, <2>6, <2>7
<1>5. CASE CommitThrows(e)
  <2>1. run[e].at = "commit" /\ artifacts' = artifacts
    BY <1>5 DEF CommitThrows, At
  <2>2. CASE UNCHANGED rowVars /\ (Continue(e, "undo") \/ Raise(e, "temporary"))
    <3>1. percent' \in 0..100 /\ UNCHANGED <<task, result, files>>
      BY <1>1, <2>2 DEF rowVars
    <3>2. Moves(e, "undo") /\ Moves(e, "catch")
      BY <1>2, <2>1, <3>1 DEF Moves, Goes, Past
    <3>3. UNCHANGED lifeVars /\ (Shape(e, "undo") \/ Shape(e, "catch"))
      BY <1>1, <2>2, ShapeFacts
    <3>. QED BY <1>3, <2>1, <3>1, <3>2, <3>3 DEF ExportQueueStep
  <2>3. CASE task = "running" /\ SealRow(e) /\ (Raise(e, "temporary") \/ Done(e, "succeeded"))
    <3>1. /\ task' = "succeeded" /\ result' = Object(e) /\ files' = files \cup {Object(e)}
          /\ percent' \in 0..100
      BY <2>3 DEF SealRow
    <3>2. Moves(e, "catch") /\ Moves(e, "ended")
      BY <2>1, <2>3, <3>1 DEF Moves, Seals, Past
    <3>3. CASE Raise(e, "temporary")
      BY <1>1, <1>3, <2>1, <3>1, <3>2, <3>3, ShapeFacts DEF ExportQueueStep
    <3>4. CASE Done(e, "succeeded")
      <4>1. Shape(e, "ended") /\ Report(e, "succeeded")
        BY <1>1, <3>4, ShapeFacts
      <4>2. ExportQueueStep(e)
        BY <3>1, <4>1 DEF ExportQueueStep
      <4>. QED BY <1>3, <2>1, <3>1, <3>2, <4>1, <4>2
    <3>. QED BY <2>3, <3>3, <3>4
  <2>. QED BY <1>5, <2>2, <2>3 DEF CommitThrows
<1>6. CASE DeleteThrows(e)
  <2>1. /\ run[e].at = "undo" /\ UNCHANGED <<task, result, files, artifacts>> /\ percent' \in 0..100
        /\ Raise(e, "temporary")
    BY <1>1, <1>6 DEF DeleteThrows, At, rowVars
  <2>2. Moves(e, "catch")
    BY <1>2, <2>1 DEF Moves, Goes, Past
  <2>3. Shape(e, "catch") /\ UNCHANGED lifeVars
    BY <1>1, <2>1, ShapeFacts
  <2>. QED BY <1>3, <2>1, <2>2, <2>3 DEF ExportQueueStep
<1>. QED BY <1>4, <1>5, <1>6 DEF ExportErrs

-----------------------------------------------------------------------------
(* The other steps leave the row alone, or write it before the queue knows *)
(* of the task.                                                            *)
OtherExport ==
    \/ CreateExport \/ EnqueueExport \/ ReclaimExport \/ ExportLapses \/ LeaseExport
    \/ \E e \in Runs : ExportTimeout(e) \/ ExportLeaseGone(e)
    \/ RevokeExport \/ UNCHANGED exportVars

LEMMA AbortedRuns ==
    ASSUME run \in [Runs -> ExportRun], \A e \in Runs : NextFact(run[e]), NEW d \in Runs,
           run' = [run EXCEPT ![d].aborted = TRUE]
    PROVE  /\ run' \in [Runs -> ExportRun]
           /\ \A e \in Runs : NextFact(run'[e])
           /\ \A e \in Runs : run'[e].at = run[e].at
<1>. DEFINE new == [run[d] EXCEPT !.aborted = TRUE]
<1>1. run' = [run EXCEPT ![d] = new]
  OBVIOUS
<1>2. new \in ExportRun /\ new.at = run[d].at /\ NextFact(new)
  BY DEF ExportRun, NextFact
<1>. HIDE DEF new
<1>. QED BY <1>1, <1>2

LEMMA OtherKeeps == ASSUME ExportIInv, OtherExport PROVE ExportIInv'
<1>1. /\ LifeTypeOK /\ run \in [Runs -> ExportRun] /\ restarts \in 0..MaxRestarts
      /\ task \in {"absent", "queued", "running", "succeeded", "failed"}
      /\ result \in Objects /\ artifacts \subseteq Objects /\ files \subseteq Objects
      /\ allowed \in BOOLEAN /\ convertible \in BOOLEAN /\ faults \in 0..MaxFaults
      /\ SealFacts /\ ObjectFacts /\ percent \in 0..100 /\ \A d \in Runs : NextFact(run[d])
      /\ phase[Task] = "succeeded" => task = "succeeded"
  BY DEF ExportIInv, ExportTypeOK
<1>2. /\ UNCHANGED <<percent, result, files, artifacts, restarts, faults, convertible>>
      /\ allowed' \in BOOLEAN
      /\ task' = task \/ (task = "absent" /\ task' = "queued")
  <2>1. CASE CreateExport \/ RevokeExport \/ UNCHANGED exportVars
    <3>1. UNCHANGED <<percent, result, files, artifacts, restarts, faults, convertible>>
      BY <2>1 DEF CreateExport, RevokeExport, exportVars, rowVars, exportEnv
    <3>2. allowed' \in BOOLEAN
      BY <1>1, <2>1 DEF CreateExport, RevokeExport, exportVars, exportEnv
    <3>3. task' = task \/ (task = "absent" /\ task' = "queued")
      BY <2>1 DEF CreateExport, RevokeExport, exportVars, rowVars
    <3>. QED BY <3>1, <3>2, <3>3
  <2>2. CASE EnqueueExport \/ ReclaimExport \/ ExportLapses \/ LeaseExport
             \/ \E e \in Runs : ExportTimeout(e) \/ ExportLeaseGone(e)
    <3>1. UNCHANGED <<rowVars, artifacts, exportEnv, faults>>
      BY <2>2 DEF EnqueueExport, ReclaimExport, ExportLapses, LeaseExport, ExportTimeout, ExportLeaseGone,
                  StoreQuiet, Calm
    <3>2. UNCHANGED <<task, percent, result, files, artifacts, restarts, faults, convertible, allowed>>
      BY <3>1 DEF rowVars, exportEnv
    <3>. QED BY <1>1, <3>2
  <2>. QED BY <2>1, <2>2 DEF OtherExport
<1>3. /\ LifeTypeOK' /\ (phase'[Task] = "succeeded" => phase[Task] = "succeeded")
      /\ issued' = issued \/ (LeaseExport /\ issued' = issued + 1)
  <2>1. ASSUME NEW e \in Runs, Report(e, "retryable")
        PROVE  LifeTypeOK' /\ issued' = issued /\ (phase'[Task] = "succeeded" => phase[Task] = "succeeded")
    BY <1>1, <2>1, ExportReport
  <2>2. CASE LeaseExport
    BY <1>1, <2>2, ExportQueue DEF LeaseExport, LeaseTo
  <2>3. CASE ~LeaseExport
    <3>1. \/ \E e \in Runs : Report(e, "retryable")
          \/ Submit(Task) \/ Reclaim({Task}) \/ Lapse({Task}) \/ UNCHANGED lifeVars
      BY <2>3 DEF OtherExport, CreateExport, EnqueueExport, ReclaimExport, TakeBackTask, ExportLapses, TaskLapses,
                  ExportTimeout, RunTimesOut, ExportLeaseGone, RunLosesLease, RevokeExport, exportVars, lifeVars
    <3>2. CASE Submit(Task) \/ Reclaim({Task}) \/ Lapse({Task}) \/ UNCHANGED lifeVars
      <4>1. issued' = issued
        BY <3>2 DEF Submit, Reclaim, Lapse, lifeVars
      <4>. QED BY <1>1, <3>2, <4>1, ExportQueue
    <3>. QED BY <2>1, <3>1, <3>2
  <2>. QED BY <2>2, <2>3
<1>4. issued \in Nat /\ Runs \subseteq Nat
  BY <1>1, MaxAttemptsAssumption DEF LifeTypeOK, Runs, MaxAttemptsAssumption
<1>5. /\ run' \in [Runs -> ExportRun]
      /\ \A e \in Runs : NextFact(run'[e])
      /\ \A e \in Runs :
            \/ run'[e].at = run[e].at
            \/ /\ run[e].at = "none" /\ run'[e].at = "start"
               /\ e = issued + 1 /\ issued' = issued + 1
  <2>1. CASE LeaseExport
    <3>. DEFINE new == [NoExport EXCEPT !.at = "start"]
    <3>1. run' = [run EXCEPT ![issued + 1] = new]
      BY <2>1 DEF LeaseExport, LeaseTo
    <3>2. new \in ExportRun /\ new.at = "start" /\ NextFact(new)
      <4>1. NoExport \in ExportRun /\ 1 <= Problems /\ NoExport.next = 1
        BY ExportAssumption DEF NoExport, ExportRun, ExportAssumption
      <4>. QED BY <4>1 DEF ExportRun, NextFact
    <3>. HIDE DEF new
    <3>3. issued' = issued + 1
      BY <2>1 DEF LeaseExport, LeaseTo, Grant
    <3>4. \A e \in Runs : e = issued + 1 => run[e].at = "none"
      BY <1>1, <1>4 DEF ObjectFacts
    <3>. QED BY <1>1, <3>1, <3>2, <3>3, <3>4
  <2>2. ASSUME NEW d \in Runs, ExportTimeout(d) \/ ExportLeaseGone(d)
        PROVE  /\ run' \in [Runs -> ExportRun]
               /\ \A e \in Runs : NextFact(run'[e])
               /\ \A e \in Runs : run'[e].at = run[e].at
    BY <1>1, <2>2, AbortedRuns DEF ExportTimeout, RunTimesOut, ExportLeaseGone, RunLosesLease
  <2>3. CASE UNCHANGED run
    BY <1>1, <2>3
  <2>4. CASE CreateExport \/ EnqueueExport \/ ReclaimExport \/ ExportLapses \/ RevokeExport
             \/ UNCHANGED exportVars
    <3>1. run' = run
      BY <2>4 DEF CreateExport, EnqueueExport, ReclaimExport, TakeBackTask, ExportLapses, TaskLapses,
                  RevokeExport, exportVars
    <3>. QED BY <2>3, <3>1
  <2>. QED BY <2>1, <2>2, <2>4 DEF OtherExport
<1>6. ExportTypeOK'
  BY <1>1, <1>2, <1>3, <1>5 DEF ExportTypeOK
<1>7. SealFacts'
  <2>1. task = "succeeded" => result[2] \in Runs
    BY <1>1 DEF SealFacts
  <2>2. \A e \in Runs : run[e].at \in Past => run'[e].at \in Past
    BY <1>5 DEF Past
  <2>. QED BY <1>1, <1>2, <2>1, <2>2 DEF SealFacts
<1>8. ObjectFacts'
  <2>1. \A e \in Runs : run'[e].at # "none" => e <= issued'
    <3>1. issued' = issued \/ issued' = issued + 1
      BY <1>3
    <3>2. \A e \in Runs : run[e].at # "none" => e <= issued
      BY <1>1 DEF ObjectFacts
    <3>. QED BY <1>4, <1>5, <3>1, <3>2
  <2>2. \A e \in Runs : run'[e].at = "commit" => run[e].at = "commit"
    BY <1>5
  <2>3. \A e \in Runs : run[e].at \in {"commit", "undo"} => run'[e].at = run[e].at
    BY <1>5
  <2>. QED BY <1>1, <1>2, <2>1, <2>2, <2>3 DEF ObjectFacts, Object
<1>. QED BY <1>1, <1>2, <1>3, <1>5, <1>6, <1>7, <1>8 DEF ExportIInv

(* After a restart every object belongs to an earlier process.             *)
LEMMA RestartKeeps == ASSUME ExportIInv, RestartExport PROVE ExportIInv'
<1>1. /\ restarts \in 0..MaxRestarts /\ MaxRestarts \in Nat
      /\ task \in {"absent", "queued", "running", "succeeded", "failed"}
      /\ result \in Objects /\ artifacts \subseteq Objects /\ files \subseteq Objects /\ percent \in 0..100
      /\ allowed \in BOOLEAN /\ convertible \in BOOLEAN /\ faults \in 0..MaxFaults
      /\ SealFacts /\ ObjectFacts
  BY ExportAssumption DEF ExportIInv, ExportTypeOK, ExportAssumption
<1>2. /\ UNCHANGED <<task, percent, result, files, artifacts, allowed, convertible, faults>>
      /\ restarts' = restarts + 1 /\ restarts' \in 0..MaxRestarts
  BY <1>1 DEF RestartExport, rowVars
<1>3. LifeTypeOK' /\ phase'[Task] = "absent"
  BY TaskAssumption, MaxAttemptsAssumption
     DEF RestartExport, ProcessRestarts, LifeTypeOK, Phases, Final, TaskAssumption, MaxAttemptsAssumption
<1>4. /\ run' \in [Runs -> ExportRun]
      /\ \A e \in Runs : run'[e].at = "none" /\ NextFact(run'[e])
  <2>1. NoExport \in ExportRun /\ NoExport.at = "none" /\ NextFact(NoExport)
    BY ExportAssumption DEF NoExport, ExportRun, ExportAssumption, NextFact
  <2>2. run' = [e \in Runs |-> NoExport]
    BY DEF RestartExport, ProcessRestarts
  <2>. QED BY <2>1, <2>2
<1>5. SealFacts'
  <2>1. task = "succeeded" => result[1] \in 0..restarts /\ result \in (0..restarts + 1) \X Runs
    BY <1>1 DEF SealFacts
  <2>2. task = "succeeded" => result[1] # restarts + 1
    BY <1>1, <2>1
  <2>. QED BY <1>1, <1>2, <2>1, <2>2 DEF SealFacts
<1>6. ObjectFacts'
  BY <1>1, <1>2, <1>4 DEF ObjectFacts
<1>. QED BY <1>1, <1>2, <1>3, <1>4, <1>5, <1>6 DEF ExportIInv, ExportTypeOK

LEMMA ExportStarts == ASSUME ExportInit PROVE ExportIInv
<1>1. /\ LifeTypeOK /\ phase[Task] = "absent"
  BY TaskAssumption, MaxAttemptsAssumption
     DEF ExportInit, LifeInit, LifeTypeOK, Phases, Final, TaskAssumption, MaxAttemptsAssumption
<1>2. NoExport \in ExportRun /\ NextFact(NoExport) /\ NoExport.at = "none"
  BY ExportAssumption DEF NoExport, ExportRun, ExportAssumption, NextFact
<1>3. /\ run \in [Runs -> ExportRun]
      /\ \A e \in Runs : run[e].at = "none" /\ NextFact(run[e])
  BY <1>2 DEF ExportInit
<1>4. ExportTypeOK
  BY <1>1, <1>3, ExportAssumption DEF ExportInit, ExportTypeOK, ExportAssumption, Objects
<1>5. SealFacts /\ ObjectFacts
  BY <1>3 DEF ExportInit, SealFacts, ObjectFacts
<1>. QED BY <1>1, <1>3, <1>4, <1>5 DEF ExportIInv, ExportInit

LEMMA ExportStep == ASSUME ExportIInv, [ExportNext]_exportVars PROVE ExportIInv'
<1>1. ASSUME NEW e \in Runs, ExportHandler(e) \/ ExportErrs(e) PROVE ExportIInv'
  <2>1. InvocationStep(e)
    BY <1>1, HandlerStarts, HandlerReads, HandlerEnds, ThrowsAreSteps DEF ExportHandler
  <2>. QED BY <2>1, InvocationKeeps
<1>2. CASE RestartExport
  BY <1>2, RestartKeeps
<1>3. CASE OtherExport
  BY <1>3, OtherKeeps
<1>. QED BY <1>1, <1>2, <1>3 DEF ExportNext, OtherExport

(* An export that is reported as succeeded can be downloaded, and without  *)
(* a fault or a restart no object is left that no row names.               *)
THEOREM ExportsAreSafe == ExportSpec => []ExportInv
<1>1. ExportInit => ExportIInv
  BY ExportStarts
<1>2. ExportIInv /\ [ExportNext]_exportVars => ExportIInv'
  BY ExportStep
<1>3. ExportIInv => ExportInv
  <2>1. ASSUME ExportIInv PROVE ResultIsReadable
    BY <2>1 DEF ExportIInv, SealFacts, ResultIsReadable
  <2>2. ASSUME ExportIInv PROVE NoStrayArtifacts
    BY <2>2 DEF ExportIInv, ObjectFacts, NoStrayArtifacts, Active
  <2>. QED BY <2>1, <2>2 DEF ExportInv, ExportIInv
<1>. QED BY <1>1, <1>2, <1>3, PTL DEF ExportSpec

-----------------------------------------------------------------------------
(***************************************************************************)
(* SiteBackup, for every number of requests, operations and failures.  A   *)
(* restoration replaces the database by the contents of an older file; what *)
(* requests wrote since is in the safety snapshot, because the site stands *)
(* still from the moment the requests are drained until the database is    *)
(* replaced (PauseFacts), and the snapshot carries its rows (CarryFacts).  *)
(***************************************************************************)
Contents   == [rows : SUBSET Requests, pending : BOOLEAN]
Steps      == {"none", "begin", "download", "enter", "drain", "stop", "check", "snapshot", "put",
               "move", "note", "apply", "leave", "dispose", "finish"}
Statuses   == {"none", "running", "succeeded", "failed"}
JobType    == [id : Nat, operation : {"backup", "restore"}, status : Statuses]
RemoteFile == [id : Nat, purpose : {"backup", "restore"}, contents : Contents, moved : BOOLEAN]
OpType     == [step : Steps, purpose : {"backup", "restore"}, carries : Contents,
               source : Contents, staged : BOOLEAN, ok : BOOLEAN]

BackupTypes ==
    /\ committed \subseteq Requests /\ operations \in 0..MaxOperations
    /\ restored \subseteq 1..operations /\ (busy <=> op.step # "none")
    /\ up \in BOOLEAN /\ maintenance \in BOOLEAN /\ working \in BOOLEAN /\ busy \in BOOLEAN
    /\ db \in Contents /\ remote \subseteq RemoteFile /\ op \in OpType
    /\ job \in JobType /\ disk \in JobType
    /\ browser \in [Requests -> {"out", "in", "held back", "answered"}]

(* The pause of the site, by the step of the operation.                    *)
Restoring == op.purpose = "restore"
Working   == op.step \in {"check", "snapshot", "put", "move"}
Paused    == op.step \in {"drain", "stop", "note", "apply", "leave"} \/ (Working /\ Restoring)
Still     == op.step \in {"stop", "note", "apply"} \/ (Working /\ Restoring)

PauseFacts ==
    /\ maintenance <=> Paused
    /\ up /\ ~working => op.step \in {"note", "apply", "leave"} \/ (Working /\ Restoring)
    /\ ~up => op.step = "none"
    /\ Still => ~InFlight
    /\ op.step \in {"download", "enter", "drain", "stop", "note", "apply"} => Restoring

(* What the operation carries, and what a success will stand for.          *)
CarryFacts ==
    /\ ~op.carries.pending /\ ~op.source.pending
    /\ op.step \in {"put", "move", "note", "apply"} /\ Restoring => op.carries.rows = db.rows
    /\ op.step \in {"note", "apply"} => \E f \in Complete : f.contents = op.carries

OutcomeFacts ==
    /\ op.step # "none" =>
          job.status = "running" /\ job.operation = op.purpose /\ job.id \in 1..operations
    /\ op.step \in {"leave", "dispose"} /\ op.ok => Restoring
    /\ op.step \in {"leave", "dispose", "finish"} /\ op.ok =>
          IF Restoring THEN job.id \in restored
          ELSE \E f \in Complete : f.id = job.id /\ f.purpose = "backup"

Clean == \A f \in Complete : ~f.contents.pending

BackupIInv ==
    /\ BackupTypes /\ PauseFacts /\ CarryFacts /\ OutcomeFacts
    /\ NothingLost /\ RecordIsTrue /\ Clean

-----------------------------------------------------------------------------
(* How a step leaves the operation.                                        *)
Kept == op'.purpose = op.purpose /\ op'.carries = op.carries /\ op'.source = op.source

LEMMA GoOnFields ==
    ASSUME op \in OpType, NEW to \in Steps, GoOn(to)
    PROVE  op' \in OpType /\ op'.step = to /\ op'.ok = op.ok /\ Kept
BY DEF OpType, GoOn, Kept

FailedTo == IF maintenance THEN "leave" ELSE IF op.staged THEN "dispose" ELSE "finish"

LEMMA FailsFields ==
    ASSUME op \in OpType, Fails
    PROVE  op' \in OpType /\ op'.step = FailedTo /\ op'.ok = FALSE /\ Kept
<1>1. FailedTo \in Steps
  BY DEF FailedTo, Steps
<1>2. op' = [op EXCEPT !.ok = FALSE, !.step = FailedTo]
  BY DEF Fails, FailedTo
<1>. HIDE DEF FailedTo
<1>. QED BY <1>1, <1>2 DEF OpType, Kept

LEMMA RestedFields == NoOperation \in OpType /\ NoJob \in JobType
BY DEF OpType, NoOperation, NoContents, Contents, Steps, NoJob, JobType, Statuses

(* What every step keeps: a complete file stays, and whatever is restored. *)
LEMMA FilesStay ==
    ASSUME BackupTypes, SiteBackupNext
    PROVE  /\ remote' \subseteq RemoteFile
           /\ Complete \subseteq Complete'
           /\ Complete' \subseteq Complete \cup {File(TRUE)}
           /\ Complete' # Complete => OpAt("move")
<1>1. remote \subseteq RemoteFile /\ op \in OpType /\ job \in JobType
  BY DEF BackupTypes
<1>2. /\ File(TRUE) \in RemoteFile /\ File(FALSE) \in RemoteFile
      /\ File(TRUE).moved = TRUE /\ File(FALSE).moved = FALSE
  BY <1>1 DEF File, RemoteFile, OpType, JobType
<1>3. CASE remote' = remote
  BY <1>1, <1>3 DEF Complete
<1>4. CASE Put
  <2>1. remote' \in {remote, remote \cup {File(FALSE)}}
    BY <1>4 DEF Put
  <2>. QED BY <1>1, <1>2, <2>1 DEF Complete
<1>5. CASE MoveIntoPlace
  <2>1. remote' \in {remote, (remote \ {File(FALSE)}) \cup {File(TRUE)}} /\ OpAt("move")
    BY <1>5 DEF MoveIntoPlace
  <2>. QED BY <1>1, <1>2, <2>1 DEF Complete
<1>6. remote' = remote \/ Put \/ MoveIntoPlace
  BY DEF SiteBackupNext, Arrives, Writes, WorkerFinishes, Begin, OperationStep, Configure, Crash, Restart,
         PersistBegin, Prepare, EnterMaintenance, DrainRequests, StopWorker, CheckPending, Snapshot,
         NoteSafety, Apply, LeaveMaintenance, Dispose, Finish, site, record
<1>. QED BY <1>3, <1>4, <1>5, <1>6

LEMMA OperationTypes ==
    ASSUME BackupTypes, OutcomeFacts, OperationStep
    PROVE  BackupTypes'
<1>1. /\ committed \subseteq Requests /\ operations \in 0..MaxOperations
      /\ restored \subseteq 1..operations /\ (busy <=> op.step # "none")
      /\ up \in BOOLEAN /\ maintenance \in BOOLEAN /\ working \in BOOLEAN /\ busy \in BOOLEAN
      /\ db \in Contents /\ op \in OpType /\ job \in JobType /\ disk \in JobType
      /\ op.step # "none" => job.id \in 1..operations
      /\ browser \in [Requests -> {"out", "in", "held back", "answered"}]
  BY DEF BackupTypes, OutcomeFacts
<1>2. remote' \subseteq RemoteFile
  BY FilesStay DEF SiteBackupNext
<1>3. op.step # "none" /\ busy = TRUE /\ UNCHANGED <<up, committed, operations, browser>>
  BY <1>1 DEF OperationStep, OpAt, PersistBegin, Prepare, EnterMaintenance, DrainRequests, StopWorker,
              CheckPending, Snapshot, Put, MoveIntoPlace, NoteSafety, Apply, LeaveMaintenance, Dispose,
              Finish, site, record
<1>4. op' \in OpType /\ (busy' <=> op'.step # "none") /\ busy' \in BOOLEAN
  <2>1. NoOperation \in OpType /\ NoOperation.step = "none"
    BY RestedFields DEF NoOperation
  <2>2. ASSUME NEW to \in Steps \ {"none"}, GoOn(to), busy' = busy
        PROVE  op' \in OpType /\ (busy' <=> op'.step # "none") /\ busy' \in BOOLEAN
    BY <1>1, <1>3, <2>2, GoOnFields
  <2>3. ASSUME Fails, busy' = busy
        PROVE  op' \in OpType /\ (busy' <=> op'.step # "none") /\ busy' \in BOOLEAN
    BY <1>1, <1>3, <2>3, FailsFields DEF FailedTo
  <2>4. CASE op' = NoOperation /\ busy' = FALSE
    BY <2>1, <2>4
  <2>5. ASSUME NEW to \in {"dispose", "finish", "enter", "put"}, NEW carried \in Contents,
               NEW ok \in BOOLEAN, NEW prepared \in BOOLEAN, busy' = busy,
               op' = [op EXCEPT !.ok = ok, !.staged = prepared, !.carries = carried, !.step = to]
        PROVE  op' \in OpType /\ (busy' <=> op'.step # "none") /\ busy' \in BOOLEAN
    BY <1>1, <1>3, <2>5 DEF OpType, Steps
  <2>6. op.ok \in BOOLEAN /\ op.staged \in BOOLEAN /\ op.carries \in Contents
        /\ op = [op EXCEPT !.ok = op.ok, !.staged = op.staged, !.carries = op.carries]
    BY <1>1 DEF OpType
  <2>7. CASE PersistBegin
    <3>1. op.purpose = "backup" \/ op.purpose # "backup"
      OBVIOUS
    <3>. QED BY <2>2, <2>4, <2>7, <3>1 DEF PersistBegin, Steps
  <2>8. CASE Prepare
    <3>1. op' = [op EXCEPT !.staged = TRUE, !.step = "enter"]
             => op' = [op EXCEPT !.ok = op.ok, !.staged = TRUE, !.carries = op.carries, !.step = "enter"]
      BY <1>1 DEF OpType
    <3>. QED BY <2>3, <2>5, <2>6, <2>8, <3>1 DEF Prepare, record
  <2>9. CASE EnterMaintenance
    BY <2>2, <2>3, <2>9 DEF EnterMaintenance, record, Steps
  <2>10. CASE DrainRequests \/ StopWorker
    <3>1. op' = [op EXCEPT !.ok = FALSE, !.step = "dispose"]
             => op' = [op EXCEPT !.ok = FALSE, !.staged = op.staged, !.carries = op.carries, !.step = "dispose"]
      BY <1>1 DEF OpType
    <3>2. \/ GoOn("stop") \/ GoOn("check") \/ op' = [op EXCEPT !.ok = FALSE, !.step = "dispose"]
      BY <2>10 DEF DrainRequests, StopWorker
    <3>3. busy' = busy
      BY <2>10 DEF DrainRequests, StopWorker, record
    <3>. QED BY <2>2, <2>5, <2>6, <3>1, <3>2, <3>3 DEF Steps
  <2>11. CASE CheckPending \/ Put \/ MoveIntoPlace \/ NoteSafety \/ Apply \/ LeaveMaintenance
    <3>1. Fails \/ \E to \in Steps \ {"none"} : GoOn(to)
      BY <2>11 DEF CheckPending, Put, MoveIntoPlace, AfterUpload, NoteSafety, Apply, LeaveMaintenance, Steps
    <3>2. busy' = busy
      BY <2>11 DEF CheckPending, Put, MoveIntoPlace, NoteSafety, Apply, LeaveMaintenance, record
    <3>. QED BY <2>2, <2>3, <3>1, <3>2
  <2>12. CASE Snapshot
    <3>1. op' = [op EXCEPT !.carries = db, !.step = "put"]
             => op' = [op EXCEPT !.ok = op.ok, !.staged = op.staged, !.carries = db, !.step = "put"]
      BY <1>1 DEF OpType
    <3>. QED BY <1>1, <2>3, <2>5, <2>6, <2>12, <3>1 DEF Snapshot, record
  <2>13. CASE Dispose
    <3>1. op' = [op EXCEPT !.staged = FALSE, !.step = "finish"]
             => op' = [op EXCEPT !.ok = op.ok, !.staged = FALSE, !.carries = op.carries, !.step = "finish"]
      BY <1>1 DEF OpType
    <3>. QED BY <2>5, <2>6, <2>13, <3>1 DEF Dispose, record
  <2>14. CASE Finish
    BY <2>4, <2>14 DEF Finish
  <2>. QED BY <2>7, <2>8, <2>9, <2>10, <2>11, <2>12, <2>13, <2>14 DEF OperationStep
<1>5. maintenance' \in BOOLEAN /\ working' \in BOOLEAN /\ db' \in Contents
  <2>1. op.source \in Contents
    BY <1>1 DEF OpType
  <2>. QED BY <1>1, <2>1
         DEF OperationStep, PersistBegin, Prepare, EnterMaintenance, DrainRequests, StopWorker,
             CheckPending, Snapshot, Put, MoveIntoPlace, NoteSafety, Apply, LeaveMaintenance, Dispose,
             Finish, site
<1>6. restored' \subseteq 1..operations'
  <2>1. restored' = restored \/ restored' = restored \cup {job.id}
    BY DEF OperationStep, PersistBegin, Prepare, EnterMaintenance, DrainRequests, StopWorker,
           CheckPending, Snapshot, Put, MoveIntoPlace, NoteSafety, Apply, LeaveMaintenance, Dispose,
           Finish, site
  <2>. QED BY <1>1, <1>3, <2>1
<1>7. job' \in JobType /\ disk' \in JobType
  <2>1. CASE Finish
    <3>1. job' \in {[job EXCEPT !.status = "succeeded"], [job EXCEPT !.status = "failed"]}
      BY <2>1 DEF Finish
    <3>2. job \in JobType /\ disk \in JobType
      BY <1>1
    <3>3. job' \in JobType
      BY <3>1, <3>2 DEF JobType, Statuses
    <3>. QED BY <2>1, <3>2, <3>3 DEF Finish
  <2>2. CASE ~Finish
    BY <1>1, <2>2
       DEF OperationStep, PersistBegin, Prepare, EnterMaintenance, DrainRequests, StopWorker,
           CheckPending, Snapshot, Put, MoveIntoPlace, NoteSafety, Apply, LeaveMaintenance, Dispose, record
  <2>. QED BY <2>1, <2>2
<1>. QED BY <1>1, <1>2, <1>3, <1>4, <1>5, <1>6, <1>7 DEF BackupTypes

-----------------------------------------------------------------------------
(* What no step but one disturbs.                                          *)
LEMMA FramesKeep ==
    ASSUME BackupIInv, Complete \subseteq Complete'
    PROVE  /\ committed' = committed /\ db'.rows = db.rows => NothingLost'
           /\ (job' = job \/ job'.status # "succeeded") /\ (disk' \in {disk, job} \/ disk'.status # "succeeded")
                 /\ restored \subseteq restored' => RecordIsTrue'
           /\ Complete' = Complete => Clean'
<1>1. NothingLost /\ RecordIsTrue /\ Clean
  BY DEF BackupIInv
<1>2. ASSUME committed' = committed, db'.rows = db.rows PROVE NothingLost'
  BY <1>1, <1>2 DEF NothingLost
<1>3. ASSUME job' = job \/ job'.status # "succeeded", disk' \in {disk, job} \/ disk'.status # "succeeded",
             restored \subseteq restored'
      PROVE  RecordIsTrue'
  <2>1. ASSUME NEW j \in {job, disk}, j.status = "succeeded"
        PROVE  IF j.operation = "backup" THEN \E f \in Complete' : f.id = j.id /\ f.purpose = "backup"
                                         ELSE j.id \in restored'
    BY <1>1, <1>3, <2>1 DEF RecordIsTrue
  <2>. QED BY <1>3, <2>1 DEF RecordIsTrue
<1>4. ASSUME Complete' = Complete PROVE Clean'
  BY <1>1, <1>4 DEF Clean
<1>. QED BY <1>2, <1>3, <1>4

LEMMA OperationRecords ==
    ASSUME BackupIInv, OperationStep
    PROVE  NothingLost' /\ RecordIsTrue' /\ Clean'
<1>1. /\ op \in OpType /\ job \in JobType /\ disk \in JobType /\ PauseFacts /\ CarryFacts /\ OutcomeFacts
      /\ NothingLost /\ RecordIsTrue /\ Clean
  BY DEF BackupIInv, BackupTypes
<1>2. /\ Complete \subseteq Complete' /\ Complete' \subseteq Complete \cup {File(TRUE)}
      /\ Complete' # Complete => OpAt("move")
  BY FilesStay DEF BackupIInv, SiteBackupNext
<1>3. CASE Apply
  <2>1. /\ op.step = "apply" /\ committed' = committed /\ UNCHANGED <<job, disk>>
        /\ \/ db' = op.source /\ restored' = restored \cup {job.id}
           \/ UNCHANGED <<db, restored>>
    BY <1>3 DEF Apply, OpAt, record
  <2>2. \E f \in Complete : f.contents.rows = db.rows
    BY <1>1, <2>1 DEF CarryFacts, PauseFacts
  <2>3. committed \subseteq UNION {f.contents.rows : f \in Complete}
    BY <1>1, <2>2 DEF NothingLost
  <2>4. Complete' = Complete
    BY <1>2, <2>1 DEF OpAt
  <2>5. NothingLost'
    BY <2>1, <2>3, <2>4 DEF NothingLost
  <2>. QED BY <1>2, <2>1, <2>4, <2>5, FramesKeep
<1>4. CASE Finish
  <2>1. /\ op.step = "finish" /\ committed' = committed /\ db' = db /\ restored' = restored
        /\ \/ job' = [job EXCEPT !.status = IF op.ok THEN "succeeded" ELSE "failed"] /\ disk' = job'
           \/ job' = [job EXCEPT !.status = "failed"] /\ disk' = disk
    BY <1>4 DEF Finish, OpAt, site
  <2>2. job'.id = job.id /\ job'.operation = job.operation
        /\ (job'.status = "succeeded" => op.ok) /\ job' \in JobType
    BY <1>1, <2>1 DEF JobType, Statuses
  <2>3. Complete' = Complete
    BY <1>2, <2>1 DEF OpAt
  <2>4. job.operation = op.purpose
        /\ (op.ok => IF Restoring THEN job.id \in restored
                     ELSE \E f \in Complete : f.id = job.id /\ f.purpose = "backup")
    BY <1>1, <2>1 DEF OutcomeFacts
  <2>5. job'.status = "succeeded" =>
          IF job'.operation = "backup" THEN \E f \in Complete' : f.id = job'.id /\ f.purpose = "backup"
                                       ELSE job'.id \in restored'
    BY <1>1, <2>1, <2>2, <2>3, <2>4 DEF Restoring, OpType
  <2>6. RecordIsTrue'
    BY <1>1, <2>1, <2>3, <2>5 DEF RecordIsTrue
  <2>. QED BY <1>2, <2>1, <2>3, <2>6, FramesKeep
<1>5. CASE MoveIntoPlace
  <2>1. UNCHANGED <<committed, db, job, disk, restored>>
    BY <1>5 DEF MoveIntoPlace, site, record
  <2>2. ~File(TRUE).contents.pending
    BY <1>1 DEF CarryFacts, File
  <2>3. Clean'
    BY <1>1, <1>2, <2>2 DEF Clean
  <2>. QED BY <1>2, <2>1, <2>3, FramesKeep
<1>6. CASE ~Apply /\ ~Finish /\ ~MoveIntoPlace
  <2>1. UNCHANGED <<committed, db, job, restored>> /\ disk' \in {disk, job}
    BY <1>6 DEF OperationStep, PersistBegin, Prepare, EnterMaintenance, DrainRequests, StopWorker,
           CheckPending, Snapshot, Put, NoteSafety, LeaveMaintenance, Dispose, site, record
  <2>2. Complete' = Complete
    <3>1. remote' = remote \/ Put
      BY <1>6 DEF OperationStep, PersistBegin, Prepare, EnterMaintenance, DrainRequests, StopWorker,
             CheckPending, Snapshot, Put, NoteSafety, LeaveMaintenance, Dispose
    <3>. QED BY <1>2, <3>1 DEF Put, OpAt, Complete
  <2>. QED BY <1>2, <2>1, <2>2, FramesKeep
<1>. QED BY <1>3, <1>4, <1>5, <1>6

(* The remaining facts depend on the step only through what it leaves.     *)
StepFacts == PauseFacts /\ CarryFacts /\ OutcomeFacts

LEMMA OperationFacts ==
    ASSUME BackupIInv, OperationStep
    PROVE  StepFacts'
<1>. USE DEF StepFacts, PauseFacts, CarryFacts, OutcomeFacts, Restoring, Working, Paused, Still, InFlight, OpAt
<1>1. /\ op \in OpType /\ job \in JobType /\ disk \in JobType /\ StepFacts /\ BackupTypes
      /\ up = TRUE
      /\ op.purpose \in {"backup", "restore"} /\ db.pending \in BOOLEAN
  <2>1. /\ op \in OpType /\ job \in JobType /\ disk \in JobType /\ StepFacts /\ BackupTypes
        /\ db.pending \in BOOLEAN /\ up \in BOOLEAN
    BY DEF BackupIInv, BackupTypes, Contents
  <2>2. up
    BY DEF OperationStep, PersistBegin, Prepare, EnterMaintenance, DrainRequests, StopWorker, CheckPending,
           Snapshot, Put, MoveIntoPlace, NoteSafety, Apply, LeaveMaintenance, Dispose, Finish
  <2>. QED BY <2>1, <2>2 DEF OpType
<1>2. Complete \subseteq Complete' /\ (op.step # "move" => Complete' = Complete)
  BY FilesStay DEF BackupIInv, SiteBackupNext
<1>3. CASE PersistBegin
  <2>1. /\ op.step = "begin" /\ UNCHANGED <<up, db, browser, maintenance, working, restored, job, operations>>
    BY <1>3 DEF PersistBegin, site
  <2>2. CASE op' = NoOperation
    BY <1>1, <2>1, <2>2 DEF NoOperation, NoContents
  <2>3. CASE GoOn(IF op.purpose = "backup" THEN "check" ELSE "download")
    <3>1. op'.step = (IF op.purpose = "backup" THEN "check" ELSE "download") /\ op'.ok = op.ok /\ Kept
      BY <1>1, <2>3, GoOnFields DEF Steps
    <3>. QED BY <1>1, <2>1, <3>1 DEF Kept
  <2>. QED BY <1>3, <2>2, <2>3 DEF PersistBegin
<1>4. CASE Prepare
  <2>1. /\ op.step = "download" /\ UNCHANGED <<up, db, browser, maintenance, working, restored, job, operations>>
    BY <1>4 DEF Prepare, site, record
  <2>2. CASE op' = [op EXCEPT !.staged = TRUE, !.step = "enter"]
    <3>1. op'.step = "enter" /\ op'.ok = op.ok /\ Kept
      BY <1>1, <2>2 DEF OpType, Kept
    <3>. QED BY <1>1, <2>1, <3>1 DEF Kept
  <2>3. CASE Fails
    <3>1. op'.step \in {"dispose", "finish"} /\ op'.ok = FALSE /\ Kept
      BY <1>1, <2>1, <2>3, FailsFields DEF FailedTo
    <3>. QED BY <1>1, <2>1, <3>1 DEF Kept
  <2>. QED BY <1>4, <2>2, <2>3 DEF Prepare
<1>5. CASE EnterMaintenance
  <2>1. /\ op.step = "enter" /\ UNCHANGED <<up, db, browser, working, restored, job, operations>>
    BY <1>5 DEF EnterMaintenance, record
  <2>2. CASE Fails /\ UNCHANGED maintenance
    <3>1. op'.step \in {"dispose", "finish"} /\ op'.ok = FALSE /\ Kept
      BY <1>1, <2>1, <2>2, FailsFields DEF FailedTo
    <3>. QED BY <1>1, <2>1, <2>2, <3>1 DEF Kept
  <2>3. CASE maintenance' = TRUE /\ GoOn("drain")
    <3>1. op'.step = "drain" /\ op'.ok = op.ok /\ Kept
      BY <1>1, <2>3, GoOnFields DEF Steps
    <3>. QED BY <1>1, <2>1, <2>3, <3>1 DEF Kept
  <2>. QED BY <1>5, <2>2, <2>3 DEF EnterMaintenance
<1>6. CASE DrainRequests \/ StopWorker
  <2>1. /\ op.step \in {"drain", "stop"} /\ UNCHANGED <<up, db, browser, restored, job, operations>>
        /\ op.step = "drain" => working' = working
    BY <1>6 DEF DrainRequests, StopWorker, record
  <2>2. CASE op' = [op EXCEPT !.ok = FALSE, !.step = "dispose"] /\ maintenance' = FALSE /\ working' = working
    <3>1. op'.step = "dispose" /\ op'.ok = FALSE /\ Kept
      BY <1>1, <2>2 DEF OpType, Kept
    <3>. QED BY <1>1, <2>1, <2>2, <3>1 DEF Kept
  <2>3. CASE op.step = "drain" /\ Drained /\ GoOn("stop") /\ UNCHANGED maintenance
    <3>1. op'.step = "stop" /\ op'.ok = op.ok /\ Kept
      BY <1>1, <2>3, GoOnFields DEF Steps
    <3>. QED BY <1>1, <2>1, <2>3, <3>1 DEF Kept, Drained
  <2>4. CASE op.step = "stop" /\ working' = FALSE /\ GoOn("check") /\ UNCHANGED maintenance
    <3>1. op'.step = "check" /\ op'.ok = op.ok /\ Kept
      BY <1>1, <2>4, GoOnFields DEF Steps
    <3>. QED BY <1>1, <2>1, <2>4, <3>1 DEF Kept
  <2>. QED BY <1>6, <2>2, <2>3, <2>4 DEF DrainRequests, StopWorker
<1>7. CASE CheckPending \/ Snapshot \/ Put \/ MoveIntoPlace \/ NoteSafety
  <2>1. /\ op.step \in {"check", "snapshot", "put", "move", "note"}
        /\ UNCHANGED <<up, db, browser, maintenance, working, restored, job, operations>>
    BY <1>7 DEF CheckPending, Snapshot, Put, MoveIntoPlace, NoteSafety, site, record
  <2>2. CASE Fails
    <3>1. op'.step = FailedTo /\ op'.ok = FALSE /\ Kept
      BY <1>1, <2>2, FailsFields
    <3>. QED BY <1>1, <2>1, <2>2, <3>1 DEF Kept, FailedTo
  <2>3. CASE CheckPending /\ GoOn("snapshot")
    <3>1. op.step = "check" /\ op'.step = "snapshot" /\ op'.ok = op.ok /\ Kept
      BY <1>1, <2>3, GoOnFields DEF Steps, CheckPending
    <3>. QED BY <1>1, <2>1, <3>1 DEF Kept
  <2>4. CASE Snapshot /\ ~db.pending /\ op' = [op EXCEPT !.carries = db, !.step = "put"]
    <3>1. op.step = "snapshot" /\ op'.step = "put" /\ op'.ok = op.ok /\ op'.purpose = op.purpose
          /\ op'.carries = db /\ op'.source = op.source
      BY <1>1, <2>4 DEF OpType, Snapshot
    <3>. QED BY <1>1, <2>1, <2>4, <3>1
  <2>5. CASE Put /\ GoOn("move")
    <3>1. op.step = "put" /\ op'.step = "move" /\ op'.ok = op.ok /\ Kept
      BY <1>1, <2>5, GoOnFields DEF Steps, Put
    <3>. QED BY <1>1, <2>1, <3>1 DEF Kept
  <2>6. CASE MoveIntoPlace /\ remote' = (remote \ {File(FALSE)}) \cup {File(TRUE)} /\ GoOn(AfterUpload)
    <3>1. op.step = "move" /\ op'.step = AfterUpload /\ op'.ok = op.ok /\ Kept
      BY <1>1, <2>6, GoOnFields DEF Steps, MoveIntoPlace, AfterUpload
    <3>2. /\ File(TRUE) \in Complete' /\ File(TRUE).id = job.id /\ File(TRUE).purpose = op.purpose
          /\ File(TRUE).contents = op.carries
      BY <2>6 DEF Complete, File
    <3>. QED BY <1>1, <2>1, <3>1, <3>2 DEF Kept, AfterUpload
  <2>7. CASE NoteSafety /\ GoOn("apply")
    <3>1. op.step = "note" /\ op'.step = "apply" /\ op'.ok = op.ok /\ Kept
      BY <1>1, <2>7, GoOnFields DEF Steps, NoteSafety
    <3>2. Complete' = Complete
      BY <1>2, <3>1
    <3>. QED BY <1>1, <2>1, <3>1, <3>2 DEF Kept
  <2>. QED BY <1>7, <2>2, <2>3, <2>4, <2>5, <2>6, <2>7 DEF CheckPending, Snapshot, Put, MoveIntoPlace, NoteSafety
<1>8. CASE Apply
  <2>1. /\ op.step = "apply" /\ UNCHANGED <<up, browser, maintenance, working, job, operations>>
        /\ restored \subseteq restored'
    BY <1>8 DEF Apply, record
  <2>2. CASE restored' = restored \cup {job.id} /\ GoOn("leave")
    <3>1. op'.step = "leave" /\ op'.ok = op.ok /\ Kept
      BY <1>1, <2>2, GoOnFields DEF Steps
    <3>. QED BY <1>1, <2>1, <2>2, <3>1 DEF Kept
  <2>3. CASE Fails
    <3>1. op'.step = "leave" /\ op'.ok = FALSE /\ Kept
      BY <1>1, <2>1, <2>3, FailsFields DEF FailedTo
    <3>. QED BY <1>1, <2>1, <2>3, <3>1 DEF Kept
  <2>. QED BY <1>8, <2>2, <2>3 DEF Apply
<1>9. CASE LeaveMaintenance
  <2>1. /\ op.step = "leave" /\ UNCHANGED <<up, db, browser, restored, job, operations>>
        /\ maintenance' = FALSE /\ working' = TRUE
    BY <1>9 DEF LeaveMaintenance, record
  <2>2. op'.step = "dispose" /\ op'.ok = op.ok /\ Kept
    BY <1>1, <1>9, GoOnFields DEF Steps, LeaveMaintenance
  <2>3. Complete' = Complete
    BY <1>2, <2>1
  <2>. QED BY <1>1, <2>1, <2>2, <2>3 DEF Kept
<1>10. CASE Dispose
  <2>1. /\ op.step = "dispose" /\ UNCHANGED <<up, db, browser, restored, job, operations, maintenance, working>>
    BY <1>10 DEF Dispose, record, site
  <2>2. op'.step = "finish" /\ op'.ok = op.ok /\ Kept
    BY <1>1, <1>10 DEF OpType, Kept, Dispose
  <2>3. Complete' = Complete
    BY <1>2, <2>1
  <2>. QED BY <1>1, <2>1, <2>2, <2>3 DEF Kept
<1>11. CASE Finish
  <2>1. /\ op.step = "finish" /\ UNCHANGED <<up, maintenance, working, browser>> /\ op' = NoOperation
    BY <1>11 DEF Finish, site
  <2>. QED BY <1>1, <2>1 DEF NoOperation, NoContents
<1>. QED BY <1>3, <1>4, <1>5, <1>6, <1>7, <1>8, <1>9, <1>10, <1>11 DEF OperationStep

-----------------------------------------------------------------------------
(* Requests of users and the worker, beside the operation.                 *)
LEMMA UsersKeep ==
    ASSUME BackupIInv, (\E r \in Requests : Arrives(r) \/ Writes(r)) \/ WorkerFinishes
    PROVE  BackupIInv'
<1>1. /\ BackupTypes /\ PauseFacts /\ CarryFacts /\ OutcomeFacts /\ NothingLost /\ RecordIsTrue /\ Clean
      /\ db \in Contents /\ committed \subseteq Requests
      /\ browser \in [Requests -> {"out", "in", "held back", "answered"}]
  BY DEF BackupIInv, BackupTypes
<1>2. UNCHANGED <<up, maintenance, working, remote, busy, job, disk, operations, op, restored>> /\ up
  BY DEF Arrives, Writes, WorkerFinishes, record
<1>3. Complete' = Complete
  BY <1>2 DEF Complete
<1>4. RecordIsTrue' /\ Clean' /\ OutcomeFacts'
  BY <1>1, <1>2, <1>3 DEF RecordIsTrue, Clean, OutcomeFacts, Restoring
<1>5. ASSUME NEW r \in Requests, Arrives(r) PROVE BackupIInv'
  <2>1. UNCHANGED <<db, committed>> /\ browser' = [browser EXCEPT ![r] = IF maintenance THEN "held back" ELSE "in"]
    BY <1>5 DEF Arrives
  <2>6. browser' \in [Requests -> {"out", "in", "held back", "answered"}]
    BY <1>1, <2>1
  <2>2. BackupTypes' /\ NothingLost' /\ CarryFacts'
    BY <1>1, <1>2, <1>3, <2>1, <2>6 DEF BackupTypes, NothingLost, CarryFacts, Restoring
  <2>3. maintenance \/ ~Still
    BY <1>1 DEF PauseFacts, Paused, Still
  <2>4. ~InFlight /\ maintenance => ~InFlight'
    BY <1>1, <2>1 DEF InFlight
  <2>5. PauseFacts'
    BY <1>1, <1>2, <2>3, <2>4 DEF PauseFacts, Paused, Still, Working, Restoring
  <2>. QED BY <1>4, <2>2, <2>5 DEF BackupIInv
<1>6. ASSUME NEW r \in Requests, Writes(r) PROVE BackupIInv'
  <2>1. /\ browser[r] = "in" /\ db'.rows = db.rows \cup {r} /\ db' \in Contents
        /\ committed' = committed \cup {r} /\ browser' = [browser EXCEPT ![r] = "answered"]
    <3>1. db.rows \subseteq Requests /\ db.pending \in BOOLEAN
      BY <1>1 DEF Contents
    <3>2. PICK pending \in {db.pending, TRUE} : db' = [rows |-> db.rows \cup {r}, pending |-> pending]
      BY <1>6 DEF Writes
    <3>. QED BY <1>6, <3>1, <3>2 DEF Writes, Contents
  <2>2. InFlight /\ (InFlight' => InFlight) /\ browser' \in [Requests -> {"out", "in", "held back", "answered"}]
    BY <1>1, <2>1 DEF InFlight
  <2>3. ~Still
    BY <1>1, <2>2 DEF PauseFacts
  <2>4. BackupTypes' /\ NothingLost'
    BY <1>1, <1>2, <1>3, <2>1, <2>2 DEF BackupTypes, NothingLost
  <2>5. CarryFacts'
    BY <1>1, <1>2, <1>3, <2>3 DEF CarryFacts, Restoring, Still, Working
  <2>6. PauseFacts'
    BY <1>1, <1>2, <2>2 DEF PauseFacts, Paused, Still, Working, Restoring
  <2>. QED BY <1>4, <2>4, <2>5, <2>6 DEF BackupIInv
<1>7. ASSUME WorkerFinishes PROVE BackupIInv'
  <2>1. UNCHANGED <<committed, browser>> /\ db' \in Contents /\ db'.rows = db.rows
    BY <1>1, <1>7 DEF WorkerFinishes, Contents
  <2>2. BackupTypes' /\ NothingLost' /\ CarryFacts'
    BY <1>1, <1>2, <1>3, <2>1 DEF BackupTypes, NothingLost, CarryFacts, Restoring
  <2>3. PauseFacts'
    BY <1>1, <1>2, <2>1 DEF PauseFacts, Paused, Still, Working, Restoring, InFlight
  <2>. QED BY <1>4, <2>2, <2>3 DEF BackupIInv
<1>. QED BY <1>5, <1>6, <1>7

LEMMA OperationBegins ==
    ASSUME BackupIInv, NEW purpose \in {"backup", "restore"}, NEW file,
           purpose = "restore" => file \in remote, Begin(purpose, file)
    PROVE  BackupIInv'
<1>1. /\ BackupTypes /\ PauseFacts /\ CarryFacts /\ OutcomeFacts /\ NothingLost /\ RecordIsTrue /\ Clean
      /\ busy = FALSE /\ op.step = "none" /\ operations \in 0..MaxOperations /\ MaxOperations \in Nat
  BY BackupAssumption DEF BackupIInv, BackupTypes, Begin, BackupAssumption
<1>2. /\ UNCHANGED <<up, db, committed, browser, maintenance, working, restored, remote, disk>>
      /\ up /\ operations' = operations + 1 /\ operations < MaxOperations /\ busy' = TRUE
      /\ job' = [id |-> operations + 1, operation |-> purpose, status |-> "running"]
  BY DEF Begin, site
<1>3. Complete' = Complete
  BY <1>2 DEF Complete
<1>. DEFINE source == IF purpose = "restore" THEN file.contents ELSE NoContents
<1>4. source \in Contents /\ ~source.pending
  <2>1. CASE purpose = "restore"
    BY <1>1, <2>1 DEF Begin, BackupTypes, Complete, Clean, RemoteFile
  <2>2. CASE purpose # "restore"
    BY <2>2 DEF NoContents, Contents
  <2>. QED BY <2>1, <2>2
<1>5. /\ op' \in OpType /\ op'.step = "begin" /\ op'.purpose = purpose
      /\ ~op'.carries.pending /\ ~op'.source.pending
  <2>1. op' = [NoOperation EXCEPT !.step = "begin", !.purpose = purpose, !.source = source]
    BY DEF Begin
  <2>2. ~NoOperation.carries.pending /\ NoOperation \in OpType
    BY RestedFields DEF NoOperation, NoContents
  <2>. HIDE DEF source
  <2>. QED BY <1>4, <2>1, <2>2 DEF OpType, Steps
<1>6. BackupTypes'
  <2>1. job' \in JobType
    <3>1. operations + 1 \in Nat
      BY <1>1
    <3>. QED BY <1>2, <3>1 DEF JobType, Statuses
  <2>2. restored' \subseteq 1..operations' /\ operations' \in 0..MaxOperations
    <3>1. restored \subseteq 1..operations
      BY <1>1 DEF BackupTypes
    <3>2. restored' = restored /\ operations' = operations + 1 /\ operations < MaxOperations
      BY <1>2
    <3>3. operations \in 0..MaxOperations /\ MaxOperations \in Nat
      BY <1>1
    <3>. QED BY <3>1, <3>2, <3>3
  <2>. QED BY <1>1, <1>2, <1>5, <2>1, <2>2 DEF BackupTypes
<1>7. PauseFacts' /\ CarryFacts' /\ OutcomeFacts'
  <2>1. /\ job'.status = "running" /\ job'.operation = op'.purpose /\ job'.id \in 1..operations'
    BY <1>1, <1>2, <1>5
  <2>. QED BY <1>1, <1>2, <1>5, <2>1
         DEF PauseFacts, CarryFacts, OutcomeFacts, Restoring, Working, Paused, Still
<1>8. NothingLost' /\ RecordIsTrue' /\ Clean'
  <2>1. job'.status # "succeeded"
    BY <1>2
  <2>. QED BY <1>2, <1>3, <2>1, FramesKeep
<1>. QED BY <1>6, <1>7, <1>8 DEF BackupIInv

LEMMA ProcessKeeps ==
    ASSUME BackupIInv, Configure \/ Crash \/ Restart
    PROVE  BackupIInv'
<1>1. /\ BackupTypes /\ PauseFacts /\ CarryFacts /\ OutcomeFacts /\ NothingLost /\ RecordIsTrue /\ Clean
      /\ job \in JobType /\ disk \in JobType
  BY DEF BackupIInv, BackupTypes
<1>2. UNCHANGED <<db, committed, remote, operations, restored>>
  BY DEF Configure, Crash, Restart, site
<1>3. Complete' = Complete
  BY <1>2 DEF Complete
<1>4. CASE Configure
  <2>1. UNCHANGED <<up, browser, maintenance, working, op, busy, job>> /\ disk' = job
    BY <1>4 DEF Configure, site
  <2>2. BackupTypes' /\ CarryFacts' /\ OutcomeFacts'
    BY <1>1, <1>2, <1>3, <2>1 DEF BackupTypes, CarryFacts, OutcomeFacts, Restoring
  <2>3. PauseFacts'
    BY <1>1, <2>1 DEF PauseFacts, Paused, Still, Working, Restoring, InFlight
  <2>. QED BY <1>2, <1>3, <2>1, <2>2, <2>3, FramesKeep DEF BackupIInv
<1>5. CASE Crash
  <2>1. /\ up' = FALSE /\ maintenance' = FALSE /\ working' = FALSE /\ busy' = FALSE
        /\ op' = NoOperation /\ job' = NoJob /\ disk' = disk
        /\ browser' \in [Requests -> {"out", "in", "held back", "answered"}]
    BY <1>1, <1>5 DEF Crash, BackupTypes
  <2>2. op'.step = "none" /\ ~op'.carries.pending /\ ~op'.source.pending /\ job'.status = "none"
    BY <2>1 DEF NoOperation, NoContents, NoJob
  <2>3. BackupTypes'
    BY <1>1, <1>2, <2>1, <2>2, RestedFields DEF BackupTypes
  <2>4. PauseFacts' /\ CarryFacts' /\ OutcomeFacts'
    BY <2>1, <2>2 DEF PauseFacts, CarryFacts, OutcomeFacts, Paused, Still, Working
  <2>. QED BY <1>2, <1>3, <2>1, <2>2, <2>3, <2>4, FramesKeep DEF BackupIInv
<1>6. CASE Restart
  <2>1. /\ up' = TRUE /\ working' = TRUE /\ UNCHANGED <<browser, maintenance, busy, op>>
        /\ job' = Interrupted(disk) /\ disk' = Interrupted(disk) /\ op.step = "none"
    BY <1>1, <1>6 DEF Restart, PauseFacts
  <2>2. Interrupted(disk) \in JobType /\ (Interrupted(disk) = disk \/ Interrupted(disk).status # "succeeded")
    BY <1>1 DEF Interrupted, JobType, Statuses
  <2>3. BackupTypes'
    BY <1>1, <1>2, <2>1, <2>2 DEF BackupTypes
  <2>4. PauseFacts' /\ CarryFacts' /\ OutcomeFacts'
    BY <1>1, <2>1 DEF PauseFacts, CarryFacts, OutcomeFacts, Paused, Still, Working, Restoring
  <2>5. RecordIsTrue'
    BY <1>1, <1>2, <1>3, <2>1, <2>2 DEF RecordIsTrue
  <2>. QED BY <1>2, <1>3, <2>3, <2>4, <2>5, FramesKeep DEF BackupIInv
<1>. QED BY <1>4, <1>5, <1>6

LEMMA BackupStarts == ASSUME SiteBackupInit PROVE BackupIInv
<1>1. /\ op.step = "none" /\ ~op.carries.pending /\ ~op.source.pending
      /\ job.status = "none" /\ disk.status = "none" /\ Complete = {} /\ db \in Contents
  BY DEF SiteBackupInit, NoOperation, NoContents, NoJob, Complete, Contents
<1>2. BackupTypes
  <2>1. operations = 0 /\ 0 \in 0..MaxOperations /\ restored = {} /\ committed = {} /\ remote = {}
    BY BackupAssumption DEF SiteBackupInit, BackupAssumption
  <2>2. browser = [r \in Requests |-> "out"] /\ op = NoOperation /\ job = NoJob /\ disk = NoJob
        /\ up = TRUE /\ maintenance = FALSE /\ working = TRUE /\ busy = FALSE
    BY DEF SiteBackupInit
  <2>. QED BY <1>1, <2>1, <2>2, RestedFields DEF BackupTypes
<1>3. PauseFacts /\ CarryFacts /\ OutcomeFacts
  BY <1>1 DEF SiteBackupInit, PauseFacts, CarryFacts, OutcomeFacts, Paused, Still, Working
<1>4. NothingLost /\ RecordIsTrue /\ Clean
  BY <1>1 DEF SiteBackupInit, NothingLost, RecordIsTrue, Clean
<1>. QED BY <1>2, <1>3, <1>4 DEF BackupIInv

LEMMA BackupStep == ASSUME BackupIInv, [SiteBackupNext]_backupVars PROVE BackupIInv'
<1>1. CASE OperationStep
  BY <1>1, OperationTypes, OperationFacts, OperationRecords DEF BackupIInv, StepFacts
<1>2. CASE (\E r \in Requests : Arrives(r) \/ Writes(r)) \/ WorkerFinishes
  BY <1>2, UsersKeep
<1>3. CASE Begin("backup", "none") \/ \E f \in remote : Begin("restore", f)
  BY <1>3, OperationBegins
<1>4. CASE Configure \/ Crash \/ Restart
  BY <1>4, ProcessKeeps
<1>5. CASE UNCHANGED backupVars
  <2>1. /\ BackupTypes /\ PauseFacts /\ CarryFacts /\ OutcomeFacts /\ NothingLost /\ RecordIsTrue /\ Clean
    BY DEF BackupIInv
  <2>2. UNCHANGED <<up, db, committed, browser, maintenance, working, remote, busy, op, job, disk,
                    operations, restored>>
    BY <1>5 DEF backupVars
  <2>3. Complete' = Complete
    BY <2>2 DEF Complete
  <2>. QED BY <2>1, <2>2, <2>3
         DEF BackupIInv, BackupTypes, PauseFacts, CarryFacts, OutcomeFacts, NothingLost, RecordIsTrue, Clean,
             Paused, Still, Working, Restoring, InFlight
<1>. QED BY <1>1, <1>2, <1>3, <1>4, <1>5 DEF SiteBackupNext

(* Whatever a request wrote is in the database or in a complete file,      *)
(* every complete file can be restored, and a recorded success is one.     *)
THEOREM BackupsAreSafe == SiteBackupSpec => []SiteBackupInv
<1>1. SiteBackupInit => BackupIInv
  BY BackupStarts
<1>2. BackupIInv /\ [SiteBackupNext]_backupVars => BackupIInv'
  BY BackupStep
<1>3. BackupIInv => SiteBackupInv
  <2>1. SUFFICES ASSUME BackupIInv PROVE SiteBackupInv
    OBVIOUS
  <2>2. BackupTypes /\ PauseFacts /\ CarryFacts /\ NothingLost /\ RecordIsTrue /\ Clean
    BY <2>1 DEF BackupIInv
  <2>3. SiteBackupTypeOK
    <3>1. db.rows \subseteq Requests /\ disk.status \in Statuses
      BY <2>2 DEF BackupTypes, Contents, JobType
    <3>2. maintenance \/ ~working => op.step # "none" \/ ~up
      BY <2>2 DEF PauseFacts, Paused, Working
    <3>. QED BY <2>2, <3>1, <3>2 DEF SiteBackupTypeOK, BackupTypes, Statuses
  <2>. QED BY <2>2, <2>3 DEF SiteBackupInv, BackupsRestorable, Clean, CarryFacts
<1>. QED BY <1>1, <1>2, <1>3, PTL DEF SiteBackupSpec
=============================================================================
