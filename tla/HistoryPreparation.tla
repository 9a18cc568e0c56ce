------------------------- MODULE HistoryPreparation -------------------------
(* Preparing candidates from the confirmed sources with a model, and the   *)
(* repair of the sources whose preparation failed.  Both work on one       *)
(* directory of checkpoints.  A run may die and be resumed, and nothing    *)
(* keeps two runs apart.                                                   *)
EXTENDS FiniteSets, HistoryGrouping, ModelRequest

CONSTANTS MaxSources,      \* bound: confirmed sources, in their order
          Preparers,       \* processes
          None,            \* no such file
          MaximumAttempts, \* requests the normalizer may send for one source
          MaxStarts,       \* bound: prepare and repair runs
          MaxPrepareFaults \* bound: runs that die, writes that fail

ASSUME PreparationAssumption ==
    LET texts == UNION {[1..n -> {"model", "source"}] : n \in 1..2} IN
    /\ MaxSources \in Nat \ {0} /\ MaximumAttempts \in Nat \ {0}
    /\ None \notin {"made", "run", "active", "model", "source"}
    /\ None \notin [attempts : 1..MaximumAttempts, candidates : texts]
    /\ None \notin UNION {[1..n -> texts] : n \in 1..MaxSources}

VARIABLES
    confirmedSources, \* how many sources this directory is for
    file,             \* the directory: what is under each path
    repairManifest,   \* the failure receipts that a repair may replace
    run,              \* the processes
    sent,             \* how often the n-th request of a source was sent
    starts, prepareFaults   \* counters for the bounds

preparationVars == <<confirmedSources, file, repairManifest, run, sent, starts, prepareFaults>>

Sources  == 1..confirmedSources
RequestNumbers == 1..MaximumAttempts
Problems == 1..2     \* bound: problems in one answer
Idle     == [at |-> "idle"]

Active(s, n)    == <<"active", s, n>>
Completed(s)    == <<"completed", s>>
Failed(s)       == <<"failed", s>>
Candidate(s, p) == <<"candidate", s, p>>
Directories     == <<"directories">>
RunFile         == <<"run.json">>
Incomplete      == <<"PREPARE_INCOMPLETE">>
PrepareRun      == <<"PREPARE_RUN">>
ReviewFile      == <<"review.json">>
Complete        == <<"PREPARE_COMPLETE">>

PreparedPaths ==
    {Active(s, n) : s \in 1..MaxSources, n \in RequestNumbers}
    \cup {Completed(s) : s \in 1..MaxSources} \cup {Failed(s) : s \in 1..MaxSources}
    \cup {Candidate(s, p) : s \in 1..MaxSources, p \in Problems}
    \cup {Directories, RunFile, Incomplete, PrepareRun, ReviewFile, Complete}

Exists(path) == file[path] # None

PreparationInit ==
    /\ confirmedSources \in 1..MaxSources
    /\ file = [path \in PreparedPaths |-> None]
    /\ repairManifest = None
    /\ run = [r \in Preparers |-> Idle]
    /\ sent = [s \in 1..MaxSources |-> [n \in RequestNumbers |-> 0]]
    /\ starts = 0 /\ prepareFaults = 0

-----------------------------------------------------------------------------
(* Files are only ever made new.  A write that fails after its link leaves *)
(* the file behind.                                                        *)

MovesTo(r, state) == run' = [run EXCEPT ![r] = state]
Stay           == UNCHANGED <<confirmedSources, repairManifest, sent, starts>>
Put(path, content) == [file EXCEPT ![path] = content]

CreateFile(r, path, content, done, error) ==
    /\ \/ ~Exists(path) /\ file' = Put(path, content) /\ MovesTo(r, done) /\ UNCHANGED prepareFaults
       \/ Exists(path) /\ MovesTo(r, error) /\ UNCHANGED <<file, prepareFaults>>
       \/ /\ ~Exists(path) /\ prepareFaults < MaxPrepareFaults /\ prepareFaults' = prepareFaults + 1
          /\ file' \in {file, Put(path, content)}
          /\ MovesTo(r, error)
    /\ Stay

(* A file that is there must hold what would have been written.            *)
WriteOrValidate(r, path, content, done) ==
    IF ~Exists(path) THEN CreateFile(r, path, content, done, Idle)
    ELSE /\ MovesTo(r, IF file[path] = content THEN done ELSE Idle)
         /\ UNCHANGED <<file, prepareFaults>> /\ Stay

(* What the checkpoints say of a source, if they agree with one another.   *)
ChainHolds(s, attempts) == \A n \in 1..attempts : Exists(Active(s, n))

SourceState(s) ==
    LET registered == Exists(Active(s, 1)) IN
    CASE Exists(Completed(s)) ->
           IF registered /\ ~Exists(Failed(s)) /\ ChainHolds(s, file[Completed(s)].attempts)
           THEN "completed" ELSE "unsafe"
      [] ~Exists(Completed(s)) /\ Exists(Failed(s)) ->
           IF /\ registered <=> file[Failed(s)].attempts > 0
              /\ ChainHolds(s, file[Failed(s)].attempts)
           THEN "failed" ELSE "unsafe"
      [] OTHER -> IF registered THEN "active" ELSE "pending"

-----------------------------------------------------------------------------
(* Prepare.                                                                *)

IsAt(r, at)    == run[r].at = at
Continue(r, at)  == [run[r] EXCEPT !.at = at]
NextSource(r, at)  == [run[r] EXCEPT !.at = at, !.i = @ + 1]
Failing(r, kind, attempts) == [run[r] EXCEPT !.at = "fail", !.kind = kind, !.n = attempts]

StartRun(r, at) ==
    /\ IsAt(r, "idle") /\ starts < MaxStarts /\ starts' = starts + 1
    /\ MovesTo(r, [at |-> at, i |-> 1, n |-> 1, p |-> 1, problems |-> 0, kind |-> None,
                todo |-> {}, report |-> None])
    /\ UNCHANGED <<confirmedSources, file, repairManifest, sent, prepareFaults>>

StartFresh(r)  == ~Exists(Directories) /\ StartRun(r, "directories")
StartResume(r) == Exists(RunFile) /\ Exists(Directories) /\ StartRun(r, "load")

MakeDirectories(r) ==
    IsAt(r, "directories") /\ CreateFile(r, Directories, "made", Continue(r, "run"), Idle)

WriteRun(r) ==
    IsAt(r, "run") /\ CreateFile(r, RunFile, "run", Continue(r, "incomplete"), Idle)

WriteIncomplete(r) ==
    IsAt(r, "incomplete") /\ CreateFile(r, Incomplete, "run", Continue(r, "load"), Idle)

(* Only a source without any checkpoint is worked on.                      *)
Load(r) ==
    /\ IsAt(r, "load")
    /\ MovesTo(r, IF run[r].i \notin Sources THEN Continue(r, "summary")
               ELSE CASE SourceState(run[r].i) = "unsafe"  -> Idle
                      [] SourceState(run[r].i) = "pending" -> Continue(r, "read")
                      [] OTHER -> NextSource(r, "load"))
    /\ UNCHANGED <<file, prepareFaults>> /\ Stay

ReadSource(r) ==
    /\ IsAt(r, "read")
    /\ \/ MovesTo(r, Continue(r, "register"))
       \/ MovesTo(r, Failing(r, "source_validation", 0))
    /\ UNCHANGED <<file, prepareFaults>> /\ Stay

(* The request is on record before it is sent.                             *)
Register(r) ==
    /\ IsAt(r, "register")
    /\ CreateFile(r, Active(run[r].i, 1), "active", [run[r] EXCEPT !.at = "send", !.n = 1, !.p = 1], Idle)

Send(r) ==
    /\ IsAt(r, "send")
    /\ sent' = [sent EXCEPT ![run[r].i][run[r].n] = @ + 1]
    /\ MovesTo(r, Continue(r, "answer"))
    /\ UNCHANGED <<confirmedSources, file, repairManifest, starts, prepareFaults>>

(* Cancelled before it was sent.                                           *)
Cancelled(r) ==
    /\ IsAt(r, "send") /\ run[r].n = 1
    /\ MovesTo(r, Failing(r, "cancelled", 1))
    /\ UNCHANGED <<file, prepareFaults>> /\ Stay

Answer(r) ==
    /\ IsAt(r, "answer")
    /\ \/ \E number \in Problems : MovesTo(r, [run[r] EXCEPT !.at = "store", !.problems = number])
       \/ \E kind \in {"schema", "cancelled", "internal"} : MovesTo(r, Failing(r, kind, run[r].n))
       \/ run[r].n < MaximumAttempts /\ MovesTo(r, Continue(r, "retry"))
    /\ UNCHANGED <<file, prepareFaults>> /\ Stay

RegisterRetry(r) ==
    /\ IsAt(r, "retry")
    /\ CreateFile(r, Active(run[r].i, run[r].n + 1), "active",
              [run[r] EXCEPT !.at = "send", !.n = @ + 1], Failing(r, "internal", run[r].n))

(* The problems of an answer are checked and stored one by one.            *)
StoreCandidate(r) ==
    /\ IsAt(r, "store") /\ run[r].p <= run[r].problems
    /\ \/ CreateFile(r, Candidate(run[r].i, run[r].p), "model",
                 [run[r] EXCEPT !.p = @ + 1], Failing(r, "internal", run[r].n))
       \/ MovesTo(r, Failing(r, "schema", run[r].n)) /\ UNCHANGED <<file, prepareFaults>> /\ Stay

Receipt(attempts, texts) == [attempts |-> attempts, candidates |-> texts]

FinishSource(r) ==
    /\ IsAt(r, "store") /\ run[r].p > run[r].problems
    /\ CreateFile(r, Completed(run[r].i),
              Receipt(run[r].n, [p \in 1..run[r].problems |-> "model"]),
              NextSource(r, "load"), Failing(r, "internal", run[r].n))

(* A cancelled run stops at this source.                                   *)
WriteFailure(r) ==
    /\ IsAt(r, "fail")
    /\ CreateFile(r, Failed(run[r].i), [kind |-> run[r].kind, attempts |-> run[r].n],
              IF run[r].kind = "cancelled" THEN Continue(r, "summary") ELSE NextSource(r, "load"), Idle)

-----------------------------------------------------------------------------
(* The end of both commands: the summary, then the marks that open the     *)
(* directory for packaging.                                                *)

CandidatesMatch(s) ==
    LET texts == file[Completed(s)].candidates IN
    \A p \in DOMAIN texts : file[Candidate(s, p)] = texts[p]

Summarize(r) ==
    /\ IsAt(r, "summary")
    /\ MovesTo(r, IF \A s \in Sources : SourceState(s) = "completed" /\ CandidatesMatch(s)
               THEN [run[r] EXCEPT !.at = "review",
                                   !.report = [s \in Sources |-> file[Completed(s)].candidates]]
               ELSE Idle)
    /\ UNCHANGED <<file, prepareFaults>> /\ Stay

WriteReview(r) ==
    IsAt(r, "review") /\ WriteOrValidate(r, ReviewFile, run[r].report, Continue(r, "finalize"))

(* The mark is moved by a link and an unlink.                              *)
LinkRun(r) ==
    /\ IsAt(r, "finalize")
    /\ IF Exists(Incomplete)
       THEN CreateFile(r, PrepareRun, "run", Continue(r, "unlink"), Idle)
       ELSE /\ MovesTo(r, IF Exists(PrepareRun) THEN Continue(r, "complete") ELSE Idle)
            /\ UNCHANGED <<file, prepareFaults>> /\ Stay

UnlinkIncomplete(r) ==
    /\ IsAt(r, "unlink")
    /\ MovesTo(r, IF Exists(Incomplete) THEN Continue(r, "complete") ELSE Idle)
    /\ file' = Put(Incomplete, None)
    /\ UNCHANGED prepareFaults /\ Stay

WriteComplete(r) ==
    IsAt(r, "complete") /\ WriteOrValidate(r, Complete, run[r].report, Idle)

-----------------------------------------------------------------------------
(* Repair: failures of the format, named in a manifest by their receipts,  *)
(* are replaced by the source text itself.                                 *)

WriteManifest ==
    /\ repairManifest = None
    /\ \E chosen \in SUBSET {s \in Sources : Exists(Failed(s))} \ {{}} :
          repairManifest' = [s \in chosen |-> file[Failed(s)]]
    /\ UNCHANGED <<confirmedSources, file, run, sent, starts, prepareFaults>>

StartRepair(r) == repairManifest # None /\ Exists(Directories) /\ StartRun(r, "supersede")

(* A receipt beside a completed record is what a repair that died left.    *)
RemoveSuperseded(r) ==
    /\ IsAt(r, "supersede")
    /\ LET s == run[r].i IN
       IF s \notin Sources THEN MovesTo(r, Continue(r, "others")) /\ UNCHANGED file
       ELSE IF s \notin DOMAIN repairManifest THEN MovesTo(r, NextSource(r, "supersede")) /\ UNCHANGED file
       ELSE /\ MovesTo(r, Continue(r, "check"))
            /\ file' = IF Exists(Active(s, 1)) /\ Exists(Completed(s)) THEN Put(Failed(s), None)
                       ELSE file
    /\ UNCHANGED prepareFaults /\ Stay

CheckReceipt(r) ==
    /\ IsAt(r, "check")
    /\ LET s == run[r].i IN
       MovesTo(r, CASE SourceState(s) = "completed" /\ file[Completed(s)].candidates[1] = "source" ->
                      NextSource(r, "supersede")
                 [] /\ SourceState(s) = "failed"
                    /\ file[Failed(s)] = repairManifest[s]
                    /\ repairManifest[s].kind = "schema" /\ repairManifest[s].attempts > 0 ->
                      [NextSource(r, "supersede") EXCEPT !.todo = @ \cup {s}]
                 [] OTHER -> Idle)
    /\ UNCHANGED <<file, prepareFaults>> /\ Stay

CheckOthers(r) ==
    /\ IsAt(r, "others")
    /\ MovesTo(r, IF \A s \in Sources \ DOMAIN repairManifest : SourceState(s) \in {"pending", "completed"}
               THEN [run[r] EXCEPT !.at = "repair", !.i = 1] ELSE Idle)
    /\ UNCHANGED <<file, prepareFaults>> /\ Stay

RepairCandidate(r) ==
    /\ IsAt(r, "repair")
    /\ IF run[r].i \in run[r].todo
       THEN WriteOrValidate(r, Candidate(run[r].i, 1), "source", Continue(r, "settle"))
       ELSE /\ MovesTo(r, IF run[r].i \in Sources THEN NextSource(r, "repair") ELSE Continue(r, "summary"))
            /\ UNCHANGED <<file, prepareFaults>> /\ Stay

RepairCompleted(r) ==
    /\ IsAt(r, "settle")
    /\ WriteOrValidate(r, Completed(run[r].i),
                       Receipt(repairManifest[run[r].i].attempts, [p \in 1..1 |-> "source"]),
                       Continue(r, "remove"))

RemoveFailure(r) ==
    /\ IsAt(r, "remove")
    /\ file' = Put(Failed(run[r].i), None)
    /\ MovesTo(r, NextSource(r, "repair"))
    /\ UNCHANGED prepareFaults /\ Stay

-----------------------------------------------------------------------------
PreparerDies(r) ==
    /\ ~IsAt(r, "idle") /\ prepareFaults < MaxPrepareFaults /\ prepareFaults' = prepareFaults + 1
    /\ MovesTo(r, Idle)
    /\ UNCHANGED file /\ Stay

PreparationNext ==
    \/ WriteManifest
    \/ \E r \in Preparers :
          \/ StartFresh(r) \/ StartResume(r) \/ MakeDirectories(r) \/ WriteRun(r)
          \/ WriteIncomplete(r) \/ Load(r) \/ ReadSource(r) \/ Register(r) \/ Send(r)
          \/ Cancelled(r) \/ Answer(r) \/ RegisterRetry(r) \/ StoreCandidate(r) \/ FinishSource(r)
          \/ WriteFailure(r) \/ Summarize(r) \/ WriteReview(r) \/ LinkRun(r)
          \/ UnlinkIncomplete(r) \/ WriteComplete(r)
          \/ StartRepair(r) \/ RemoveSuperseded(r) \/ CheckReceipt(r) \/ CheckOthers(r)
          \/ RepairCandidate(r) \/ RepairCompleted(r) \/ RemoveFailure(r)
          \/ PreparerDies(r)

PreparationSpec == PreparationInit /\ [][PreparationNext]_preparationVars

-----------------------------------------------------------------------------
(* However often the command is resumed, and with two of them at once, no  *)
(* request to the model is sent twice, and none without its record.        *)
SentOnce ==
    \A s \in Sources, n \in RequestNumbers :
        sent[s][n] <= 1 /\ (sent[s][n] = 1 => Exists(Active(s, n)))

(* A completed record names candidates that are there as it names them,    *)
(* from a request that was sent.                                           *)
CompletedHasCandidates ==
    \A s \in Sources : Exists(Completed(s)) => CandidatesMatch(s) /\ sent[s][1] = 1

(* The directory is open for packaging only when every source is           *)
(* completed, and the list for the reviewers is that of the records.       *)
CompleteIsTrue ==
    Exists(Complete) =>
        /\ ~Exists(Incomplete) /\ Exists(PrepareRun)
        /\ \A s \in Sources : Exists(Completed(s))
        /\ file[Complete] = file[ReviewFile]
        /\ file[Complete] = [s \in Sources |-> file[Completed(s)].candidates]

(* A repair touches only what its manifest names, replaces no candidate of *)
(* the model, and takes a receipt away only beside a completed record.     *)
RepairKeepsRecords ==
    \A s \in Sources :
        /\ file[Candidate(s, 1)] = "source" => /\ repairManifest # None /\ s \in DOMAIN repairManifest
                                              /\ repairManifest[s].kind = "schema"
                                              /\ ~Exists(Candidate(s, 2))
        /\ repairManifest # None /\ s \in DOMAIN repairManifest => Exists(Failed(s)) \/ Exists(Completed(s))

PreparationInv == SentOnce /\ CompletedHasCandidates /\ CompleteIsTrue /\ RepairKeepsRecords

(* From the inventory to the packages: what is packaged is what a person   *)
(* confirmed, the model is asked once for each source, by a call whose     *)
(* answer is taken only whole, and only complete records open a directory. *)
PreparedInv == GroupingInv /\ PreparationInv /\ RequestInv
=============================================================================
