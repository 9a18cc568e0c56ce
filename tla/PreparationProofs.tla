------------------------- MODULE PreparationProofs -------------------------
(***************************************************************************)
(* Proofs about what leads from the old files to the packages, for every   *)
(* value of the constants: the stages and the edits by hand between them,  *)
(* one request to the model, and preparation and repair over one directory *)
(* of checkpoints.  For each: the inductive invariant, a lemma per action, *)
(* the theorem; the last theorem puts the three together.                  *)
(***************************************************************************)
EXTENDS HistoryPreparation, TLAPS

-----------------------------------------------------------------------------
(***************************************************************************)
(* The stages from the inventory to the packages.  What a command has read *)
(* is what it expected, and what it is about to write rests on a batch     *)
(* that was confirmed; edits by hand break the seal.                       *)
(***************************************************************************)
SourceTexts == [Files -> Texts \cup {Missing}]
Batches     == [inv : SourceTexts, meta : Nat, plan : Plans \cup {Missing}]
DirectoryStates == {"absent", "created", "written", "complete", "blocked"}
Sealed(s)   == folder[s].state \in {"written", "complete", "blocked"}
CommandSteps == {"idle", "list", "read", "bind", "create", "payload", "recheck", "marker", "close"}
IsConfirmed(text) == text.batch \in confirmed /\ text.text = text.batch.inv

GroupingTypes ==
    /\ source \in SourceTexts /\ metadata \in Nat /\ mishaps \in Nat
    /\ DOMAIN folder = Stages
    /\ \A s \in Stages :
          /\ folder[s] = [state |-> folder[s].state, value |-> folder[s].value,
                          seal |-> folder[s].seal, inode |-> folder[s].inode]
          /\ folder[s].state \in DirectoryStates
    /\ command.at \in CommandSteps
    /\ command.at = "idle" => command = NoCommand
    /\ command.at # "idle" =>
          /\ command = [stage |-> command.stage, at |-> command.at, i |-> command.i,
                        expected |-> command.expected, seen |-> command.seen,
                        held |-> command.held, output |-> command.output]
          /\ command.stage \in Stages /\ command.i \in Nat \ {0}
          /\ command.seen \in SourceTexts

(* What stands in the directories that carry a seal.                       *)
GroupingSeals ==
    /\ Sealed("inventory") =>
          folder["inventory"].value \in SourceTexts /\ folder["inventory"].seal \in SourceTexts
    /\ Sealed("grouping") =>
          folder["grouping"].value \in Batches /\ folder["grouping"].seal \in Batches
    /\ Sealed("materials") => IsConfirmed(folder["materials"].seal)
    /\ Sealed("packages") => IsConfirmed(folder["packages"].seal)
    /\ confirmation \in confirmed \cup {Missing}

(* What a command knows at each of its steps.                              *)
CommandFacts ==
    /\ command.at \in {"read", "bind"} => command.expected \in SourceTexts
    /\ command.at = "list" /\ command.stage # "inventory" => command.expected \in SourceTexts
    /\ command.at = "list" => command.i = 1
    /\ command.at = "read" /\ command.stage # "inventory" =>
          \A j \in 1..(command.i - 1) :
              j \in 1..Len(SourcePaths) =>
                  command.seen[SourcePaths[j]] = command.expected[SourcePaths[j]]
    /\ command.at = "bind" /\ command.stage # "inventory" => command.seen = command.expected
    /\ command.stage = "packages" /\ command.at \in {"list", "read", "bind"} =>
          IsConfirmed(command.held.seal) /\ command.held.value = command.held.seal
    /\ command.at \in {"list", "read", "bind", "create"} => folder[command.stage].state = "absent"
    /\ command.at = "payload" => folder[command.stage].state = "created"
    /\ command.at \in {"recheck", "marker"} => folder[command.stage].state = "written"
    /\ command.at \in {"recheck", "close"} => command.stage = "packages"
    /\ command.at = "close" => folder["packages"].state = "complete"
    /\ command.at \in {"recheck", "marker", "close"} => folder[command.stage].seal = command.output
    /\ command.at \in {"create", "payload"} =>
          /\ command.stage = "inventory" => command.output \in SourceTexts
          /\ command.stage = "grouping" => command.output \in Batches
          /\ command.stage \in {"materials", "packages"} => IsConfirmed(command.output)

Half(s) == folder[s].state \in {"created", "written"}

GroupingIInv ==
    /\ GroupingTypes /\ GroupingSeals /\ CommandFacts /\ ReportIsTrue
    /\ \A s \in Staged : Half(s) => mishaps > 0 \/ command.stage = s

(* One directory is written.                                               *)
LEMMA FolderWrites ==
    ASSUME GroupingTypes, NEW s \in Stages, NEW new,
           new = [state |-> new.state, value |-> new.value, seal |-> new.seal, inode |-> new.inode],
           new.state \in DirectoryStates, folder' = [folder EXCEPT ![s] = new]
    PROVE  /\ DOMAIN folder' = Stages /\ folder'[s] = new
           /\ \A t \in Stages : t # s => folder'[t] = folder[t]
           /\ \A t \in Stages :
                 /\ folder'[t] = [state |-> folder'[t].state, value |-> folder'[t].value,
                                  seal |-> folder'[t].seal, inode |-> folder'[t].inode]
                 /\ folder'[t].state \in DirectoryStates
<1>1. DOMAIN folder = Stages
  BY DEF GroupingTypes
<1>2. /\ DOMAIN folder' = Stages /\ folder'[s] = new
      /\ \A t \in Stages : t # s => folder'[t] = folder[t]
  BY <1>1
<1>3. ASSUME NEW t \in Stages
      PROVE  /\ folder'[t] = [state |-> folder'[t].state, value |-> folder'[t].value,
                              seal |-> folder'[t].seal, inode |-> folder'[t].inode]
             /\ folder'[t].state \in DirectoryStates
  <2>1. CASE t = s
    BY <1>2, <2>1
  <2>2. CASE t # s
    BY <1>2, <2>2 DEF GroupingTypes
  <2>. QED BY <2>1, <2>2
<1>. QED BY <1>2, <1>3

LEMMA CommandMoves ==
    ASSUME GroupingTypes, command.at # "idle", NEW at \in CommandSteps, at # "idle", MoveTo(at)
    PROVE  /\ command'.at = at /\ command'.stage = command.stage /\ command'.i = command.i
           /\ command'.expected = command.expected /\ command'.seen = command.seen
           /\ command'.held = command.held /\ command'.output = command.output
           /\ command' = [stage |-> command'.stage, at |-> command'.at, i |-> command'.i,
                          expected |-> command'.expected, seen |-> command'.seen,
                          held |-> command'.held, output |-> command'.output]
           /\ command'.stage \in Stages /\ command'.i \in Nat \ {0} /\ command'.seen \in SourceTexts
<1>1. /\ command = [stage |-> command.stage, at |-> command.at, i |-> command.i,
                    expected |-> command.expected, seen |-> command.seen,
                    held |-> command.held, output |-> command.output]
      /\ command.stage \in Stages /\ command.i \in Nat \ {0} /\ command.seen \in SourceTexts
  BY DEF GroupingTypes
<1>2. PICK c : c = command
  OBVIOUS
<1>3. command' = [c EXCEPT !.at = at]
  BY <1>2 DEF MoveTo
<1>. QED BY <1>1, <1>2, <1>3

LEMMA IdleIsNoCommand == NoCommand.at = "idle" /\ NoCommand.stage = Missing /\ Missing \notin Stages
BY GroupingAssumption DEF NoCommand, Stages

(* A command ends; its output stays or is removed again.                   *)
LEMMA CommandEnds ==
    ASSUME GroupingIInv, command.at # "idle", command' = NoCommand, KeepFiles, UNCHANGED reported,
           mishaps' \in {mishaps, mishaps + 1},
           \/ UNCHANGED folder
           \/ folder' = [folder EXCEPT ![command.stage] = NoOutput],
           \A s \in Staged : Half(s)' => mishaps' > 0
    PROVE  GroupingIInv'
<1>0. GroupingTypes /\ GroupingSeals /\ CommandFacts /\ ReportIsTrue /\ command.stage \in Stages
  BY DEF GroupingIInv, GroupingTypes
<1>1. command'.at = "idle" /\ command'.stage = Missing /\ Missing \notin Stages
  BY IdleIsNoCommand
<1>2. UNCHANGED <<source, metadata, confirmation, candidates, confirmed>>
  BY DEF KeepFiles
<1>3. /\ NoOutput = [state |-> NoOutput.state, value |-> NoOutput.value,
                     seal |-> NoOutput.seal, inode |-> NoOutput.inode]
      /\ NoOutput.state = "absent" /\ NoOutput.state \in DirectoryStates
  BY DEF NoOutput, DirectoryStates
<1>4. /\ DOMAIN folder' = Stages
      /\ \A t \in Stages : folder'[t] = folder[t] \/ folder'[t].state = "absent"
      /\ \A t \in Stages :
            /\ folder'[t] = [state |-> folder'[t].state, value |-> folder'[t].value,
                             seal |-> folder'[t].seal, inode |-> folder'[t].inode]
            /\ folder'[t].state \in DirectoryStates
  <2>1. CASE UNCHANGED folder
    BY <1>0, <2>1 DEF GroupingTypes
  <2>2. CASE folder' = [folder EXCEPT ![command.stage] = NoOutput]
    BY <1>0, <1>3, <2>2, FolderWrites
  <2>. QED BY <2>1, <2>2
<1>5. mishaps \in Nat
  BY <1>0 DEF GroupingTypes
<1>6. GroupingTypes'
  BY <1>0, <1>1, <1>2, <1>4, <1>5 DEF GroupingTypes, CommandSteps
<1>7. GroupingSeals'
  BY <1>0, <1>2, <1>4 DEF GroupingSeals, Sealed, IsConfirmed, Stages
<1>8. CommandFacts'
  BY <1>1 DEF CommandFacts
<1>9. ReportIsTrue'
  BY <1>0 DEF ReportIsTrue
<1>. QED BY <1>6, <1>7, <1>8, <1>9 DEF GroupingIInv

LEMMA AbandonKeeps ==
    ASSUME GroupingIInv, command.at # "idle", Abandon, KeepFiles, UNCHANGED reported,
           mishaps' \in {mishaps, mishaps + 1}
    PROVE  GroupingIInv'
<1>0. GroupingTypes /\ CommandFacts /\ mishaps \in Nat /\ command.stage \in Stages
  BY DEF GroupingIInv, GroupingTypes
<1>1. command' = NoCommand
  BY DEF Abandon, Leave
<1>2. CASE /\ command.stage \in Staged /\ command.at \in {"payload", "marker", "recheck", "close"}
           /\ folder' = [folder EXCEPT ![command.stage] = NoOutput]
  <2>1. folder'[command.stage] = NoOutput /\ \A t \in Stages : t # command.stage => folder'[t] = folder[t]
    BY <1>0, <1>2 DEF GroupingTypes
  <2>2. ASSUME NEW s \in Staged, Half(s)'
        PROVE  mishaps' > 0
    <3>1. s # command.stage
      BY <2>1, <2>2 DEF Half, NoOutput
    <3>2. s \in Stages /\ folder'[s] = folder[s]
      BY <2>1, <3>1 DEF Staged, Stages
    <3>3. mishaps > 0
      BY <2>2, <3>1, <3>2 DEF GroupingIInv, Half
    <3>. QED BY <1>0, <3>3
  <2>. QED BY <1>1, <1>2, <2>2, CommandEnds
<1>3. CASE /\ ~(command.stage \in Staged /\ command.at \in {"payload", "marker", "recheck", "close"})
           /\ UNCHANGED folder
  <2>1. ASSUME NEW s \in Staged, Half(s)'
        PROVE  mishaps' > 0
    <3>1. Half(s)
      BY <1>3, <2>1 DEF Half
    <3>2. s # command.stage
      <4>1. ASSUME s = command.stage PROVE FALSE
        <5>1. command.at \in {"list", "read", "bind", "create"}
          BY <1>0, <1>3, <4>1 DEF GroupingTypes, CommandSteps
        <5>2. folder[command.stage].state = "absent"
          BY <1>0, <5>1 DEF CommandFacts
        <5>. QED BY <3>1, <4>1, <5>2 DEF Half
      <4>. QED BY <4>1
    <3>3. mishaps > 0
      BY <3>1, <3>2 DEF GroupingIInv
    <3>. QED BY <1>0, <3>3
  <2>. QED BY <1>1, <1>3, <2>1, CommandEnds
<1>. QED BY <1>2, <1>3 DEF Abandon

LEMMA FaultKeeps == GroupingIInv /\ Fault => GroupingIInv'
<1>. SUFFICES ASSUME GroupingIInv, Fault PROVE GroupingIInv'
  OBVIOUS
<1>0. /\ command # NoCommand /\ mishaps' = mishaps + 1 /\ UNCHANGED reported /\ KeepFiles
      /\ mishaps \in Nat /\ command.at # "idle"
  BY DEF Fault, GroupingIInv, GroupingTypes
<1>1. CASE Leave /\ UNCHANGED folder
  <2>1. mishaps' > 0
    BY <1>0
  <2>. QED BY <1>0, <1>1, <2>1, CommandEnds DEF Leave
<1>2. CASE Abandon
  BY <1>0, <1>2, AbandonKeeps
<1>. QED BY <1>1, <1>2 DEF Fault

(* A command goes on without touching a directory.                         *)
LEMMA CommandGoesOn ==
    ASSUME GroupingIInv, KeepFiles, UNCHANGED <<folder, reported, mishaps>>, CommandFacts',
           command'.at \in CommandSteps, command'.at # "idle",
           command' = [stage |-> command'.stage, at |-> command'.at, i |-> command'.i,
                       expected |-> command'.expected, seen |-> command'.seen,
                       held |-> command'.held, output |-> command'.output],
           command'.stage \in Stages, command'.i \in Nat \ {0}, command'.seen \in SourceTexts,
           command.at = "idle" \/ command'.stage = command.stage
    PROVE  GroupingIInv'
<1>0. GroupingTypes /\ GroupingSeals /\ ReportIsTrue
      /\ UNCHANGED <<source, metadata, confirmation, candidates, confirmed>>
  BY DEF GroupingIInv, KeepFiles
<1>1. GroupingTypes'
  BY <1>0 DEF GroupingTypes
<1>2. GroupingSeals' /\ ReportIsTrue'
  BY <1>0 DEF GroupingSeals, Sealed, IsConfirmed, ReportIsTrue
<1>3. ASSUME NEW s \in Staged, Half(s)'
      PROVE  mishaps' > 0 \/ command'.stage = s
  <2>1. Half(s)
    BY <1>3 DEF Half
  <2>2. mishaps > 0 \/ command.stage = s
    BY <2>1 DEF GroupingIInv
  <2>3. command.at = "idle" => command.stage # s
    BY <1>0, IdleIsNoCommand DEF GroupingTypes, Staged, Stages
  <2>. QED BY <2>2, <2>3
<1>. QED BY <1>1, <1>2, <1>3 DEF GroupingIInv

LEMMA StartKeeps ==
    ASSUME GroupingIInv, NEW s \in Stages, Start(s)
    PROVE  GroupingIInv'
<1>0. /\ GroupingTypes /\ GroupingSeals /\ command = NoCommand /\ folder[s].state = "absent"
      /\ command.at = "idle"
      /\ KeepFiles /\ UNCHANGED <<folder, reported, mishaps>>
  BY IdleIsNoCommand DEF Start, GroupingIInv
<1>1. PICK expected, seen, held :
          /\ expected = (IF s = "inventory" THEN Missing ELSE folder["inventory"].value)
          /\ seen = [p \in Files |-> Missing]
          /\ held = (IF s = "packages" THEN folder["materials"] ELSE NoOutput)
  OBVIOUS
<1>2. command' = [stage |-> s, at |-> "list", i |-> 1, expected |-> expected, seen |-> seen,
                  held |-> held, output |-> Missing]
  BY <1>1 DEF Start
<1>3. /\ command'.at = "list" /\ command'.stage = s /\ command'.i = 1 /\ command'.expected = expected
      /\ command'.held = held /\ command'.seen = seen
      /\ command' = [stage |-> command'.stage, at |-> command'.at, i |-> command'.i,
                     expected |-> command'.expected, seen |-> command'.seen,
                     held |-> command'.held, output |-> command'.output]
  BY <1>2
<1>4. seen \in SourceTexts
  BY <1>1 DEF SourceTexts
<1>5. s # "inventory" => expected \in SourceTexts
  BY <1>0, <1>1 DEF Start, Intact, GroupingSeals, Sealed
<1>6. s = "packages" => IsConfirmed(held.seal)' /\ held.value = held.seal
  <2>1. SUFFICES ASSUME s = "packages"
                 PROVE  IsConfirmed(folder["materials"].seal) /\ folder["materials"].value = folder["materials"].seal
    BY <1>0, <1>1 DEF IsConfirmed, KeepFiles
  <2>. QED BY <1>0, <2>1 DEF Start, Intact, GroupingSeals, Sealed
<1>7. CommandFacts'
  BY <1>0, <1>3, <1>5, <1>6 DEF CommandFacts, IsConfirmed
<1>. QED BY <1>0, <1>3, <1>4, <1>7, CommandGoesOn DEF CommandSteps

LEMMA ListKeeps == GroupingIInv /\ List => GroupingIInv'
<1>. SUFFICES ASSUME GroupingIInv, List PROVE GroupingIInv'
  OBVIOUS
<1>0. /\ GroupingTypes /\ CommandFacts /\ command.at = "list" /\ command.i = 1
      /\ KeepFiles /\ UNCHANGED <<reported, mishaps>>
      /\ folder[command.stage].state = "absent"
  BY DEF List, GroupingIInv, CommandFacts
<1>1. CASE Abandon
  BY <1>0, <1>1, AbandonKeeps
<1>2. CASE command.stage = "inventory" /\ UNCHANGED folder
           /\ command' = [command EXCEPT !.at = "read", !.expected = [p \in Files |-> source[p]]]
  <2>1. PICK expected : expected = [p \in Files |-> source[p]]
    OBVIOUS
  <2>2. expected \in SourceTexts
    BY <1>0, <2>1 DEF GroupingTypes, SourceTexts
  <2>3. /\ command = [stage |-> command.stage, at |-> command.at, i |-> command.i,
                      expected |-> command.expected, seen |-> command.seen,
                      held |-> command.held, output |-> command.output]
        /\ command.stage \in Stages /\ command.i \in Nat \ {0} /\ command.seen \in SourceTexts
    BY <1>0 DEF GroupingTypes
  <2>4. PICK c : c = command
    OBVIOUS
  <2>5. command' = [c EXCEPT !.at = "read", !.expected = expected]
    BY <1>2, <2>1, <2>4
  <2>6. /\ command'.at = "read" /\ command'.stage = command.stage /\ command'.i = command.i
        /\ command'.expected = expected /\ command'.seen = command.seen /\ command'.held = command.held
        /\ command' = [stage |-> command'.stage, at |-> command'.at, i |-> command'.i,
                       expected |-> command'.expected, seen |-> command'.seen,
                       held |-> command'.held, output |-> command'.output]
    BY <2>3, <2>4, <2>5
  <2>7. CommandFacts'
    BY <1>0, <1>2, <2>2, <2>6 DEF CommandFacts
  <2>. QED BY <1>0, <1>2, <2>3, <2>6, <2>7, CommandGoesOn DEF CommandSteps
<1>3. CASE command.stage # "inventory" /\ MoveTo("read") /\ UNCHANGED folder
  <2>1. command.expected \in SourceTexts
    BY <1>0, <1>3 DEF CommandFacts
  <2>2. command.stage = "packages" => IsConfirmed(command.held.seal) /\ command.held.value = command.held.seal
    BY <1>0 DEF CommandFacts
  <2>3. "read" \in CommandSteps /\ (\A j \in 1..(1 - 1) : FALSE)
    BY DEF CommandSteps
  <2>4. /\ command'.at = "read" /\ command'.stage = command.stage /\ command'.i = 1
        /\ command'.expected = command.expected /\ command'.held = command.held
    BY <1>0, <1>3, <2>3, CommandMoves
  <2>5. CommandFacts'
    BY <1>0, <1>3, <2>1, <2>2, <2>3, <2>4 DEF CommandFacts, IsConfirmed, KeepFiles
  <2>. QED BY <1>0, <1>3, <2>3, <2>5, CommandMoves, CommandGoesOn
<1>. QED BY <1>1, <1>2, <1>3 DEF List

LEMMA ReadKeeps == GroupingIInv /\ Read => GroupingIInv'
<1>. SUFFICES ASSUME GroupingIInv, Read PROVE GroupingIInv'
  OBVIOUS
<1>0. /\ GroupingTypes /\ CommandFacts /\ command.at = "read" /\ command.i \in DOMAIN SourcePaths
      /\ KeepFiles /\ UNCHANGED <<reported, mishaps>>
      /\ folder[command.stage].state = "absent" /\ command.expected \in SourceTexts
  BY DEF Read, GroupingIInv, CommandFacts
<1>1. CASE Abandon
  BY <1>0, <1>1, AbandonKeeps
<1>2. PICK p : p = SourcePaths[command.i]
  OBVIOUS
<1>3. p \in Files
  BY <1>0, <1>2 DEF Files
<1>4. ASSUME NEW text \in {source[p], Missing}, UNCHANGED folder,
             command.stage # "inventory" => text = source[p] /\ source[p] = command.expected[p],
             command' = [command EXCEPT !.i = @ + 1,
                            !.seen[p] = IF p \in Names(command.expected) THEN text ELSE Missing]
      PROVE  GroupingIInv'
  <2>1. PICK c, t, seen :
            /\ c = command /\ t = (IF p \in Names(command.expected) THEN text ELSE Missing)
            /\ seen = [command.seen EXCEPT ![p] = t]
    OBVIOUS
  <2>2. /\ command = [stage |-> command.stage, at |-> command.at, i |-> command.i,
                      expected |-> command.expected, seen |-> command.seen,
                      held |-> command.held, output |-> command.output]
        /\ command.stage \in Stages /\ command.i \in Nat \ {0} /\ command.seen \in SourceTexts
        /\ source \in SourceTexts
    BY <1>0 DEF GroupingTypes
  <2>3. command' = [c EXCEPT !.i = @ + 1, !.seen = seen]
    BY <1>4, <2>1, <2>2
  <2>4. /\ command'.at = "read" /\ command'.stage = command.stage /\ command'.i = command.i + 1
        /\ command'.expected = command.expected /\ command'.seen = seen /\ command'.held = command.held
        /\ command' = [stage |-> command'.stage, at |-> command'.at, i |-> command'.i,
                       expected |-> command'.expected, seen |-> command'.seen,
                       held |-> command'.held, output |-> command'.output]
    BY <1>0, <2>1, <2>2, <2>3
  <2>5. /\ t \in Texts \cup {Missing} /\ seen \in SourceTexts /\ seen[p] = t
        /\ \A q \in Files : q # p => seen[q] = command.seen[q]
    BY <1>3, <1>4, <2>1, <2>2 DEF SourceTexts
  <2>6. command.stage # "inventory" => t = command.expected[p]
    BY <1>3, <1>4, <2>1 DEF Names
  <2>7. command.stage # "inventory" =>
            \A j \in 1..((command.i + 1) - 1) :
                j \in 1..Len(SourcePaths) => seen[SourcePaths[j]] = command.expected[SourcePaths[j]]
    <3>1. SUFFICES ASSUME command.stage # "inventory", NEW j \in 1..((command.i + 1) - 1),
                          j \in 1..Len(SourcePaths)
                   PROVE  seen[SourcePaths[j]] = command.expected[SourcePaths[j]]
      OBVIOUS
    <3>2. PICK q : q = SourcePaths[j]
      OBVIOUS
    <3>3. q \in Files
      BY <3>1, <3>2, GroupingAssumption DEF Files
    <3>4. CASE q = p
      BY <2>5, <2>6, <3>1, <3>2, <3>4
    <3>5. CASE q # p
      <4>1. j \in 1..(command.i - 1)
        BY <1>2, <2>2, <3>1, <3>2, <3>5
      <4>2. command.seen[q] = command.expected[q]
        BY <1>0, <3>1, <3>2, <4>1 DEF CommandFacts
      <4>. QED BY <2>5, <3>2, <3>3, <3>5, <4>2
    <3>. QED BY <3>4, <3>5
  <2>8. command.stage = "packages" => IsConfirmed(command.held.seal) /\ command.held.value = command.held.seal
    BY <1>0 DEF CommandFacts
  <2>9. CommandFacts'
    <3>1. command'.stage # "inventory" =>
              \A j \in 1..(command'.i - 1) :
                  j \in 1..Len(SourcePaths) =>
                      command'.seen[SourcePaths[j]] = command'.expected[SourcePaths[j]]
      BY <2>4, <2>7
    <3>2. command'.stage = "packages" =>
              IsConfirmed(command.held.seal)' /\ command'.held.value = command'.held.seal
      BY <1>0, <2>4, <2>8 DEF IsConfirmed, KeepFiles
    <3>3. folder'[command'.stage].state = "absent" /\ command'.expected \in SourceTexts
      BY <1>0, <1>4, <2>4
    <3>. QED BY <2>4, <3>1, <3>2, <3>3 DEF CommandFacts
  <2>. QED BY <1>0, <1>4, <2>2, <2>4, <2>5, <2>9, CommandGoesOn DEF CommandSteps
<1>5. CASE /\ ~(command.stage # "inventory" /\ source[p] # command.expected[p])
           /\ UNCHANGED folder
           /\ \E text \in IF command.stage = "inventory" THEN {source[p], Missing} ELSE {source[p]} :
                  command' = [command EXCEPT !.i = @ + 1,
                     !.seen[p] = IF p \in Names(command.expected) THEN text ELSE Missing]
  BY <1>4, <1>5
<1>. QED BY <1>1, <1>2, <1>5 DEF Read

LEMMA RelistKeeps == GroupingIInv /\ Relist => GroupingIInv'
<1>. SUFFICES ASSUME GroupingIInv, Relist PROVE GroupingIInv'
  OBVIOUS
<1>0. /\ GroupingTypes /\ CommandFacts /\ command.at = "read" /\ command.i \notin DOMAIN SourcePaths
      /\ KeepFiles /\ UNCHANGED <<reported, mishaps>>
      /\ folder[command.stage].state = "absent" /\ command.expected \in SourceTexts
      /\ command.i \in Nat \ {0} /\ command.seen \in SourceTexts
  BY DEF Relist, GroupingIInv, CommandFacts, GroupingTypes
<1>1. CASE Abandon
  BY <1>0, <1>1, AbandonKeeps
<1>2. CASE MoveTo("bind") /\ UNCHANGED folder
  <2>1. command.stage # "inventory" => command.seen = command.expected
    <3>1. SUFFICES ASSUME command.stage # "inventory", NEW p \in Files
                   PROVE  command.seen[p] = command.expected[p]
      BY <1>0 DEF SourceTexts
    <3>2. PICK j \in DOMAIN SourcePaths : p = SourcePaths[j]
      BY DEF Files
    <3>3. j \in 1..Len(SourcePaths) /\ Len(SourcePaths) \in Nat
      BY <3>2, GroupingAssumption
    <3>4. j \in 1..(command.i - 1)
      BY <1>0, <3>3, GroupingAssumption
    <3>. QED BY <1>0, <3>1, <3>2, <3>3, <3>4 DEF CommandFacts
  <2>2. command.stage = "packages" => IsConfirmed(command.held.seal) /\ command.held.value = command.held.seal
    BY <1>0 DEF CommandFacts
  <2>3. "bind" \in CommandSteps
    BY DEF CommandSteps
  <2>4. /\ command'.at = "bind" /\ command'.stage = command.stage /\ command'.seen = command.seen
        /\ command'.expected = command.expected /\ command'.held = command.held
    BY <1>0, <1>2, <2>3, CommandMoves
  <2>5. CommandFacts'
    BY <1>0, <1>2, <2>1, <2>2, <2>4 DEF CommandFacts, IsConfirmed, KeepFiles
  <2>. QED BY <1>0, <1>2, <2>3, <2>5, CommandMoves, CommandGoesOn
<1>. QED BY <1>1, <1>2 DEF Relist

(* What is about to be written rests on what was confirmed.                *)
LEMMA OutputsRest ==
    ASSUME GroupingIInv, command.at = "bind", NEW output \in Outputs
    PROVE  /\ command.stage = "inventory" => output \in SourceTexts
           /\ command.stage = "grouping" => output \in Batches
           /\ command.stage \in {"materials", "packages"} => IsConfirmed(output)
<1>0. /\ GroupingTypes /\ GroupingSeals /\ CommandFacts /\ command.expected \in SourceTexts
      /\ command.seen \in SourceTexts /\ metadata \in Nat
  BY DEF GroupingIInv, GroupingTypes, CommandFacts
<1>1. command.stage = "inventory" => output \in SourceTexts
  BY <1>0 DEF Outputs
<1>2. command.stage = "grouping" => output \in Batches
  BY <1>0 DEF Outputs, Batch, Batches
<1>3. GroupingHolds(command.expected) /\ ConfirmationHolds =>
          /\ folder["grouping"].value \in confirmed
          /\ folder["grouping"].value.inv = command.expected
  <2>1. SUFFICES ASSUME GroupingHolds(command.expected), ConfirmationHolds
                 PROVE  folder["grouping"].value \in confirmed
    BY DEF GroupingHolds
  <2>2. folder["grouping"].value \in Batches
    BY <1>0, <2>1 DEF GroupingHolds, Intact, GroupingSeals, Sealed
  <2>3. folder["grouping"].value # Missing
    BY <2>2, GroupingAssumption DEF Batches, SourceTexts, Files
  <2>. QED BY <1>0, <2>1, <2>3 DEF GroupingSeals, ConfirmationHolds
<1>4. command.stage = "materials" => IsConfirmed(output)
  <2>1. SUFFICES ASSUME command.stage = "materials" PROVE IsConfirmed(output)
    OBVIOUS
  <2>2. GroupingHolds(command.expected) /\ ConfirmationHolds
        /\ output = [batch |-> folder["grouping"].value, text |-> command.seen]
    BY <2>1 DEF Outputs
  <2>3. command.seen = command.expected
    BY <1>0, <2>1 DEF CommandFacts
  <2>4. output.batch = folder["grouping"].value /\ output.text = command.seen
    BY <2>2
  <2>. QED BY <1>3, <2>2, <2>3, <2>4 DEF IsConfirmed
<1>5. command.stage = "packages" => IsConfirmed(output)
  <2>1. SUFFICES ASSUME command.stage = "packages" PROVE IsConfirmed(output)
    OBVIOUS
  <2>2. MayPackage /\ output = [batch |-> command.held.value.batch, text |-> candidates]
    BY <2>1 DEF Outputs
  <2>3. IsConfirmed(command.held.seal) /\ command.held.value = command.held.seal
    BY <1>0, <2>1 DEF CommandFacts
  <2>4. candidates = command.held.value.text
    BY <2>2 DEF MayPackage
  <2>5. output.batch = command.held.value.batch /\ output.text = candidates
    BY <2>2
  <2>. QED BY <2>3, <2>4, <2>5 DEF IsConfirmed
<1>. QED BY <1>1, <1>2, <1>4, <1>5

LEMMA BindKeeps == GroupingIInv /\ Bind => GroupingIInv'
<1>. SUFFICES ASSUME GroupingIInv, Bind PROVE GroupingIInv'
  OBVIOUS
<1>0. /\ GroupingTypes /\ CommandFacts /\ command.at = "bind"
      /\ KeepFiles /\ UNCHANGED <<reported, mishaps>>
      /\ folder[command.stage].state = "absent"
  BY DEF Bind, GroupingIInv, CommandFacts
<1>1. CASE Abandon
  BY <1>0, <1>1, AbandonKeeps
<1>2. ASSUME NEW output \in Outputs, UNCHANGED folder,
             command' = [command EXCEPT !.at = "create", !.output = output]
      PROVE  GroupingIInv'
  <2>1. /\ command = [stage |-> command.stage, at |-> command.at, i |-> command.i,
                      expected |-> command.expected, seen |-> command.seen,
                      held |-> command.held, output |-> command.output]
        /\ command.stage \in Stages /\ command.i \in Nat \ {0} /\ command.seen \in SourceTexts
    BY <1>0 DEF GroupingTypes
  <2>2. PICK c : c = command
    OBVIOUS
  <2>3. command' = [c EXCEPT !.at = "create", !.output = output]
    BY <1>2, <2>2
  <2>4. /\ command'.at = "create" /\ command'.stage = command.stage /\ command'.i = command.i
        /\ command'.seen = command.seen /\ command'.output = output
        /\ command' = [stage |-> command'.stage, at |-> command'.at, i |-> command'.i,
                       expected |-> command'.expected, seen |-> command'.seen,
                       held |-> command'.held, output |-> command'.output]
    BY <2>1, <2>2, <2>3
  <2>5. /\ command.stage = "inventory" => output \in SourceTexts
        /\ command.stage = "grouping" => output \in Batches
        /\ command.stage \in {"materials", "packages"} => IsConfirmed(output)
    BY <1>0, OutputsRest
  <2>6. CommandFacts'
    BY <1>0, <1>2, <2>4, <2>5 DEF CommandFacts, IsConfirmed, KeepFiles
  <2>. QED BY <1>0, <1>2, <2>1, <2>4, <2>6, CommandGoesOn DEF CommandSteps
<1>. QED BY <1>1, <1>2 DEF Bind

(* A command writes in its own directory.                                  *)
LEMMA OutputKeeps ==
    ASSUME GroupingIInv, command.at # "idle", KeepFiles, UNCHANGED mishaps,
           NEW new,
           new = [state |-> new.state, value |-> new.value, seal |-> new.seal, inode |-> new.inode],
           new.state \in DirectoryStates,
           folder' = [folder EXCEPT ![command.stage] = new],
           new.state \in {"written", "complete", "blocked"} =>
               /\ command.stage = "inventory" => new.value \in SourceTexts /\ new.seal \in SourceTexts
               /\ command.stage = "grouping" => new.value \in Batches /\ new.seal \in Batches
               /\ command.stage \in {"materials", "packages"} => IsConfirmed(new.seal)
    PROVE  /\ GroupingSeals' /\ UNCHANGED <<source, metadata, mishaps>>
           /\ \A s \in Staged : s # command.stage /\ Half(s)' => mishaps' > 0
<1>0. /\ GroupingTypes /\ GroupingSeals /\ command.stage \in Stages
      /\ UNCHANGED <<source, metadata, confirmation, candidates, confirmed>>
  BY DEF GroupingIInv, GroupingTypes, KeepFiles
<1>1. /\ folder'[command.stage] = new
      /\ \A t \in Stages : t # command.stage => folder'[t] = folder[t]
  BY <1>0, FolderWrites
<1>2. /\ \A e : IsConfirmed(e)' <=> IsConfirmed(e)
      /\ confirmation' \in confirmed' \cup {Missing}
  BY <1>0 DEF IsConfirmed, GroupingSeals
<1>3. /\ Sealed("inventory")' =>
            folder'["inventory"].value \in SourceTexts /\ folder'["inventory"].seal \in SourceTexts
      /\ Sealed("grouping")' =>
            folder'["grouping"].value \in Batches /\ folder'["grouping"].seal \in Batches
      /\ Sealed("materials")' => IsConfirmed(folder'["materials"].seal)
      /\ Sealed("packages")' => IsConfirmed(folder'["packages"].seal)
  BY <1>0, <1>1 DEF GroupingSeals, Sealed, Stages
<1>4. GroupingSeals'
  BY <1>2, <1>3 DEF GroupingSeals, IsConfirmed
<1>5. ASSUME NEW s \in Staged, s # command.stage, Half(s)' PROVE mishaps' > 0
  <2>1. s \in Stages /\ folder'[s] = folder[s]
    BY <1>1, <1>5 DEF Staged, Stages
  <2>2. Half(s)
    BY <1>5, <2>1 DEF Half
  <2>. QED BY <1>5, <2>2 DEF GroupingIInv
<1>. QED BY <1>0, <1>4, <1>5

LEMMA MakeDirectoryKeeps == GroupingIInv /\ MakeDirectory => GroupingIInv'
<1>. SUFFICES ASSUME GroupingIInv, MakeDirectory PROVE GroupingIInv'
  OBVIOUS
<1>0. /\ GroupingTypes /\ CommandFacts /\ ReportIsTrue /\ command.at = "create" /\ MoveTo("payload")
      /\ KeepFiles /\ UNCHANGED <<reported, mishaps>> /\ command.stage \in Stages
      /\ folder' = [folder EXCEPT ![command.stage].state = "created"]
  BY DEF MakeDirectory, GroupingIInv, GroupingTypes
<1>1. PICK new : new = [folder[command.stage] EXCEPT !.state = "created"]
  OBVIOUS
<1>2. /\ folder' = [folder EXCEPT ![command.stage] = new] /\ new.state = "created"
      /\ new = [state |-> new.state, value |-> new.value, seal |-> new.seal, inode |-> new.inode]
  BY <1>0, <1>1 DEF GroupingTypes
<1>3. new.state \in DirectoryStates /\ "payload" \in CommandSteps
  BY <1>2 DEF DirectoryStates, CommandSteps
<1>4. /\ GroupingSeals' /\ UNCHANGED <<source, metadata, mishaps>>
      /\ \A s \in Staged : s # command.stage /\ Half(s)' => mishaps' > 0
  BY <1>0, <1>2, <1>3, OutputKeeps
<1>5. /\ command'.at = "payload" /\ command'.stage = command.stage /\ command'.output = command.output
      /\ command' = [stage |-> command'.stage, at |-> command'.at, i |-> command'.i,
                     expected |-> command'.expected, seen |-> command'.seen,
                     held |-> command'.held, output |-> command'.output]
      /\ command'.stage \in Stages /\ command'.i \in Nat \ {0} /\ command'.seen \in SourceTexts
  BY <1>0, <1>3, CommandMoves
<1>6. GroupingTypes'
  <2>1. /\ DOMAIN folder' = Stages
        /\ \A t \in Stages :
              /\ folder'[t] = [state |-> folder'[t].state, value |-> folder'[t].value,
                               seal |-> folder'[t].seal, inode |-> folder'[t].inode]
              /\ folder'[t].state \in DirectoryStates
    BY <1>0, <1>2, <1>3, FolderWrites
  <2>. QED BY <1>0, <1>3, <1>4, <1>5, <2>1 DEF GroupingTypes
<1>7. folder'[command.stage] = new
  BY <1>0, <1>2, <1>3, FolderWrites
<1>8. CommandFacts'
  BY <1>0, <1>2, <1>5, <1>7 DEF CommandFacts, IsConfirmed, KeepFiles
<1>9. ReportIsTrue'
  BY <1>0 DEF ReportIsTrue
<1>. QED BY <1>4, <1>5, <1>6, <1>8, <1>9 DEF GroupingIInv

LEMMA PayloadKeeps == GroupingIInv /\ Payload => GroupingIInv'
<1>. SUFFICES ASSUME GroupingIInv, Payload PROVE GroupingIInv'
  OBVIOUS
<1>0. /\ GroupingTypes /\ CommandFacts /\ ReportIsTrue /\ command.at = "payload" /\ Write("written")
      /\ KeepFiles /\ UNCHANGED <<reported, mishaps>> /\ command.stage \in Stages
  BY DEF Payload, GroupingIInv, GroupingTypes
<1>1. PICK at \in {"recheck", "marker"} :
          MoveTo(at) /\ (at = "recheck" => command.stage = "packages")
  BY DEF Payload
<1>2. PICK new : new = [state |-> "written", value |-> command.output, seal |-> command.output,
                        inode |-> folder[command.stage].inode]
  OBVIOUS
<1>3. /\ folder' = [folder EXCEPT ![command.stage] = new] /\ new.state = "written"
      /\ new.value = command.output /\ new.seal = command.output
      /\ new = [state |-> new.state, value |-> new.value, seal |-> new.seal, inode |-> new.inode]
  BY <1>0, <1>2 DEF GroupingTypes, Write
<1>4. "written" \in DirectoryStates /\ at \in CommandSteps
  BY <1>1 DEF DirectoryStates, CommandSteps
<1>5. /\ command.stage = "inventory" => command.output \in SourceTexts
      /\ command.stage = "grouping" => command.output \in Batches
      /\ command.stage \in {"materials", "packages"} => IsConfirmed(command.output)
  BY <1>0 DEF CommandFacts
<1>6. /\ GroupingSeals' /\ UNCHANGED <<source, metadata, mishaps>>
      /\ \A s \in Staged : s # command.stage /\ Half(s)' => mishaps' > 0
  BY <1>0, <1>3, <1>4, <1>5, OutputKeeps
<1>7. /\ command'.at = at /\ command'.stage = command.stage /\ command'.output = command.output
      /\ command' = [stage |-> command'.stage, at |-> command'.at, i |-> command'.i,
                     expected |-> command'.expected, seen |-> command'.seen,
                     held |-> command'.held, output |-> command'.output]
      /\ command'.stage \in Stages /\ command'.i \in Nat \ {0} /\ command'.seen \in SourceTexts
  BY <1>0, <1>1, <1>4, CommandMoves
<1>8. GroupingTypes'
  <2>1. /\ DOMAIN folder' = Stages
        /\ \A t \in Stages :
              /\ folder'[t] = [state |-> folder'[t].state, value |-> folder'[t].value,
                               seal |-> folder'[t].seal, inode |-> folder'[t].inode]
              /\ folder'[t].state \in DirectoryStates
    BY <1>0, <1>3, <1>4, FolderWrites
  <2>. QED BY <1>0, <1>1, <1>4, <1>6, <1>7, <2>1 DEF GroupingTypes
<1>9. folder'[command.stage] = new
  BY <1>0, <1>3, <1>4, FolderWrites
<1>10. CommandFacts'
  BY <1>0, <1>1, <1>3, <1>7, <1>9 DEF CommandFacts, IsConfirmed, KeepFiles
<1>11. ReportIsTrue'
  BY <1>0 DEF ReportIsTrue
<1>. QED BY <1>6, <1>7, <1>8, <1>10, <1>11 DEF GroupingIInv

LEMMA RecheckKeeps == GroupingIInv /\ Recheck => GroupingIInv'
<1>. SUFFICES ASSUME GroupingIInv, Recheck PROVE GroupingIInv'
  OBVIOUS
<1>0. /\ GroupingTypes /\ CommandFacts /\ command.at = "recheck" /\ command.stage = "packages"
      /\ KeepFiles /\ UNCHANGED <<reported, mishaps>>
  BY DEF Recheck, GroupingIInv, CommandFacts
<1>1. CASE Abandon
  BY <1>0, <1>1, AbandonKeeps
<1>2. CASE MoveTo("marker") /\ UNCHANGED folder
  <2>1. "marker" \in CommandSteps
    BY DEF CommandSteps
  <2>2. /\ command'.at = "marker" /\ command'.stage = command.stage /\ command'.output = command.output
    BY <1>0, <1>2, <2>1, CommandMoves
  <2>3. CommandFacts'
    BY <1>0, <1>2, <2>2 DEF CommandFacts
  <2>. QED BY <1>0, <1>2, <2>1, <2>3, CommandMoves, CommandGoesOn
<1>. QED BY <1>1, <1>2 DEF Recheck

LEMMA MarkerKeeps == GroupingIInv /\ Marker => GroupingIInv'
<1>. SUFFICES ASSUME GroupingIInv, Marker PROVE GroupingIInv'
  OBVIOUS
<1>0. /\ GroupingTypes /\ GroupingSeals /\ CommandFacts /\ ReportIsTrue /\ command.at = "marker"
      /\ KeepFiles /\ UNCHANGED <<reported, mishaps>> /\ command.stage \in Stages
      /\ folder[command.stage].state = "written" /\ folder[command.stage].seal = command.output
  BY DEF Marker, GroupingIInv, GroupingTypes, CommandFacts
<1>1. PICK state \in {"blocked", "complete"} :
          /\ folder' = [folder EXCEPT ![command.stage].state = state]
          /\ command.stage = "packages" => state = "complete"
  BY DEF Marker, Blocked
<1>2. PICK new : new = [folder[command.stage] EXCEPT !.state = state]
  OBVIOUS
<1>3. /\ folder' = [folder EXCEPT ![command.stage] = new] /\ new.state = state
      /\ new.value = folder[command.stage].value /\ new.seal = folder[command.stage].seal
      /\ new = [state |-> new.state, value |-> new.value, seal |-> new.seal, inode |-> new.inode]
  BY <1>0, <1>1, <1>2 DEF GroupingTypes
<1>4. new.state \in DirectoryStates /\ "close" \in CommandSteps
  BY <1>3 DEF DirectoryStates, CommandSteps
<1>5. /\ command.stage = "inventory" => new.value \in SourceTexts /\ new.seal \in SourceTexts
      /\ command.stage = "grouping" => new.value \in Batches /\ new.seal \in Batches
      /\ command.stage \in {"materials", "packages"} => IsConfirmed(new.seal)
  BY <1>0, <1>3 DEF GroupingSeals, Sealed
<1>6. /\ GroupingSeals' /\ UNCHANGED <<source, metadata, mishaps>>
      /\ \A s \in Staged : s # command.stage /\ Half(s)' => mishaps' > 0
  BY <1>0, <1>3, <1>4, <1>5, OutputKeeps
<1>7. /\ DOMAIN folder' = Stages /\ folder'[command.stage] = new
      /\ \A t \in Stages :
            /\ folder'[t] = [state |-> folder'[t].state, value |-> folder'[t].value,
                             seal |-> folder'[t].seal, inode |-> folder'[t].inode]
            /\ folder'[t].state \in DirectoryStates
  BY <1>0, <1>3, <1>4, FolderWrites
<1>8. ReportIsTrue'
  BY <1>0 DEF ReportIsTrue
<1>10. \A s \in Staged : Half(s)' => mishaps' > 0
  <2>1. ASSUME NEW s \in Staged, Half(s)' PROVE s # command.stage
    <3>1. ASSUME s = command.stage PROVE FALSE
      BY <1>3, <1>7, <2>1, <3>1 DEF Half
    <3>. QED BY <3>1
  <2>. QED BY <1>6, <2>1
<1>11. CASE command.stage = "packages" /\ MoveTo("close")
  <2>1. /\ command'.at = "close" /\ command'.stage = command.stage /\ command'.output = command.output
        /\ command' = [stage |-> command'.stage, at |-> command'.at, i |-> command'.i,
                       expected |-> command'.expected, seen |-> command'.seen,
                       held |-> command'.held, output |-> command'.output]
        /\ command'.stage \in Stages /\ command'.i \in Nat \ {0} /\ command'.seen \in SourceTexts
    BY <1>0, <1>4, <1>11, CommandMoves
  <2>2. GroupingTypes'
    BY <1>0, <1>4, <1>6, <1>7, <2>1 DEF GroupingTypes
  <2>3. CommandFacts'
    BY <1>0, <1>1, <1>3, <1>7, <1>11, <2>1 DEF CommandFacts
  <2>. QED BY <1>6, <1>8, <1>10, <2>2, <2>3 DEF GroupingIInv
<1>12. CASE Leave
  <2>1. command' = NoCommand /\ command'.at = "idle"
    BY <1>12, IdleIsNoCommand DEF Leave
  <2>2. GroupingTypes'
    BY <1>0, <1>6, <1>7, <2>1 DEF GroupingTypes, CommandSteps
  <2>3. CommandFacts'
    BY <2>1 DEF CommandFacts
  <2>. QED BY <1>6, <1>8, <1>10, <2>2, <2>3 DEF GroupingIInv
<1>. QED BY <1>11, <1>12 DEF Marker

LEMMA CloseKeeps == GroupingIInv /\ Close => GroupingIInv'
<1>. SUFFICES ASSUME GroupingIInv, Close PROVE GroupingIInv'
  OBVIOUS
<1>0. /\ GroupingTypes /\ GroupingSeals /\ CommandFacts /\ command.at = "close"
      /\ command.stage = "packages" /\ folder["packages"].state = "complete"
      /\ folder["packages"].seal = command.output /\ KeepFiles /\ UNCHANGED mishaps
  BY DEF Close, GroupingIInv, CommandFacts
<1>1. CASE Abandon /\ UNCHANGED reported
  BY <1>0, <1>1, AbandonKeeps
<1>2. CASE /\ folder["packages"].value = command.output
           /\ Leave /\ reported' = folder["packages"] /\ UNCHANGED folder
  <2>1. command' = NoCommand /\ command'.at = "idle"
    BY <1>2, IdleIsNoCommand DEF Leave
  <2>2. UNCHANGED <<source, metadata, confirmation, candidates, confirmed>>
    BY <1>0 DEF KeepFiles
  <2>3. GroupingTypes'
    BY <1>0, <1>2, <2>1, <2>2 DEF GroupingTypes, CommandSteps
  <2>4. GroupingSeals'
    BY <1>0, <1>2, <2>2 DEF GroupingSeals, Sealed, IsConfirmed
  <2>5. CommandFacts'
    BY <2>1 DEF CommandFacts
  <2>6. ReportIsTrue'
    BY <1>0, <1>2 DEF ReportIsTrue
  <2>7. ASSUME NEW s \in Staged, Half(s)' PROVE mishaps' > 0
    <3>1. Half(s)
      BY <1>2, <2>7 DEF Half
    <3>2. s # command.stage
      BY <1>0, <3>1 DEF Half
    <3>. QED BY <1>0, <3>1, <3>2 DEF GroupingIInv
  <2>. QED BY <2>3, <2>4, <2>5, <2>6, <2>7 DEF GroupingIInv
<1>. QED BY <1>1, <1>2 DEF Close

LEMMA ConfirmKeeps == GroupingIInv /\ (Confirm \/ PrepareCandidates) => GroupingIInv'
<1>. SUFFICES ASSUME GroupingIInv, Confirm \/ PrepareCandidates PROVE GroupingIInv'
  OBVIOUS
<1>0. /\ GroupingTypes /\ GroupingSeals /\ CommandFacts /\ ReportIsTrue
      /\ UNCHANGED <<source, metadata, folder, command, reported, mishaps>>
      /\ confirmed \subseteq confirmed'
  BY DEF GroupingIInv, Confirm, PrepareCandidates
<1>1. confirmation' \in confirmed' \cup {Missing}
  BY <1>0 DEF Confirm, PrepareCandidates, GroupingSeals
<1>2. \A e : IsConfirmed(e) => IsConfirmed(e)'
  BY <1>0 DEF IsConfirmed
<1>3. GroupingTypes' /\ ReportIsTrue'
  BY <1>0 DEF GroupingTypes, ReportIsTrue
<1>4. GroupingSeals'
  BY <1>0, <1>1 DEF GroupingSeals, Sealed, IsConfirmed
<1>5. CommandFacts'
  BY <1>0 DEF CommandFacts, IsConfirmed
<1>6. ASSUME NEW s \in Staged, Half(s)' PROVE mishaps' > 0 \/ command'.stage = s
  BY <1>0, <1>6 DEF GroupingIInv, Half
<1>. QED BY <1>3, <1>4, <1>5, <1>6 DEF GroupingIInv

(* An edit by hand: what a directory holds, never its seal or its state.   *)
LEMMA HandsKeep ==
    ASSUME GroupingIInv, UNCHANGED <<command, confirmed, reported, mishaps, confirmation>>,
           source' \in SourceTexts, metadata' \in Nat,
           \/ UNCHANGED folder
           \/ \E s \in Stages \ {"inventory"} : \E new :
                 /\ new = [state |-> folder[s].state, value |-> new.value,
                           seal |-> folder[s].seal, inode |-> new.inode]
                 /\ s = "grouping" => new.value \in Batches
                 /\ folder' = [folder EXCEPT ![s] = new]
    PROVE  GroupingIInv'
<1>0. GroupingTypes /\ GroupingSeals /\ CommandFacts /\ ReportIsTrue
  BY DEF GroupingIInv
<1>1. /\ DOMAIN folder' = Stages
      /\ folder'["inventory"] = folder["inventory"]
      /\ \A s \in Stages :
            /\ folder'[s] = [state |-> folder'[s].state, value |-> folder'[s].value,
                             seal |-> folder'[s].seal, inode |-> folder'[s].inode]
            /\ folder'[s].state = folder[s].state /\ folder'[s].seal = folder[s].seal
      /\ folder'["grouping"].value = folder["grouping"].value \/ folder'["grouping"].value \in Batches
  <2>1. CASE UNCHANGED folder
    BY <1>0, <2>1 DEF GroupingTypes
  <2>2. CASE ~UNCHANGED folder
    <3>0. PICK s \in Stages \ {"inventory"} : \E new :
                 /\ new = [state |-> folder[s].state, value |-> new.value,
                           seal |-> folder[s].seal, inode |-> new.inode]
                 /\ s = "grouping" => new.value \in Batches
                 /\ folder' = [folder EXCEPT ![s] = new]
      BY <2>2
    <3>1. PICK new :
                 /\ new = [state |-> folder[s].state, value |-> new.value,
                           seal |-> folder[s].seal, inode |-> new.inode]
                 /\ s = "grouping" => new.value \in Batches
                 /\ folder' = [folder EXCEPT ![s] = new]
      BY <3>0
    <3>2. /\ new.state = folder[s].state /\ new.seal = folder[s].seal
          /\ new = [state |-> new.state, value |-> new.value, seal |-> new.seal, inode |-> new.inode]
          /\ folder[s].state \in DirectoryStates
      BY <1>0, <3>1 DEF GroupingTypes
    <3>3. /\ DOMAIN folder' = Stages /\ folder'[s] = new
          /\ \A t \in Stages : t # s => folder'[t] = folder[t]
      BY <1>0, <3>1, <3>2, FolderWrites
    <3>4. "inventory" \in Stages /\ "grouping" \in Stages
      BY DEF Stages
    <3>5. ASSUME NEW t \in Stages
          PROVE  /\ folder'[t] = [state |-> folder'[t].state, value |-> folder'[t].value,
                                  seal |-> folder'[t].seal, inode |-> folder'[t].inode]
                 /\ folder'[t].state = folder[t].state /\ folder'[t].seal = folder[t].seal
      <4>1. CASE t = s
        BY <3>2, <3>3, <4>1
      <4>2. CASE t # s
        BY <1>0, <3>3, <4>2 DEF GroupingTypes
      <4>. QED BY <4>1, <4>2
    <3>. QED BY <3>1, <3>3, <3>4, <3>5
  <2>. QED BY <2>1, <2>2
<1>2. GroupingTypes'
  BY <1>0, <1>1 DEF GroupingTypes
<1>3. GroupingSeals'
  BY <1>0, <1>1 DEF GroupingSeals, Sealed, IsConfirmed, Stages
<1>4. CommandFacts'
  <2>1. command.at # "idle" => command.stage \in Stages
    BY <1>0 DEF GroupingTypes
  <2>2. "packages" \in Stages
    BY DEF Stages
  <2>. QED BY <1>0, <1>1, <2>1, <2>2 DEF CommandFacts, IsConfirmed
<1>5. ReportIsTrue'
  BY <1>0 DEF ReportIsTrue
<1>6. ASSUME NEW s \in Staged, Half(s)' PROVE mishaps' > 0 \/ command'.stage = s
  <2>1. s \in Stages
    BY DEF Staged, Stages
  <2>2. Half(s)
    BY <1>1, <1>6, <2>1 DEF Half
  <2>. QED BY <2>2 DEF GroupingIInv
<1>. QED BY <1>2, <1>3, <1>4, <1>5, <1>6 DEF GroupingIInv

LEMMA EditsKeep ==
    ASSUME GroupingIInv,
           EditSource \/ EditMetadata \/ EditGrouping \/ EditMaterials \/ EditPackages
    PROVE  GroupingIInv'
<1>0. /\ GroupingTypes /\ GroupingSeals /\ UNCHANGED <<command, confirmed, reported, mishaps, confirmation>>
      /\ source \in SourceTexts /\ metadata \in Nat
  BY DEF GroupingIInv, GroupingTypes, EditSource, EditMetadata, EditGrouping, EditMaterials,
         EditPackages, Edit
<1>1. CASE EditSource
  <2>1. source' \in SourceTexts
    BY <1>0, <1>1 DEF EditSource, SourceTexts
  <2>2. UNCHANGED <<folder, metadata>>
    BY <1>1 DEF EditSource
  <2>. QED BY <1>0, <2>1, <2>2, HandsKeep
<1>2. CASE EditMetadata
  <2>1. metadata' \in Nat /\ UNCHANGED <<folder, source>>
    BY <1>0, <1>2 DEF EditMetadata
  <2>. QED BY <1>0, <2>1, HandsKeep
<1>3. CASE EditGrouping
  <2>1. PICK plan \in Plans : folder' = [folder EXCEPT !["grouping"].value.plan = plan]
    BY <1>3 DEF EditGrouping
  <2>2. folder["grouping"].state = "complete" /\ UNCHANGED <<source, metadata>>
    BY <1>3 DEF EditGrouping
  <2>3. PICK old, value, new :
            /\ old = folder["grouping"]
            /\ value = [old.value EXCEPT !.plan = plan]
            /\ new = [old EXCEPT !.value = value]
    OBVIOUS
  <2>4. "grouping" \in Stages \ {"inventory"}
    BY DEF Stages
  <2>5. /\ old = [state |-> old.state, value |-> old.value, seal |-> old.seal, inode |-> old.inode]
        /\ DOMAIN folder = Stages
    BY <1>0, <2>3, <2>4 DEF GroupingTypes
  <2>6. folder' = [folder EXCEPT !["grouping"] = new]
    BY <2>1, <2>3, <2>4, <2>5
  <2>7. old.value \in Batches
    BY <1>0, <2>2, <2>3 DEF GroupingSeals, Sealed
  <2>8. value \in Batches
    BY <2>3, <2>7 DEF Batches
  <2>9. new = [state |-> old.state, value |-> new.value, seal |-> old.seal, inode |-> new.inode]
        /\ new.value = value
    BY <2>3, <2>5
  <2>. QED BY <1>0, <2>2, <2>3, <2>4, <2>6, <2>8, <2>9, HandsKeep, ZenonT(30)
<1>4. CASE EditMaterials
  <2>1. PICK p \in Files, c \in Texts :
            folder' = [folder EXCEPT !["materials"].value.text[p] = c, !["materials"].inode = @ + 1]
    BY <1>4 DEF EditMaterials
  <2>2. UNCHANGED <<source, metadata>>
    BY <1>4 DEF EditMaterials
  <2>3. PICK old, value, new :
            /\ old = folder["materials"]
            /\ value = [old.value EXCEPT !.text[p] = c]
            /\ new = [old EXCEPT !.value = value, !.inode = @ + 1]
    OBVIOUS
  <2>4. "materials" \in Stages \ {"inventory"} /\ "materials" # "grouping"
    BY DEF Stages
  <2>5. /\ old = [state |-> old.state, value |-> old.value, seal |-> old.seal, inode |-> old.inode]
        /\ DOMAIN folder = Stages
    BY <1>0, <2>3, <2>4 DEF GroupingTypes
  <2>6. folder' = [folder EXCEPT !["materials"] = new]
    BY <2>1, <2>3, <2>4, <2>5
  <2>7. new = [state |-> old.state, value |-> new.value, seal |-> old.seal, inode |-> new.inode]
    BY <2>3, <2>5
  <2>. QED BY <1>0, <2>2, <2>3, <2>4, <2>6, <2>7, HandsKeep
<1>5. CASE EditPackages
  <2>1. PICK p \in Files, c \in Texts :
            folder' = [folder EXCEPT !["packages"].value.text[p] = c]
    BY <1>5 DEF EditPackages
  <2>2. UNCHANGED <<source, metadata>>
    BY <1>5 DEF EditPackages
  <2>3. PICK old, value, new :
            /\ old = folder["packages"]
            /\ value = [old.value EXCEPT !.text[p] = c]
            /\ new = [old EXCEPT !.value = value]
    OBVIOUS
  <2>4. "packages" \in Stages \ {"inventory"} /\ "packages" # "grouping"
    BY DEF Stages
  <2>5. /\ old = [state |-> old.state, value |-> old.value, seal |-> old.seal, inode |-> old.inode]
        /\ DOMAIN folder = Stages
    BY <1>0, <2>3, <2>4 DEF GroupingTypes
  <2>6. folder' = [folder EXCEPT !["packages"] = new]
    BY <2>1, <2>3, <2>4, <2>5
  <2>7. new = [state |-> old.state, value |-> new.value, seal |-> old.seal, inode |-> new.inode]
    BY <2>3, <2>5
  <2>. QED BY <1>0, <2>2, <2>3, <2>4, <2>6, <2>7, HandsKeep
<1>. QED BY <1>1, <1>2, <1>3, <1>4, <1>5

LEMMA DiscardKeeps == GroupingIInv /\ Discard => GroupingIInv'
<1>. SUFFICES ASSUME GroupingIInv, Discard PROVE GroupingIInv'
  OBVIOUS
<1>0. /\ GroupingTypes /\ GroupingSeals /\ CommandFacts /\ ReportIsTrue /\ command = NoCommand
      /\ UNCHANGED <<source, metadata, command, confirmed, reported, mishaps>>
      /\ confirmation' \in {confirmation, Missing}
  BY DEF GroupingIInv, Discard, Edit
<1>1. /\ NoOutput = [state |-> NoOutput.state, value |-> NoOutput.value,
                     seal |-> NoOutput.seal, inode |-> NoOutput.inode]
      /\ NoOutput.state = "absent" /\ NoOutput.state \in DirectoryStates
  BY DEF NoOutput, DirectoryStates
<1>2. /\ DOMAIN folder' = Stages
      /\ \A t \in Stages : folder'[t] = folder[t] \/ folder'[t].state = "absent"
      /\ \A t \in Stages :
            /\ folder'[t] = [state |-> folder'[t].state, value |-> folder'[t].value,
                             seal |-> folder'[t].seal, inode |-> folder'[t].inode]
            /\ folder'[t].state \in DirectoryStates
  <2>1. CASE UNCHANGED folder
    BY <1>0, <2>1 DEF GroupingTypes
  <2>2. ASSUME NEW s \in Stages, folder' = [folder EXCEPT ![s] = NoOutput]
        PROVE  /\ DOMAIN folder' = Stages
               /\ \A t \in Stages : folder'[t] = folder[t] \/ folder'[t].state = "absent"
               /\ \A t \in Stages :
                     /\ folder'[t] = [state |-> folder'[t].state, value |-> folder'[t].value,
                                      seal |-> folder'[t].seal, inode |-> folder'[t].inode]
                     /\ folder'[t].state \in DirectoryStates
    BY <1>0, <1>1, <2>2, FolderWrites
  <2>. QED BY <2>1, <2>2 DEF Discard
<1>3. GroupingTypes'
  BY <1>0, <1>2 DEF GroupingTypes
<1>4. GroupingSeals'
  BY <1>0, <1>2 DEF GroupingSeals, Sealed, IsConfirmed, Stages
<1>5. command'.at = "idle"
  BY <1>0, IdleIsNoCommand
<1>6. CommandFacts' /\ ReportIsTrue'
  BY <1>0, <1>5, IdleIsNoCommand DEF CommandFacts, ReportIsTrue
<1>7. ASSUME NEW s \in Staged, Half(s)' PROVE mishaps' > 0 \/ command'.stage = s
  <2>1. s \in Stages
    BY DEF Staged, Stages
  <2>2. Half(s)
    BY <1>2, <1>7, <2>1 DEF Half
  <2>. QED BY <1>0, <2>2 DEF GroupingIInv
<1>. QED BY <1>3, <1>4, <1>6, <1>7 DEF GroupingIInv

LEMMA GroupingInitially == GroupingInit => GroupingIInv
<1>. SUFFICES ASSUME GroupingInit PROVE GroupingIInv
  OBVIOUS
<1>1. command = NoCommand /\ command.at = "idle"
  BY IdleIsNoCommand DEF GroupingInit
<1>2. /\ DOMAIN folder = Stages
      /\ \A s \in Stages : /\ folder[s].state = "absent"
                            /\ folder[s] = [state |-> folder[s].state, value |-> folder[s].value,
                                            seal |-> folder[s].seal, inode |-> folder[s].inode]
  BY DEF GroupingInit, NoOutput
<1>3. source \in SourceTexts /\ metadata = 1 /\ mishaps = 0 /\ confirmation = Missing /\ reported = Missing
  BY DEF GroupingInit, SourceTexts
<1>4. GroupingTypes
  BY <1>1, <1>2, <1>3 DEF GroupingTypes, CommandSteps, DirectoryStates
<1>5. GroupingSeals
  BY <1>2, <1>3 DEF GroupingSeals, Sealed, Stages
<1>6. CommandFacts /\ ReportIsTrue
  BY <1>1, <1>3 DEF CommandFacts, ReportIsTrue
<1>7. \A s \in Staged : ~Half(s)
  BY <1>2 DEF Half, Staged, Stages
<1>. QED BY <1>4, <1>5, <1>6, <1>7 DEF GroupingIInv

(* Materials and packages that carry their marker and that nobody touched  *)
(* are what a person confirmed, a packaging reports only what it checked,  *)
(* and only a mishap leaves half-written directories behind; for all       *)
(* source files and edits by hand.                                         *)
THEOREM StagesAreTrue == GroupingSpec => []GroupingInv
<1>1. GroupingIInv /\ [GroupingNext]_groupingVars => GroupingIInv'
  <2>1. GroupingIInv /\ GroupingNext => GroupingIInv'
    BY StartKeeps, ListKeeps, ReadKeeps, RelistKeeps, BindKeeps, MakeDirectoryKeeps, PayloadKeeps,
       RecheckKeeps, MarkerKeeps, CloseKeeps, ConfirmKeeps, EditsKeep, DiscardKeeps, FaultKeeps
       DEF GroupingNext
  <2>2. GroupingIInv /\ UNCHANGED groupingVars => GroupingIInv'
    <3>. SUFFICES ASSUME GroupingIInv, UNCHANGED groupingVars PROVE GroupingIInv'
      OBVIOUS
    <3>1. UNCHANGED <<source, metadata, folder, confirmation, command, confirmed, reported, mishaps>>
      BY DEF groupingVars
    <3>2. source \in SourceTexts /\ metadata \in Nat
      BY DEF GroupingIInv, GroupingTypes
    <3>. QED BY <3>1, <3>2, HandsKeep
  <2>. QED BY <2>1, <2>2
<1>2. GroupingIInv => GroupingInv
  <2>. SUFFICES ASSUME GroupingIInv PROVE GroupingInv
    OBVIOUS
  <2>1. MaterialsAreConfirmed /\ PackagesAreConfirmed
    BY DEF GroupingIInv, GroupingSeals, Sealed, IsConfirmed, Intact, MaterialsAreConfirmed,
           PackagesAreConfirmed
  <2>2. HalfWritten => mishaps > 0
    BY DEF GroupingIInv, HalfWritten, Half
  <2>. QED BY <2>1, <2>2 DEF GroupingIInv, GroupingInv
<1>. QED BY <1>1, <1>2, GroupingInitially, PTL DEF GroupingSpec

-----------------------------------------------------------------------------
(***************************************************************************)
(* One request to the model.  What the parser keeps of an answer tells how *)
(* the answer reads so far; a timer that fired and a caller that cancelled *)
(* are known until the attempt has ended.                                  *)
(***************************************************************************)
CallStages == {"start", "record", "fetch", "status", "body", "wait", "ended"}
AllTimers  == {"first_output", "output_idle", "maximum_duration"}
CallErrors == {"connection", "response_too_large", "http_status", "eof_incomplete", "invalid_utf8",
               "protocol"}
Results    == {"none", "cancelled", "unrecorded", "http_429", "content"} \cup AllTimers \cup CallErrors
Calls      == [at : CallStages, attempt : 1..RequestAttempts, media : {"none", "event_stream", "json"},
               limited : BOOLEAN]
Streams    == [text : BOOLEAN, choice : BOOLEAN, stop : BOOLEAN, done : BOOLEAN, error : BOOLEAN]

RequestTypes ==
    /\ call \in Calls /\ timers \subseteq AllTimers /\ fired \in {"none"} \cup AllTimers
    /\ signal \in [caller : BOOLEAN, heard : BOOLEAN, aborted : BOOLEAN]
    /\ body \in Seq(StreamEvents) /\ stream \in Streams
    /\ outcome \in [1..RequestAttempts -> Results]

(* An answer that reads well so far: before its last choice, or after it.  *)
Opening(events) ==
    \A k \in 1..Len(events) : events[k] \in OpenEvents

Closing(events) ==
    \E last \in 1..Len(events) :
        /\ events[last] \in StopEvents
        /\ \A k \in 1..(last - 1) : events[k] \in OpenEvents
        /\ \A k \in (last + 1)..Len(events) : events[k] \in {"usage", "comment", "done"}

HasText(events) == \E k \in 1..Len(events) : events[k] \in TextEvents

Parsed ==
    /\ call.at \in {"fetch", "status"} => body = <<>> /\ stream = NoStream
    /\ call.at = "body" /\ call.media = "json" => ~stream.error
    /\ call.at = "body" /\ call.media = "event_stream" /\ ~stream.error =>
           /\ ~stream.stop /\ ~stream.done => Opening(body)
           /\ stream.stop => Closing(body)
    /\ call.at = "body" => call.media # "none" /\ (stream.text => HasText(body))

SignalFacts ==
    /\ call.at \in {"start", "record", "wait"} => fired = "none"
    /\ call.at \in Waiting /\ ~signal.aborted => fired = "none"
    /\ call.at \in Waiting /\ signal.aborted => fired # "none" \/ signal.caller
    /\ call.at = "wait" => call.attempt < RequestAttempts /\ outcome[call.attempt] = "http_429"

RequestIInv == RequestTypes /\ Parsed /\ SignalFacts /\ RequestInv

(* A text after the last choice would have been refused, so the text that  *)
(* was seen stands before it.                                              *)
LEMMA ClosedIsAnswer ==
    ASSUME body \in Seq(StreamEvents), Closing(body), HasText(body)
    PROVE  IsAnswer(body)
<1>1. PICK last \in 1..Len(body) :
          /\ body[last] \in StopEvents
          /\ \A k \in 1..(last - 1) : body[k] \in OpenEvents
          /\ \A k \in (last + 1)..Len(body) : body[k] \in {"usage", "comment", "done"}
  BY DEF Closing
<1>2. PICK k \in 1..Len(body) : body[k] \in TextEvents
  BY DEF HasText
<1>3. k \in 1..last
  <2>1. CASE k > last
    <3>1. k \in (last + 1)..Len(body)
      BY <2>1
    <3>. QED BY <1>1, <1>2, <3>1 DEF TextEvents
  <2>. QED BY <2>1
<1>4. last \in DOMAIN body
  OBVIOUS
<1>. QED BY <1>1, <1>2, <1>3, <1>4 DEF IsAnswer

(* The end of an attempt.                                                  *)
LEMMA EndKeeps ==
    ASSUME RequestIInv, call.at # "ended", NEW result \in Results, End(result),
           UNCHANGED <<fired, signal, body, stream>>,
           result = "content" =>
               /\ call.at = "body" /\ stream.text
               /\ call.media = "event_stream" => stream.stop /\ ~stream.error,
           result \in AllTimers <=> fired # "none",
           result = "cancelled" => signal.caller,
           signal.caller /\ fired = "none" =>
               result \in {"cancelled", "content", "http_429", "unrecorded"}
    PROVE  RequestIInv'
<1>0. RequestTypes /\ Parsed /\ SignalFacts /\ RequestInv
  BY DEF RequestIInv
<1>1. /\ call' = [call EXCEPT !.at = "ended"] /\ timers' = {}
      /\ outcome' = [outcome EXCEPT ![call.attempt] = result]
  BY DEF End, Went
<1>2. /\ call' \in Calls /\ call'.at = "ended" /\ call'.attempt = call.attempt
      /\ call'.media = call.media
  BY <1>0, <1>1 DEF RequestTypes, Calls, CallStages
<1>3. /\ outcome'[call.attempt] = result /\ outcome' \in [1..RequestAttempts -> Results]
      /\ \A n \in 1..RequestAttempts : n # call.attempt => outcome'[n] = outcome[n]
  BY <1>0, <1>1 DEF RequestTypes, Calls
<1>4. RequestTypes'
  BY <1>0, <1>1, <1>2, <1>3 DEF RequestTypes
<1>5. Parsed' /\ SignalFacts'
  BY <1>2 DEF Parsed, SignalFacts, Waiting
<1>6. ContentIsAnswer'
  <2>1. SUFFICES ASSUME result = "content"
                 PROVE  IF call.media = "json" THEN \E k \in DOMAIN body : body[k] \in TextEvents
                        ELSE IsAnswer(body)
    BY <1>2, <1>3 DEF ContentIsAnswer, IsAnswer
  <2>2. HasText(body) /\ call.media \in {"event_stream", "json"} /\ body \in Seq(StreamEvents)
    BY <1>0, <2>1 DEF Parsed, RequestTypes, Calls
  <2>3. CASE call.media = "json"
    BY <2>2, <2>3 DEF HasText
  <2>4. CASE call.media = "event_stream"
    <3>1. Closing(body)
      BY <1>0, <2>1, <2>4 DEF Parsed
    <3>. QED BY <2>2, <2>4, <3>1, ClosedIsAnswer
  <2>. QED BY <2>2, <2>3, <2>4
<1>7. WatchdogHolds'
  BY <1>1, <1>2 DEF WatchdogHolds, Waiting
<1>8. OutcomeIsTrue'
  <2>1. call.attempt \in 1..RequestAttempts
    BY <1>0 DEF RequestTypes, Calls
  <2>2. \A n \in 1..(call.attempt - 1) : outcome'[n] = "http_429"
    <3>1. \A n \in 1..(call.attempt - 1) : outcome[n] = "http_429"
      BY <1>0 DEF RequestInv, OutcomeIsTrue
    <3>2. \A n \in 1..(call.attempt - 1) : n \in 1..RequestAttempts /\ n # call.attempt
      BY <2>1, RequestAssumption
    <3>. QED BY <1>3, <3>1, <3>2
  <2>. QED BY <1>2, <1>3, <2>2 DEF OutcomeIsTrue, AllTimers
<1>. QED BY <1>4, <1>5, <1>6, <1>7, <1>8 DEF RequestIInv, RequestInv

LEMMA FailKeeps ==
    ASSUME RequestIInv, call.at # "ended", NEW error \in CallErrors, Fail(error),
           UNCHANGED <<fired, signal, body, stream>>
    PROVE  RequestIInv'
<1>0. fired \in {"none"} \cup AllTimers
  BY DEF RequestIInv, RequestTypes
<1>1. PICK result : result = IF fired # "none" THEN fired ELSE IF signal.caller THEN "cancelled" ELSE error
  OBVIOUS
<1>2. End(result)
  BY <1>1 DEF Fail
<1>3. /\ result \in Results /\ result # "content" /\ (result \in AllTimers <=> fired # "none")
      /\ result = "cancelled" => signal.caller
      /\ signal.caller /\ fired = "none" => result = "cancelled"
  BY <1>0, <1>1 DEF Results, AllTimers, CallErrors
<1>. QED BY <1>2, <1>3, EndKeeps

(* A step that goes on with the attempt.                                   *)
GoesOn(at) ==
    /\ call' \in Calls /\ call'.at = at /\ call'.attempt = call.attempt
    /\ UNCHANGED outcome

LEMMA BeginAttemptKeeps == RequestIInv /\ BeginAttempt => RequestIInv'
<1>. SUFFICES ASSUME RequestIInv, BeginAttempt PROVE RequestIInv'
  OBVIOUS
<1>0. RequestTypes /\ Parsed /\ SignalFacts /\ RequestInv /\ call.at = "start"
  BY DEF RequestIInv, BeginAttempt
<1>1. CASE signal.caller
  <2>1. End("cancelled") /\ UNCHANGED <<fired, signal, body, stream>>
    BY <1>1 DEF BeginAttempt, Keep
  <2>2. fired = "none"
    BY <1>0 DEF SignalFacts
  <2>3. "cancelled" \in Results /\ "cancelled" \notin AllTimers
    BY DEF Results, AllTimers
  <2>. QED BY <1>0, <1>1, <2>1, <2>2, <2>3, EndKeeps
<1>2. CASE ~signal.caller
  <2>1. call' = [call EXCEPT !.at = "record"] /\ UNCHANGED <<timers, outcome, fired, signal, body, stream>>
    BY <1>2 DEF BeginAttempt, Keep, Went
  <2>2. /\ call' \in Calls /\ call'.at = "record" /\ call'.attempt = call.attempt
        /\ call'.media = call.media
    BY <1>0, <2>1 DEF RequestTypes, Calls, CallStages
  <2>3. RequestTypes' /\ Parsed' /\ SignalFacts'
    BY <1>0, <2>1, <2>2 DEF RequestTypes, Parsed, SignalFacts, Waiting
  <2>4. ContentIsAnswer' /\ WatchdogHolds' /\ OutcomeIsTrue'
    BY <1>0, <2>1, <2>2 DEF RequestInv, ContentIsAnswer, WatchdogHolds, OutcomeIsTrue, Waiting
  <2>. QED BY <2>3, <2>4 DEF RequestIInv, RequestInv
<1>. QED BY <1>1, <1>2

LEMMA SendRequestKeeps == RequestIInv /\ SendRequest => RequestIInv'
<1>. SUFFICES ASSUME RequestIInv, SendRequest PROVE RequestIInv'
  OBVIOUS
<1>0. /\ RequestTypes /\ Parsed /\ SignalFacts /\ RequestInv /\ call.at = "record"
      /\ body' = <<>> /\ stream' = NoStream /\ fired = "none"
  BY DEF RequestIInv, SendRequest, SignalFacts
<1>1. NoStream \in Streams /\ <<>> \in Seq(StreamEvents)
  BY DEF NoStream, Streams
<1>2. CASE /\ Went("fetch")
           /\ timers' = {"first_output", "maximum_duration"} /\ fired' = "none"
           /\ signal' = [signal EXCEPT !.heard = ~signal.caller, !.aborted = FALSE]
           /\ UNCHANGED outcome
  <2>1. /\ call' \in Calls /\ call'.at = "fetch" /\ call'.attempt = call.attempt
        /\ call'.media = call.media
    BY <1>0, <1>2 DEF RequestTypes, Calls, CallStages, Went
  <2>2. /\ signal' \in [caller : BOOLEAN, heard : BOOLEAN, aborted : BOOLEAN]
        /\ ~signal'.aborted
    BY <1>0, <1>2 DEF RequestTypes
  <2>3. RequestTypes' /\ Parsed' /\ SignalFacts'
    BY <1>0, <1>1, <1>2, <2>1, <2>2 DEF RequestTypes, Parsed, SignalFacts, Waiting, AllTimers
  <2>4. ContentIsAnswer' /\ OutcomeIsTrue'
    BY <1>0, <1>2, <2>1 DEF RequestInv, ContentIsAnswer, OutcomeIsTrue
  <2>5. WatchdogHolds'
    BY <1>0, <1>2, <2>1 DEF WatchdogHolds, Waiting, NoStream
  <2>. QED BY <2>3, <2>4, <2>5 DEF RequestIInv, RequestInv
<1>3. CASE End("unrecorded") /\ UNCHANGED <<fired, signal>>
  <2>1. /\ call' = [call EXCEPT !.at = "ended"] /\ timers' = {}
        /\ outcome' = [outcome EXCEPT ![call.attempt] = "unrecorded"]
    BY <1>3 DEF End, Went
  <2>2. /\ call' \in Calls /\ call'.at = "ended" /\ call'.attempt = call.attempt
        /\ call.attempt \in 1..RequestAttempts
    BY <1>0, <2>1 DEF RequestTypes, Calls, CallStages
  <2>3. /\ outcome' \in [1..RequestAttempts -> Results] /\ outcome'[call.attempt] = "unrecorded"
        /\ \A n \in 1..RequestAttempts : n # call.attempt => outcome'[n] = outcome[n]
    BY <1>0, <2>1, <2>2 DEF RequestTypes, Results
  <2>4. RequestTypes' /\ Parsed' /\ SignalFacts'
    BY <1>0, <1>1, <1>3, <2>1, <2>2, <2>3 DEF RequestTypes, Parsed, SignalFacts, Waiting, AllTimers
  <2>5. ContentIsAnswer' /\ WatchdogHolds'
    BY <2>1, <2>2, <2>3 DEF ContentIsAnswer, WatchdogHolds, Waiting
  <2>6. OutcomeIsTrue'
    <3>1. \A n \in 1..(call.attempt - 1) : outcome'[n] = "http_429"
      <4>1. \A n \in 1..(call.attempt - 1) : outcome[n] = "http_429"
        BY <1>0 DEF RequestInv, OutcomeIsTrue
      <4>2. \A n \in 1..(call.attempt - 1) : n \in 1..RequestAttempts /\ n # call.attempt
        BY <2>2, RequestAssumption
      <4>. QED BY <2>3, <4>1, <4>2
    <3>. QED BY <1>0, <1>3, <2>2, <2>3, <3>1 DEF OutcomeIsTrue
  <2>. QED BY <2>4, <2>5, <2>6 DEF RequestIInv, RequestInv
<1>. QED BY <1>2, <1>3 DEF SendRequest

LEMMA RespondKeeps == RequestIInv /\ Respond => RequestIInv'
<1>. SUFFICES ASSUME RequestIInv, Respond PROVE RequestIInv'
  OBVIOUS
<1>0. /\ RequestTypes /\ Parsed /\ SignalFacts /\ RequestInv /\ call.at = "fetch"
      /\ UNCHANGED <<fired, signal, body, stream>> /\ body = <<>> /\ stream = NoStream
  BY DEF RequestIInv, Respond, Keep, Parsed
<1>1. ASSUME NEW at \in {"body", "status"}, NEW media \in {"none", "event_stream", "json"},
             NEW limited \in BOOLEAN, at = "body" => media # "none",
             call' = [at |-> at, attempt |-> call.attempt, media |-> media, limited |-> limited],
             UNCHANGED <<timers, outcome>>
      PROVE  RequestIInv'
  <2>1. /\ call' \in Calls /\ call'.at = at /\ call'.attempt = call.attempt
        /\ call'.media = media
    BY <1>0, <1>1 DEF RequestTypes, Calls, CallStages
  <2>2. RequestTypes'
    BY <1>0, <1>1, <2>1 DEF RequestTypes
  <2>3. ~stream.error /\ ~stream.text /\ ~stream.stop /\ Opening(body)
    BY <1>0 DEF NoStream, Opening
  <2>4. Parsed'
    BY <1>0, <1>1, <2>1, <2>3 DEF Parsed, Opening
  <2>5. SignalFacts'
    BY <1>0, <1>1, <2>1 DEF SignalFacts, Waiting
  <2>6. ContentIsAnswer' /\ WatchdogHolds' /\ OutcomeIsTrue'
    BY <1>0, <1>1, <2>1 DEF RequestInv, ContentIsAnswer, WatchdogHolds, OutcomeIsTrue, Waiting
  <2>. QED BY <2>2, <2>4, <2>5, <2>6 DEF RequestIInv, RequestInv
<1>2. call \in Calls
  BY <1>0 DEF RequestTypes
<1>3. ASSUME NEW media \in {"event_stream", "json"}, UNCHANGED <<timers, outcome>>,
             call' = [call EXCEPT !.at = "body", !.media = media]
      PROVE  RequestIInv'
  <2>1. call' = [at |-> "body", attempt |-> call.attempt, media |-> media, limited |-> call.limited]
    BY <1>2, <1>3 DEF Calls
  <2>2. call.limited \in BOOLEAN
    BY <1>2 DEF Calls
  <2>. QED BY <1>1, <1>3, <2>1, <2>2
<1>4. ASSUME NEW limited \in BOOLEAN, UNCHANGED <<timers, outcome>>,
             call' = [call EXCEPT !.at = "status", !.limited = limited]
      PROVE  RequestIInv'
  <2>1. call' = [at |-> "status", attempt |-> call.attempt, media |-> call.media, limited |-> limited]
    BY <1>2, <1>4 DEF Calls
  <2>2. call.media \in {"none", "event_stream", "json"}
    BY <1>2 DEF Calls
  <2>. QED BY <1>1, <1>4, <2>1, <2>2
<1>5. ASSUME NEW error \in {"response_too_large", "connection"}, Fail(error)
      PROVE  RequestIInv'
  <2>1. error \in CallErrors
    BY DEF CallErrors
  <2>. QED BY <1>0, <1>5, <2>1, FailKeeps
<1>. QED BY <1>3, <1>4, <1>5 DEF Respond

LEMMA ReadStatusKeeps == RequestIInv /\ (ReadStatus \/ StatusBreaks) => RequestIInv'
<1>. SUFFICES ASSUME RequestIInv, ReadStatus \/ StatusBreaks PROVE RequestIInv'
  OBVIOUS
<1>0. /\ RequestTypes /\ Parsed /\ SignalFacts /\ RequestInv /\ call.at = "status" /\ ~signal.aborted
      /\ UNCHANGED <<fired, signal, body, stream>> /\ fired = "none"
  BY DEF RequestIInv, ReadStatus, StatusBreaks, Keep, SignalFacts, Waiting
<1>1. CASE Fail("http_status") \/ Fail("eof_incomplete")
  <2>1. {"http_status", "eof_incomplete"} \subseteq CallErrors
    BY DEF CallErrors
  <2>. QED BY <1>0, <1>1, <2>1, FailKeeps
<1>2. CASE End("http_429")
  <2>1. "http_429" \in Results /\ "http_429" \notin AllTimers
    BY DEF Results, AllTimers
  <2>. QED BY <1>0, <1>2, <2>1, EndKeeps
<1>3. CASE /\ Went("wait") /\ timers' = {} /\ call.attempt # RequestAttempts
           /\ outcome' = [outcome EXCEPT ![call.attempt] = "http_429"]
  <2>1. /\ call' \in Calls /\ call'.at = "wait" /\ call'.attempt = call.attempt
        /\ call.attempt \in 1..RequestAttempts /\ call.attempt < RequestAttempts
    BY <1>0, <1>3, RequestAssumption DEF RequestTypes, Calls, CallStages, Went
  <2>2. /\ outcome' \in [1..RequestAttempts -> Results] /\ outcome'[call.attempt] = "http_429"
        /\ \A n \in 1..RequestAttempts : n # call.attempt => outcome'[n] = outcome[n]
    BY <1>0, <1>3, <2>1 DEF RequestTypes, Results
  <2>3. RequestTypes' /\ Parsed' /\ SignalFacts'
    BY <1>0, <1>3, <2>1, <2>2 DEF RequestTypes, Parsed, SignalFacts, Waiting
  <2>4. ContentIsAnswer' /\ WatchdogHolds'
    BY <1>3, <2>1 DEF ContentIsAnswer, WatchdogHolds, Waiting
  <2>5. OutcomeIsTrue'
    <3>1. \A n \in 1..(call.attempt - 1) : outcome[n] = "http_429"
      BY <1>0 DEF RequestInv, OutcomeIsTrue
    <3>2. \A n \in 1..(call.attempt - 1) : n \in 1..RequestAttempts /\ n # call.attempt
      BY <2>1, RequestAssumption
    <3>. QED BY <2>1, <2>2, <3>1, <3>2 DEF OutcomeIsTrue
  <2>. QED BY <2>3, <2>4, <2>5 DEF RequestIInv, RequestInv
<1>. QED BY <1>1, <1>2, <1>3 DEF ReadStatus, StatusBreaks

LEMMA RetryKeeps == RequestIInv /\ Retry => RequestIInv'
<1>. SUFFICES ASSUME RequestIInv, Retry PROVE RequestIInv'
  OBVIOUS
<1>0. /\ RequestTypes /\ Parsed /\ SignalFacts /\ RequestInv /\ call.at = "wait"
      /\ signal' = [signal EXCEPT !.heard = FALSE, !.aborted = FALSE] /\ fired' = "none"
      /\ UNCHANGED <<timers, body, stream>>
      /\ call.attempt < RequestAttempts /\ outcome[call.attempt] = "http_429"
      /\ call.attempt \in 1..RequestAttempts
  BY DEF RequestIInv, Retry, SignalFacts, RequestTypes, Calls
<1>1. PICK next : next = call.attempt + 1
  OBVIOUS
<1>2. next \in 1..RequestAttempts /\ next - 1 = call.attempt
  BY <1>0, <1>1, RequestAssumption
<1>3. signal' \in [caller : BOOLEAN, heard : BOOLEAN, aborted : BOOLEAN] /\ signal'.caller = signal.caller
  BY <1>0 DEF RequestTypes
<1>4. \A n \in 1..(next - 1) : n \in 1..RequestAttempts /\ n # next /\ outcome[n] = "http_429"
  <2>1. \A n \in 1..(call.attempt - 1) : outcome[n] = "http_429"
    BY <1>0 DEF RequestInv, OutcomeIsTrue
  <2>. QED BY <1>0, <1>2, <2>1, RequestAssumption
<1>5. timers = {}
  BY <1>0 DEF RequestInv, WatchdogHolds, Waiting
<1>6. CASE /\ signal.caller /\ call' = [call EXCEPT !.at = "ended", !.attempt = @ + 1]
           /\ outcome' = [outcome EXCEPT ![call.attempt + 1] = "cancelled"]
  <2>1. call' \in Calls /\ call'.at = "ended" /\ call'.attempt = next
    BY <1>0, <1>1, <1>2, <1>6 DEF RequestTypes, Calls, CallStages
  <2>2. /\ outcome' \in [1..RequestAttempts -> Results] /\ outcome'[next] = "cancelled"
        /\ \A n \in 1..RequestAttempts : n # next => outcome'[n] = outcome[n]
    BY <1>0, <1>1, <1>2, <1>6 DEF RequestTypes, Results
  <2>3. RequestTypes' /\ Parsed' /\ SignalFacts'
    BY <1>0, <1>3, <2>1, <2>2 DEF RequestTypes, Parsed, SignalFacts, Waiting
  <2>4. ContentIsAnswer' /\ WatchdogHolds'
    BY <1>0, <1>5, <2>1, <2>2 DEF ContentIsAnswer, WatchdogHolds, Waiting
  <2>5. OutcomeIsTrue'
    BY <1>0, <1>3, <1>4, <1>6, <2>1, <2>2 DEF OutcomeIsTrue
  <2>. QED BY <2>3, <2>4, <2>5 DEF RequestIInv, RequestInv
<1>7. CASE ~signal.caller /\ call' = [call EXCEPT !.at = "start", !.attempt = @ + 1] /\ UNCHANGED outcome
  <2>1. call' \in Calls /\ call'.at = "start" /\ call'.attempt = next
    BY <1>0, <1>1, <1>2, <1>7 DEF RequestTypes, Calls, CallStages
  <2>2. RequestTypes' /\ Parsed' /\ SignalFacts'
    BY <1>0, <1>3, <1>7, <2>1 DEF RequestTypes, Parsed, SignalFacts, Waiting
  <2>3. ContentIsAnswer' /\ WatchdogHolds' /\ OutcomeIsTrue'
    BY <1>0, <1>4, <1>5, <1>7, <2>1 DEF ContentIsAnswer, WatchdogHolds, OutcomeIsTrue, Waiting
  <2>. QED BY <2>2, <2>3 DEF RequestIInv, RequestInv
<1>. QED BY <1>6, <1>7 DEF Retry

(* What a longer answer keeps of a shorter one.                            *)
LEMMA Appended ==
    ASSUME body \in Seq(StreamEvents), NEW event \in StreamEvents, body' = Append(body, event)
    PROVE  /\ body' \in Seq(StreamEvents) /\ Len(body') = Len(body) + 1
           /\ body'[Len(body) + 1] = event
           /\ \A k \in 1..Len(body) : body'[k] = body[k]
           /\ HasText(body) \/ event \in TextEvents => HasText(body')
<1>1. /\ body' \in Seq(StreamEvents) /\ Len(body') = Len(body) + 1
      /\ body'[Len(body) + 1] = event /\ Len(body) \in Nat
      /\ \A k \in 1..Len(body) : body'[k] = body[k]
  OBVIOUS
<1>2. CASE HasText(body)
  <2>1. PICK k \in 1..Len(body) : body[k] \in TextEvents
    BY <1>2 DEF HasText
  <2>2. k \in 1..Len(body')
    BY <1>1
  <2>. QED BY <1>1, <2>1, <2>2 DEF HasText
<1>3. CASE event \in TextEvents
  <2>1. Len(body) + 1 \in 1..Len(body')
    BY <1>1
  <2>. QED BY <1>1, <1>3, <2>1 DEF HasText
<1>. QED BY <1>1, <1>2, <1>3

LEMMA OpeningGrows ==
    ASSUME body \in Seq(StreamEvents), NEW event \in OpenEvents,
           body' = Append(body, event), Opening(body)
    PROVE  Opening(body')
<1>1. event \in StreamEvents
  BY DEF StreamEvents, OpenEvents, ChoiceEvents, OutputEvents, StopEvents, TextEvents
<1>2. \A k \in 1..Len(body') : k \in 1..Len(body) \/ k = Len(body) + 1
  BY <1>1, Appended
<1>. QED BY <1>1, <1>2, Appended DEF Opening

LEMMA StopCloses ==
    ASSUME body \in Seq(StreamEvents), NEW event \in StopEvents, body' = Append(body, event),
           Opening(body)
    PROVE  Closing(body')
<1>1. event \in StreamEvents
  BY DEF StreamEvents, OpenEvents, ChoiceEvents, OutputEvents, StopEvents, TextEvents
<1>2. PICK last : last = Len(body) + 1
  OBVIOUS
<1>3. /\ last \in 1..Len(body') /\ body'[last] \in StopEvents /\ last - 1 = Len(body)
      /\ \A k \in (last + 1)..Len(body') : FALSE
  BY <1>1, <1>2, Appended
<1>4. \A k \in 1..(last - 1) : body'[k] \in OpenEvents
  BY <1>1, <1>3, Appended DEF Opening
<1>. QED BY <1>3, <1>4 DEF Closing

LEMMA ClosingGrows ==
    ASSUME body \in Seq(StreamEvents), NEW event \in {"usage", "comment", "done"},
           body' = Append(body, event), Closing(body)
    PROVE  Closing(body')
<1>0. event \in StreamEvents
  BY DEF StreamEvents, OpenEvents, ChoiceEvents, OutputEvents, StopEvents, TextEvents
<1>1. PICK last \in 1..Len(body) :
          /\ body[last] \in StopEvents
          /\ \A k \in 1..(last - 1) : body[k] \in OpenEvents
          /\ \A k \in (last + 1)..Len(body) : body[k] \in {"usage", "comment", "done"}
  BY DEF Closing
<1>2. last \in 1..Len(body') /\ body'[last] \in StopEvents
  BY <1>0, <1>1, Appended
<1>3. \A k \in 1..(last - 1) : k \in 1..Len(body)
  BY <1>1
<1>4. \A k \in (last + 1)..Len(body') : k \in (last + 1)..Len(body) \/ k = Len(body) + 1
  BY <1>0, <1>1, Appended
<1>5. \A k \in (last + 1)..Len(body) : k \in 1..Len(body)
  BY <1>1
<1>6. \A k \in 1..(last - 1) : body'[k] \in OpenEvents
  BY <1>0, <1>1, <1>3, Appended
<1>7. \A k \in (last + 1)..Len(body') : body'[k] \in {"usage", "comment", "done"}
  BY <1>0, <1>1, <1>4, <1>5, Appended
<1>. QED BY <1>2, <1>6, <1>7 DEF Closing

(* A part of the body was taken.                                           *)
LEMMA BodyGrows ==
    ASSUME RequestIInv, call.at = "body", ~signal.aborted,
           UNCHANGED <<call, outcome, fired, signal>>,
           body' \in Seq(StreamEvents), stream' \in Streams, Parsed',
           timers' \subseteq AllTimers, timers' \cap {"output_idle", "maximum_duration"} # {},
           stream'.error => "maximum_duration" \in timers'
    PROVE  RequestIInv'
<1>1. RequestTypes'
  BY DEF RequestIInv, RequestTypes
<1>2. SignalFacts'
  BY DEF RequestIInv, SignalFacts
<1>3. ContentIsAnswer' /\ WatchdogHolds'
  BY DEF ContentIsAnswer, WatchdogHolds, Waiting
<1>4. OutcomeIsTrue'
  BY DEF RequestIInv, RequestInv, OutcomeIsTrue
<1>. QED BY <1>1, <1>2, <1>3, <1>4 DEF RequestIInv, RequestInv

LEMMA ReceiveEventKeeps == RequestIInv /\ ReceiveEvent => RequestIInv'
<1>. SUFFICES ASSUME RequestIInv, ReceiveEvent PROVE RequestIInv'
  OBVIOUS
<1>0. /\ RequestTypes /\ Parsed /\ SignalFacts /\ RequestInv
      /\ call.at = "body" /\ call.media = "event_stream" /\ ~signal.aborted
      /\ UNCHANGED <<fired, signal>>
      /\ stream \in Streams /\ body \in Seq(StreamEvents) /\ timers \subseteq AllTimers
  BY DEF RequestIInv, ReceiveEvent, Keep, RequestTypes
<1>1. PICK event \in StreamEvents :
          IF Len(body) = MaximumBytes
          THEN Fail("response_too_large") /\ UNCHANGED <<body, stream>>
          ELSE /\ body' = Append(body, event)
               /\ CASE stream.error -> timers' = timers \cup {"output_idle"} /\ UNCHANGED stream
                    [] ~stream.error /\ IsRefused(event) ->
                         /\ stream' = [stream EXCEPT !.error = TRUE, !.text = FALSE]
                         /\ timers' = Drain
                    [] OTHER ->
                         /\ stream' = Consumed(event)
                         /\ timers' = IF event \in OutputEvents THEN ValidOutput ELSE timers
               /\ UNCHANGED <<call, outcome>>
  BY DEF ReceiveEvent
<1>2. CASE Len(body) = MaximumBytes
  <2>1. "response_too_large" \in CallErrors
    BY DEF CallErrors
  <2>. QED BY <1>0, <1>1, <1>2, <2>1, FailKeeps
<1>3. CASE Len(body) # MaximumBytes
  <2>0. body' = Append(body, event) /\ UNCHANGED <<call, outcome>>
    BY <1>1, <1>3
  <2>1. /\ timers \cap {"output_idle", "maximum_duration"} # {}
        /\ stream.error => "maximum_duration" \in timers
    BY <1>0 DEF RequestInv, WatchdogHolds, Waiting
  <2>2. body' \in Seq(StreamEvents) /\ (HasText(body) \/ event \in TextEvents => HasText(body'))
    BY <1>0, <2>0, Appended
  <2>3. CASE stream.error
    <3>1. timers' = timers \cup {"output_idle"} /\ stream' = stream
      BY <1>1, <1>3, <2>3
    <3>2. Parsed'
      BY <1>0, <2>0, <2>2, <2>3, <3>1 DEF Parsed
    <3>3. /\ timers' \subseteq AllTimers /\ timers' \cap {"output_idle", "maximum_duration"} # {}
          /\ stream'.error => "maximum_duration" \in timers'
      BY <1>0, <2>1, <3>1 DEF AllTimers
    <3>. QED BY <1>0, <2>0, <2>2, <3>1, <3>2, <3>3, BodyGrows
  <2>4. CASE ~stream.error /\ IsRefused(event)
    <3>1. stream' = [stream EXCEPT !.error = TRUE, !.text = FALSE] /\ timers' = Drain
      BY <1>1, <1>3, <2>4
    <3>2. stream' \in Streams /\ stream'.error /\ ~stream'.text
      BY <1>0, <3>1 DEF Streams
    <3>3. Parsed'
      BY <1>0, <2>0, <3>2 DEF Parsed
    <3>4. /\ timers' \subseteq AllTimers /\ timers' \cap {"output_idle", "maximum_duration"} # {}
          /\ stream'.error => "maximum_duration" \in timers'
      BY <1>0, <3>1 DEF Drain, AllTimers
    <3>. QED BY <1>0, <2>0, <2>2, <3>2, <3>3, <3>4, BodyGrows
  <2>5. CASE ~stream.error /\ ~IsRefused(event)
    <3>1. stream' = Consumed(event) /\ timers' = IF event \in OutputEvents THEN ValidOutput ELSE timers
      BY <1>1, <1>3, <2>5
    <3>2. /\ stream' \in Streams /\ ~stream'.error
          /\ stream'.done <=> stream.done \/ event = "done"
          /\ stream'.stop <=> stream.stop \/ event \in StopEvents
          /\ stream'.text <=> stream.text \/ event \in TextEvents
      BY <1>0, <2>5, <3>1 DEF Consumed, Streams
    <3>3. /\ event \in OpenEvents \cup StopEvents \cup {"done"}
          /\ stream.done \/ stream.stop => event \in {"done", "usage", "comment"} \ StopEvents
      BY <2>5 DEF IsRefused, StreamEvents, OpenEvents, ChoiceEvents, OutputEvents, StopEvents, TextEvents
    <3>4. ~stream'.stop /\ ~stream'.done => Opening(body')
      <4>1. SUFFICES ASSUME ~stream'.stop, ~stream'.done PROVE Opening(body')
        OBVIOUS
      <4>2. Opening(body) /\ event \in OpenEvents
        BY <1>0, <2>5, <3>2, <3>3, <4>1 DEF Parsed
      <4>. QED BY <1>0, <2>0, <4>2, OpeningGrows
    <3>5. stream'.stop => Closing(body')
      <4>1. SUFFICES ASSUME stream'.stop PROVE Closing(body')
        OBVIOUS
      <4>2. CASE stream.stop
        <5>1. Closing(body) /\ event \in {"usage", "comment", "done"}
          BY <1>0, <2>5, <3>3, <4>2 DEF Parsed
        <5>. QED BY <1>0, <2>0, <5>1, ClosingGrows
      <4>3. CASE ~stream.stop
        <5>1. event \in StopEvents /\ ~stream.done
          BY <3>2, <3>3, <4>1, <4>3
        <5>2. Opening(body)
          BY <1>0, <2>5, <4>3, <5>1 DEF Parsed
        <5>. QED BY <1>0, <2>0, <5>1, <5>2, StopCloses
      <4>. QED BY <4>2, <4>3
    <3>6. Parsed'
      BY <1>0, <2>0, <2>2, <3>2, <3>4, <3>5 DEF Parsed
    <3>7. timers' \subseteq AllTimers /\ timers' \cap {"output_idle", "maximum_duration"} # {}
      BY <1>0, <2>1, <3>1 DEF ValidOutput, AllTimers
    <3>. QED BY <1>0, <2>0, <2>2, <3>2, <3>6, <3>7, BodyGrows
  <2>. QED BY <2>3, <2>4, <2>5
<1>. QED BY <1>2, <1>3

LEMMA ReceiveJsonKeeps == RequestIInv /\ ReceiveJson => RequestIInv'
<1>. SUFFICES ASSUME RequestIInv, ReceiveJson PROVE RequestIInv'
  OBVIOUS
<1>0. /\ RequestTypes /\ Parsed /\ SignalFacts /\ RequestInv
      /\ call.at = "body" /\ call.media = "json" /\ ~signal.aborted
      /\ UNCHANGED <<fired, signal>>
      /\ stream \in Streams /\ body \in Seq(StreamEvents) /\ timers \subseteq AllTimers
  BY DEF RequestIInv, ReceiveJson, Keep, RequestTypes
<1>1. PICK part \in JsonBytes :
          IF Len(body) = MaximumBytes
          THEN Fail("response_too_large") /\ UNCHANGED <<body, stream>>
          ELSE IF part = "bad" THEN Fail("invalid_utf8") /\ UNCHANGED <<body, stream>>
          ELSE /\ body' = Append(body, part)
               /\ stream' = [stream EXCEPT !.text = @ \/ part = "text"]
               /\ timers' = IF part = "text" THEN ValidOutput ELSE timers
               /\ UNCHANGED <<call, outcome>>
  BY DEF ReceiveJson
<1>2. CASE UNCHANGED <<body, stream>> /\ (Fail("response_too_large") \/ Fail("invalid_utf8"))
  <2>1. {"response_too_large", "invalid_utf8"} \subseteq CallErrors
    BY DEF CallErrors
  <2>. QED BY <1>0, <1>2, <2>1, FailKeeps
<1>3. CASE /\ body' = Append(body, part) /\ UNCHANGED <<call, outcome>>
           /\ stream' = [stream EXCEPT !.text = @ \/ part = "text"]
           /\ timers' = IF part = "text" THEN ValidOutput ELSE timers
  <2>1. part \in StreamEvents /\ (part = "text" => part \in TextEvents)
    BY DEF JsonBytes, StreamEvents, ChoiceEvents, OutputEvents, StopEvents, TextEvents
  <2>2. body' \in Seq(StreamEvents) /\ (HasText(body) \/ part \in TextEvents => HasText(body'))
    BY <1>0, <1>3, <2>1, Appended
  <2>3. /\ stream' \in Streams /\ stream'.error = stream.error
        /\ stream'.text <=> stream.text \/ part = "text"
    BY <1>0, <1>3 DEF Streams
  <2>4. Parsed'
    BY <1>0, <1>3, <2>1, <2>2, <2>3 DEF Parsed
  <2>5. timers \cap {"output_idle", "maximum_duration"} # {} /\ ~stream.error
    BY <1>0 DEF RequestInv, WatchdogHolds, Waiting, Parsed
  <2>6. timers' \subseteq AllTimers /\ timers' \cap {"output_idle", "maximum_duration"} # {}
    BY <1>0, <1>3, <2>5 DEF ValidOutput, AllTimers
  <2>. QED BY <1>0, <1>3, <2>2, <2>3, <2>4, <2>5, <2>6, BodyGrows
<1>. QED BY <1>1, <1>2, <1>3

LEMMA EndOfBodyKeeps == RequestIInv /\ (EndOfBody \/ Breaks) => RequestIInv'
<1>. SUFFICES ASSUME RequestIInv, EndOfBody \/ Breaks PROVE RequestIInv'
  OBVIOUS
<1>0. /\ RequestTypes /\ Parsed /\ SignalFacts /\ call.at = "body" /\ ~signal.aborted
      /\ UNCHANGED <<fired, signal, body, stream>> /\ fired = "none"
      /\ call.media \in {"none", "event_stream", "json"}
  BY DEF RequestIInv, EndOfBody, Breaks, Keep, SignalFacts, Waiting, RequestTypes, Calls
<1>1. CASE Fail("protocol") \/ Fail("eof_incomplete")
  <2>1. {"protocol", "eof_incomplete"} \subseteq CallErrors
    BY DEF CallErrors
  <2>. QED BY <1>0, <1>1, <2>1, FailKeeps
<1>2. CASE /\ End("content") /\ stream.text
           /\ call.media = "event_stream" => stream.stop /\ ~stream.error
  <2>1. "content" \in Results /\ "content" \notin AllTimers
    BY DEF Results, AllTimers
  <2>. QED BY <1>0, <1>2, <2>1, EndKeeps
<1>. QED BY <1>1, <1>2 DEF EndOfBody, Breaks

LEMMA SignalsKeep == RequestIInv /\ (TimerFires \/ Cancel \/ SeeAbort) => RequestIInv'
<1>. SUFFICES ASSUME RequestIInv, TimerFires \/ Cancel \/ SeeAbort PROVE RequestIInv'
  OBVIOUS
<1>0. /\ RequestTypes /\ Parsed /\ SignalFacts /\ RequestInv
      /\ signal \in [caller : BOOLEAN, heard : BOOLEAN, aborted : BOOLEAN]
  BY DEF RequestIInv, RequestTypes
<1>1. CASE TimerFires
  <2>1. PICK timer \in timers :
            /\ timers' = timers \ {timer}
            /\ fired' = IF fired = "none" THEN timer ELSE fired
    BY <1>1 DEF TimerFires
  <2>2. /\ signal' = [signal EXCEPT !.aborted = TRUE] /\ call.at \in Waiting
        /\ UNCHANGED <<call, body, stream, outcome>>
    BY <1>1 DEF TimerFires
  <2>3. /\ signal' \in [caller : BOOLEAN, heard : BOOLEAN, aborted : BOOLEAN] /\ signal'.aborted
        /\ timers' \subseteq AllTimers /\ fired' \in AllTimers /\ fired' # "none"
    BY <1>0, <2>1, <2>2 DEF RequestTypes, AllTimers
  <2>4. RequestTypes' /\ Parsed' /\ SignalFacts'
    BY <1>0, <2>2, <2>3 DEF RequestTypes, Parsed, SignalFacts, Waiting
  <2>5. ContentIsAnswer' /\ WatchdogHolds' /\ OutcomeIsTrue'
    BY <1>0, <2>2, <2>3 DEF RequestInv, ContentIsAnswer, WatchdogHolds, OutcomeIsTrue, Waiting
  <2>. QED BY <2>4, <2>5 DEF RequestIInv, RequestInv
<1>2. CASE Cancel
  <2>1. /\ call.at # "ended" /\ UNCHANGED <<call, timers, fired, body, stream, outcome>>
        /\ signal' \in [caller : BOOLEAN, heard : BOOLEAN, aborted : BOOLEAN] /\ signal'.caller
        /\ signal.aborted => signal'.aborted
    BY <1>0, <1>2 DEF Cancel
  <2>2. RequestTypes' /\ Parsed' /\ SignalFacts'
    BY <1>0, <2>1 DEF RequestTypes, Parsed, SignalFacts
  <2>3. ContentIsAnswer' /\ WatchdogHolds' /\ OutcomeIsTrue'
    BY <1>0, <2>1 DEF RequestInv, ContentIsAnswer, WatchdogHolds, OutcomeIsTrue
  <2>. QED BY <2>2, <2>3 DEF RequestIInv, RequestInv
<1>3. CASE SeeAbort
  <2>1. {"connection", "eof_incomplete"} \subseteq CallErrors
    BY DEF CallErrors
  <2>2. PICK error \in CallErrors : Fail(error)
    BY <1>3, <2>1 DEF SeeAbort
  <2>3. call.at # "ended" /\ UNCHANGED <<fired, signal, body, stream>>
    BY <1>3 DEF SeeAbort, Keep, Waiting
  <2>. QED BY <2>2, <2>3, FailKeeps
<1>. QED BY <1>1, <1>2, <1>3

LEMMA RequestInitially == RequestInit => RequestIInv
<1>. SUFFICES ASSUME RequestInit PROVE RequestIInv
  OBVIOUS
<1>1. /\ call \in Calls /\ call.at = "start" /\ call.attempt = 1 /\ stream \in Streams
      /\ signal \in [caller : BOOLEAN, heard : BOOLEAN, aborted : BOOLEAN]
  BY RequestAssumption DEF RequestInit, Calls, CallStages, Streams, NoStream
<1>2. RequestTypes
  BY <1>1 DEF RequestInit, RequestTypes, Results
<1>3. Parsed /\ SignalFacts
  BY <1>1 DEF RequestInit, Parsed, SignalFacts, Waiting
<1>4. ContentIsAnswer /\ WatchdogHolds /\ OutcomeIsTrue
  BY <1>1 DEF RequestInit, ContentIsAnswer, WatchdogHolds, OutcomeIsTrue, Waiting
<1>. QED BY <1>2, <1>3, <1>4 DEF RequestIInv, RequestInv

(* A text is taken from an answer that is one from beginning to end, the   *)
(* call never waits without a timer, and what it reports is what happened, *)
(* for every number of attempts and every length of the answer.            *)
THEOREM RequestsAreTrue == RequestSpec => []RequestInv
<1>1. RequestIInv /\ [RequestNext]_requestVars => RequestIInv'
  <2>1. RequestIInv /\ RequestNext => RequestIInv'
    BY BeginAttemptKeeps, SendRequestKeeps, RespondKeeps, ReadStatusKeeps, RetryKeeps,
       ReceiveEventKeeps, ReceiveJsonKeeps, EndOfBodyKeeps, SignalsKeep DEF RequestNext
  <2>2. RequestIInv /\ UNCHANGED requestVars => RequestIInv'
    BY DEF requestVars, RequestIInv, RequestTypes, Parsed, Opening, Closing, HasText, SignalFacts,
           RequestInv, ContentIsAnswer, IsAnswer, WatchdogHolds, OutcomeIsTrue
  <2>. QED BY <2>1, <2>2
<1>2. RequestIInv => RequestInv
  BY DEF RequestIInv
<1>. QED BY <1>1, <1>2, RequestInitially, PTL DEF RequestSpec

-----------------------------------------------------------------------------
(***************************************************************************)
(* Preparation and repair over one directory of checkpoints.  Where a      *)
(* process stands tells which checkpoints are there; they are made         *)
(* exclusively, and the only ones ever removed are failure receipts and    *)
(* the mark of an incomplete directory.                                    *)
(***************************************************************************)
RunSteps  == {"directories", "run", "incomplete", "load", "read", "register", "send", "answer", "retry",
              "store", "fail", "summary", "review", "finalize", "unlink", "complete",
              "supersede", "check", "others", "repair", "settle", "remove"}
Kinds     == {None, "source_validation", "schema", "cancelled", "internal"}
Numbers   == 1..MaxSources
CandidateTexts == UNION {[1..n -> {"model", "source"}] : n \in 1..2}
Receipts  == [attempts : RequestNumbers, candidates : CandidateTexts]
Lists     == UNION {[1..n -> CandidateTexts] : n \in Numbers}
RunRows   == [at : RunSteps, i : Nat \ {0}, n : 0..MaximumAttempts, p : 1..3, problems : 0..2,
              kind : Kinds, todo : SUBSET Numbers, report : {None} \cup Lists]

PreparationTypes ==
    /\ confirmedSources \in Numbers
    /\ DOMAIN file = PreparedPaths
    /\ run \in [Preparers -> {Idle} \cup RunRows]
    /\ sent \in [Numbers -> [RequestNumbers -> Nat]]

(* Repairs replace failures of the format, and those were sent.            *)
Repairable(s) ==
    /\ repairManifest # None /\ s \in DOMAIN repairManifest
    /\ repairManifest[s].kind = "schema" /\ repairManifest[s].attempts \in RequestNumbers
    /\ sent[s][1] = 1

(* What the checkpoints of a source say together.                          *)
SentFacts(s) ==
    \A n \in RequestNumbers : sent[s][n] \in {0, 1} /\ (sent[s][n] = 1 => Exists(Active(s, n)))

CompletedFacts(s) ==
    Exists(Completed(s)) =>
        file[Completed(s)] \in Receipts /\ CandidatesMatch(s) /\ sent[s][1] = 1

FailedFacts(s) ==
    Exists(Failed(s)) /\ file[Failed(s)].kind = "schema" =>
        file[Failed(s)].attempts \in RequestNumbers /\ sent[s][1] = 1

CandidateFacts(s) ==
    /\ Exists(Candidate(s, 2)) => file[Candidate(s, 1)] = "model"
    /\ file[Candidate(s, 1)] = "source" => Repairable(s)

ManifestFacts(s) ==
    repairManifest # None /\ s \in DOMAIN repairManifest =>
        /\ Exists(Failed(s)) \/ Exists(Completed(s))
        /\ repairManifest[s].kind = "schema" =>
              repairManifest[s].attempts \in RequestNumbers /\ sent[s][1] = 1

SourceFacts(s) ==
    SentFacts(s) /\ CompletedFacts(s) /\ FailedFacts(s) /\ CandidateFacts(s) /\ ManifestFacts(s)

(* The marks of the directory, and the one process that sets them up.      *)
Preparing(r) == run[r].at \in {"run", "incomplete"}

MarkFacts ==
    /\ \A r, q \in Preparers : Preparing(r) /\ Preparing(q) => r = q
    /\ \A r \in Preparers :
          Preparing(r) => Exists(Directories) /\ ~Exists(Incomplete) /\ ~Exists(PrepareRun)
    /\ ~Exists(Directories) => ~Exists(Incomplete) /\ ~Exists(PrepareRun)

Reported == \A s \in Sources : Exists(Completed(s))
Report   == [s \in Sources |-> file[Completed(s)].candidates]

(* What is there when a process stands where row says.                     *)
SourceSteps   == {"read", "register", "send", "answer", "retry", "store", "fail", "check", "settle", "remove"}
Repairing == {"supersede", "check", "others", "repair", "settle", "remove"}
ClosingSteps   == {"review", "finalize", "unlink", "complete"}

RequestFacts(row) ==
    /\ row.at \in SourceSteps => row.i \in Sources
    /\ row.at \in {"send", "answer", "retry", "store"} => row.n \in RequestNumbers
    /\ row.at = "retry" => row.n < MaximumAttempts
    /\ row.at \in {"send", "answer", "retry"} => row.p = 1
    /\ row.at = "send" =>
          /\ Exists(Active(row.i, row.n)) /\ sent[row.i][row.n] = 0
          /\ row.n # 1 => sent[row.i][1] = 1
    /\ row.at \in {"answer", "retry", "store"} => sent[row.i][1] = 1
    /\ row.at = "fail" /\ row.kind = "schema" => row.n \in RequestNumbers /\ sent[row.i][1] = 1

StoreFacts(row) ==
    row.at = "store" =>
        /\ row.problems \in Problems /\ row.p <= row.problems + 1
        /\ \A p \in 1..(row.p - 1) : file[Candidate(row.i, p)] = "model"

ClosingFacts(row) ==
    /\ row.at \in ClosingSteps => Reported /\ row.report = Report
    /\ row.at \in ClosingSteps \ {"review"} => file[ReviewFile] = row.report
    /\ row.at \in {"unlink", "complete"} => Exists(PrepareRun)
    /\ row.at = "complete" => ~Exists(Incomplete)

RepairFacts(row) ==
    /\ row.at \in Repairing =>
          repairManifest # None /\ row.todo \subseteq Sources /\ \A s \in row.todo : Repairable(s)
    /\ row.at = "check" => row.i \in DOMAIN repairManifest
    /\ row.at \in {"settle", "remove"} => row.i \in row.todo
    /\ row.at = "settle" => file[Candidate(row.i, 1)] = "source"
    /\ row.at = "remove" => Exists(Completed(row.i))

RowFacts(row) == RequestFacts(row) /\ StoreFacts(row) /\ ClosingFacts(row) /\ RepairFacts(row)

Alone ==
    \A r, q \in Preparers :
        run[r].at = "send" /\ run[q].at = "send" /\ run[r].i = run[q].i /\ run[r].n = run[q].n => r = q

PreparationIInv ==
    /\ PreparationTypes /\ MarkFacts /\ Alone /\ CompleteIsTrue
    /\ \A s \in Numbers : SourceFacts(s)
    /\ \A r \in Preparers : RowFacts(run[r])

-----------------------------------------------------------------------------
(* Paths of different kinds, or of different sources, are different.       *)
LEMMA PathKinds ==
    /\ \A s, n : Active(s, n)[1] = "active" /\ Active(s, n)[2] = s /\ Active(s, n)[3] = n
    /\ \A s : Completed(s)[1] = "completed" /\ Completed(s)[2] = s
    /\ \A s : Failed(s)[1] = "failed" /\ Failed(s)[2] = s
    /\ \A s, p : Candidate(s, p)[1] = "candidate" /\ Candidate(s, p)[2] = s /\ Candidate(s, p)[3] = p
    /\ Directories[1] = "directories" /\ RunFile[1] = "run.json" /\ Incomplete[1] = "PREPARE_INCOMPLETE"
    /\ PrepareRun[1] = "PREPARE_RUN" /\ ReviewFile[1] = "review.json" /\ Complete[1] = "PREPARE_COMPLETE"
BY DEF Active, Completed, Failed, Candidate, Directories, RunFile, Incomplete, PrepareRun, ReviewFile, Complete

LEMMA PathsPrepared ==
    /\ \A s \in Numbers, n \in RequestNumbers : Active(s, n) \in PreparedPaths
    /\ \A s \in Numbers : Completed(s) \in PreparedPaths /\ Failed(s) \in PreparedPaths
    /\ \A s \in Numbers, p \in Problems : Candidate(s, p) \in PreparedPaths
    /\ {Directories, RunFile, Incomplete, PrepareRun, ReviewFile, Complete} \subseteq PreparedPaths
BY DEF PreparedPaths, Numbers

LEMMA NothingIsNone ==
    /\ None \notin {"made", "run", "active", "model", "source"}
    /\ None \notin Receipts
    /\ None \notin Lists
BY PreparationAssumption DEF Receipts, Lists, CandidateTexts, RequestNumbers, Numbers

LEMMA SomeNumbers == 1 \in RequestNumbers /\ RequestNumbers \subseteq Nat /\ Numbers \subseteq Nat /\ 1 \in Numbers
BY PreparationAssumption DEF RequestNumbers, Numbers

LEMMA SourcesNumbered ==
    ASSUME PreparationTypes
    PROVE  Sources \subseteq Numbers
BY PreparationAssumption DEF PreparationTypes, Sources, Numbers

LEMMA TextsIndexed ==
    ASSUME NEW text \in CandidateTexts
    PROVE  DOMAIN text \subseteq Problems
BY DEF CandidateTexts, Problems

(* Everything but a failure receipt and the mark of an open directory      *)
(* stays as it was made.                                                   *)
Lasts(path) == path[1] \notin {"failed", "PREPARE_INCOMPLETE"}

Progress ==
    /\ confirmedSources' = confirmedSources
    /\ PreparationTypes'
    /\ \A path \in PreparedPaths : Lasts(path) /\ Exists(path) => file'[path] = file[path]
    /\ Exists(PrepareRun) => (Exists(Incomplete)' => Exists(Incomplete))
    /\ repairManifest # None => repairManifest' = repairManifest
    /\ \A s \in Numbers, n \in RequestNumbers : sent[s][n] = 1 => sent'[s][n] = 1

LEMMA WhatLasts ==
    ASSUME Progress
    PROVE  /\ \A s \in Numbers, n \in RequestNumbers :
                 Exists(Active(s, n)) => file'[Active(s, n)] = file[Active(s, n)]
           /\ \A s \in Numbers : Exists(Completed(s)) => file'[Completed(s)] = file[Completed(s)]
           /\ \A s \in Numbers, p \in Problems :
                 Exists(Candidate(s, p)) => file'[Candidate(s, p)] = file[Candidate(s, p)]
           /\ Exists(Directories) => file'[Directories] = file[Directories]
           /\ Exists(PrepareRun) => file'[PrepareRun] = file[PrepareRun]
           /\ Exists(ReviewFile) => file'[ReviewFile] = file[ReviewFile]
           /\ Exists(Complete) => file'[Complete] = file[Complete]
BY PathKinds, PathsPrepared DEF Progress, Lasts

LEMMA ReportLasts ==
    ASSUME PreparationTypes, Progress, Reported
    PROVE  Reported' /\ Report' = Report /\ Sources' = Sources
<1>1. Sources' = Sources
  BY DEF Progress, Sources
<1>2. \A s \in Sources : Exists(Completed(s)) /\ file'[Completed(s)] = file[Completed(s)]
  BY WhatLasts, SourcesNumbered DEF Reported
<1> QED BY <1>1, <1>2 DEF Reported, Report, Exists

LEMMA ReportListed ==
    ASSUME PreparationTypes, \A s \in Numbers : CompletedFacts(s), Reported
    PROVE  Report \in Lists
<1>1. \A s \in Sources : file[Completed(s)].candidates \in CandidateTexts
  BY SourcesNumbered DEF Reported, CompletedFacts, Receipts
<1>2. Report \in [1..confirmedSources -> CandidateTexts]
  BY <1>1 DEF Report, Sources
<1>3. confirmedSources \in Numbers
  BY DEF PreparationTypes
<1> QED BY <1>2, <1>3 DEF Lists

LEMMA RepairableLasts ==
    ASSUME Progress, NEW s \in Numbers, Repairable(s)
    PROVE  Repairable(s)'
BY SomeNumbers DEF Progress, Repairable

(* What a process relies on is not taken from it by the steps of others.   *)
LEMMA RequestLasts ==
    ASSUME PreparationTypes, Progress, NEW row \in RunRows, RequestFacts(row),
           row.at = "send" => sent'[row.i][row.n] = sent[row.i][row.n]
    PROVE  RequestFacts(row)'
<1>1. Sources' = Sources /\ RequestNumbers' = RequestNumbers
  BY DEF Progress, Sources, RequestNumbers
<1>2. row.at \in SourceSteps => row.i \in Numbers
  BY SourcesNumbered DEF RequestFacts
<1>3. row.at \in SourceSteps /\ sent[row.i][1] = 1 => sent'[row.i][1] = 1
  BY <1>2, SomeNumbers DEF Progress
<1>4. row.at = "send" => Exists(Active(row.i, row.n))'
  BY <1>2, WhatLasts DEF RequestFacts, Exists, SourceSteps
<1> QED BY <1>1, <1>3, <1>4 DEF RequestFacts, SourceSteps

LEMMA StoreLasts ==
    ASSUME PreparationTypes, Progress, NEW row \in RunRows, RequestFacts(row), StoreFacts(row)
    PROVE  StoreFacts(row)'
<1> SUFFICES ASSUME row.at = "store", NEW p \in 1..(row.p - 1)
             PROVE  file'[Candidate(row.i, p)] = "model"
  BY DEF StoreFacts, Problems
<1>1. row.i \in Numbers
  BY SourcesNumbered DEF RequestFacts, SourceSteps
<1>2. p \in Problems
  BY DEF StoreFacts, Problems, RunRows
<1>3. file[Candidate(row.i, p)] = "model"
  BY DEF StoreFacts
<1> QED BY <1>1, <1>2, <1>3, WhatLasts, NothingIsNone DEF Exists

LEMMA ClosingLasts ==
    ASSUME PreparationTypes, Progress, \A s \in Numbers : CompletedFacts(s),
           NEW row \in RunRows, ClosingFacts(row)
    PROVE  ClosingFacts(row)'
<1> SUFFICES ASSUME row.at \in ClosingSteps PROVE ClosingFacts(row)'
  BY DEF ClosingFacts, ClosingSteps
<1>1. Reported /\ row.report = Report
  BY DEF ClosingFacts
<1>2. Reported' /\ Report' = Report
  BY <1>1, ReportLasts
<1>3. row.at \in ClosingSteps \ {"review"} => Exists(ReviewFile)
  <2>1. SUFFICES ASSUME row.at \in ClosingSteps \ {"review"} PROVE file[ReviewFile] # None
    BY DEF Exists
  <2>2. file[ReviewFile] = Report
    BY <1>1, <2>1 DEF ClosingFacts
  <2>3. Report # None
    BY <1>1, ReportListed, NothingIsNone
  <2> QED BY <2>2, <2>3
<1>4. row.at \in ClosingSteps \ {"review"} => file'[ReviewFile] = row.report
  BY <1>3, WhatLasts DEF ClosingFacts
<1>5. row.at \in {"unlink", "complete"} => Exists(PrepareRun)'
  BY WhatLasts DEF ClosingFacts, Exists
<1>6. row.at = "complete" => ~Exists(Incomplete)'
  BY DEF ClosingFacts, Progress
<1> QED BY <1>1, <1>2, <1>4, <1>5, <1>6 DEF ClosingFacts

LEMMA RepairLasts ==
    ASSUME PreparationTypes, Progress, NEW row \in RunRows, RequestFacts(row), RepairFacts(row)
    PROVE  RepairFacts(row)'
<1>1. Sources' = Sources /\ Sources \subseteq Numbers
  BY SourcesNumbered DEF Progress, Sources
<1>2. row.at \in Repairing => repairManifest # None /\ repairManifest' = repairManifest
  BY DEF RepairFacts, Progress
<1>3. row.at \in Repairing => \A s \in row.todo : Repairable(s)'
  BY <1>1, RepairableLasts DEF RepairFacts
<1>4. row.at = "settle" => file'[Candidate(row.i, 1)] = "source"
  BY <1>1, WhatLasts, NothingIsNone DEF RepairFacts, RequestFacts, SourceSteps, Exists, Problems
<1>5. row.at = "remove" => Exists(Completed(row.i))'
  BY <1>1, WhatLasts DEF RepairFacts, RequestFacts, SourceSteps, Exists
<1> QED BY <1>1, <1>2, <1>3, <1>4, <1>5 DEF RepairFacts, Repairing

LEMMA IdleFacts == RowFacts(Idle) /\ RowFacts(Idle)'
BY DEF RowFacts, RequestFacts, StoreFacts, ClosingFacts, RepairFacts, Idle, SourceSteps, ClosingSteps, Repairing

LEMMA RowLasts ==
    ASSUME PreparationTypes, Progress, \A s \in Numbers : CompletedFacts(s),
           NEW row \in {Idle} \cup RunRows, RowFacts(row),
           row.at = "send" => sent'[row.i][row.n] = sent[row.i][row.n]
    PROVE  RowFacts(row)'
<1>1. CASE row = Idle
  BY <1>1, IdleFacts
<1>2. CASE row \in RunRows
  BY <1>2, RequestLasts, StoreLasts, ClosingLasts, RepairLasts DEF RowFacts
<1> QED BY <1>1, <1>2

-----------------------------------------------------------------------------
(* The three kinds of steps on the directory: none, a new file, and a      *)
(* removal.                                                                *)
LEMMA PutWrites ==
    ASSUME PreparationTypes, NEW path \in PreparedPaths, NEW content, file' = Put(path, content)
    PROVE  /\ DOMAIN file' = PreparedPaths
           /\ file'[path] = content
           /\ \A other \in PreparedPaths : other # path => file'[other] = file[other]
BY DEF PreparationTypes, Put

LEMMA MovedTyped ==
    ASSUME PreparationTypes, NEW r \in Preparers, NEW row \in {Idle} \cup RunRows, MovesTo(r, row)
    PROVE  /\ run' \in [Preparers -> {Idle} \cup RunRows]
           /\ run'[r] = row
           /\ \A q \in Preparers : q # r => run'[q] = run[q]
BY DEF PreparationTypes, MovesTo

LEMMA QuietProgress ==
    ASSUME PreparationTypes, NEW r \in Preparers, NEW row \in {Idle} \cup RunRows, MovesTo(r, row),
           UNCHANGED <<confirmedSources, file, repairManifest, sent>>
    PROVE  Progress
<1>1. PreparationTypes'
  BY MovedTyped DEF PreparationTypes
<1> QED BY <1>1 DEF Progress, Exists

LEMMA MadeProgress ==
    ASSUME PreparationTypes, NEW r \in Preparers, NEW row \in {Idle} \cup RunRows, MovesTo(r, row),
           UNCHANGED <<confirmedSources, repairManifest, sent>>,
           NEW path \in PreparedPaths, ~Exists(path), NEW content, file' = Put(path, content),
           path = Incomplete => ~Exists(PrepareRun)
    PROVE  Progress
<1>1. PreparationTypes'
  BY MovedTyped, PutWrites DEF PreparationTypes
<1>2. \A other \in PreparedPaths : Exists(other) => file'[other] = file[other]
  BY PutWrites
<1>3. Exists(PrepareRun) => (Exists(Incomplete)' => Exists(Incomplete))
  <2>1. CASE path = Incomplete
    BY <2>1
  <2>2. CASE path # Incomplete
    BY <2>2, PutWrites, PathsPrepared DEF Exists
  <2> QED BY <2>1, <2>2
<1>4. \A s \in Numbers, n \in RequestNumbers : sent[s][n] = 1 => sent'[s][n] = 1
  OBVIOUS
<1> QED BY <1>1, <1>2, <1>3, <1>4 DEF Progress

LEMMA RemovedProgress ==
    ASSUME PreparationTypes, NEW r \in Preparers, NEW row \in {Idle} \cup RunRows, MovesTo(r, row),
           UNCHANGED <<confirmedSources, repairManifest, sent>>,
           NEW path \in PreparedPaths, ~Lasts(path), file' = Put(path, None)
    PROVE  Progress
<1>1. PreparationTypes'
  BY MovedTyped, PutWrites DEF PreparationTypes
<1>2. \A other \in PreparedPaths : Lasts(other) => file'[other] = file[other]
  BY PutWrites
<1>3. Exists(Incomplete)' => Exists(Incomplete)
  BY PutWrites, PathsPrepared DEF Exists
<1>4. \A s \in Numbers, n \in RequestNumbers : sent[s][n] = 1 => sent'[s][n] = 1
  OBVIOUS
<1> QED BY <1>1, <1>2, <1>3, <1>4 DEF Progress

-----------------------------------------------------------------------------
(* What each part of the invariant asks of a step.                         *)
LEMMA SentKept ==
    ASSUME Progress, NEW s \in Numbers, SentFacts(s), sent'[s] = sent[s]
    PROVE  SentFacts(s)'
<1>1. \A n \in RequestNumbers : Exists(Active(s, n)) => Exists(Active(s, n))'
  BY WhatLasts DEF Exists
<1> QED BY <1>1 DEF SentFacts, RequestNumbers

LEMMA CompletedKept ==
    ASSUME Progress, NEW s \in Numbers, CompletedFacts(s), Exists(Completed(s))' => Exists(Completed(s))
    PROVE  CompletedFacts(s)'
<1> SUFFICES ASSUME Exists(Completed(s)) PROVE CompletedFacts(s)'
  BY DEF CompletedFacts
<1>1. file[Completed(s)] \in Receipts /\ CandidatesMatch(s) /\ sent[s][1] = 1
  BY DEF CompletedFacts
<1>2. file'[Completed(s)] = file[Completed(s)]
  BY WhatLasts
<1> DEFINE texts == file[Completed(s)].candidates
<1>3. texts \in CandidateTexts
  BY <1>1 DEF Receipts
<1>4. \A p \in DOMAIN texts : p \in Problems /\ texts[p] # None
  <2>1. \A p \in DOMAIN texts : texts[p] \in {"model", "source"}
    BY <1>3 DEF CandidateTexts
  <2> QED BY <2>1, <1>3, TextsIndexed, NothingIsNone
<1>5. \A p \in DOMAIN texts : file[Candidate(s, p)] = texts[p]
  BY <1>1 DEF CandidatesMatch
<1>6. \A p \in DOMAIN texts : file'[Candidate(s, p)] = texts[p]
  BY <1>4, <1>5, WhatLasts DEF Exists
<1>7. CandidatesMatch(s)'
  BY <1>2, <1>6 DEF CandidatesMatch
<1>8. sent'[s][1] = 1
  BY <1>1, SomeNumbers DEF Progress
<1> QED BY <1>1, <1>2, <1>7, <1>8 DEF CompletedFacts

LEMMA FailedKept ==
    ASSUME Progress, NEW s \in Numbers, FailedFacts(s), file'[Failed(s)] \in {file[Failed(s)], None}
    PROVE  FailedFacts(s)'
BY SomeNumbers DEF FailedFacts, Exists, Progress, RequestNumbers

LEMMA CandidateKept ==
    ASSUME Progress, NEW s \in Numbers, CandidateFacts(s),
           Exists(Candidate(s, 2))' => Exists(Candidate(s, 2)),
           file'[Candidate(s, 1)] = "source" => file[Candidate(s, 1)] = "source"
    PROVE  CandidateFacts(s)'
<1>1. Exists(Candidate(s, 2))' => file'[Candidate(s, 1)] = "model"
  BY WhatLasts, NothingIsNone DEF CandidateFacts, Exists, Problems
<1>2. file'[Candidate(s, 1)] = "source" => Repairable(s)'
  BY RepairableLasts DEF CandidateFacts
<1> QED BY <1>1, <1>2 DEF CandidateFacts

LEMMA ManifestKept ==
    ASSUME Progress, NEW s \in Numbers, ManifestFacts(s), UNCHANGED repairManifest,
           Exists(Failed(s)) => Exists(Failed(s))' \/ Exists(Completed(s))
    PROVE  ManifestFacts(s)'
<1>1. Exists(Completed(s)) => Exists(Completed(s))'
  BY WhatLasts DEF Exists
<1>2. sent[s][1] = 1 => sent'[s][1] = 1
  BY SomeNumbers DEF Progress
<1> QED BY <1>1, <1>2 DEF ManifestFacts, RequestNumbers

(* A step that makes none of a source's own files leaves what they say.    *)
LEMMA SourceKept ==
    ASSUME Progress, NEW s \in Numbers, SourceFacts(s), sent'[s] = sent[s], UNCHANGED repairManifest,
           Exists(Completed(s))' => Exists(Completed(s)),
           file'[Failed(s)] \in {file[Failed(s)], None},
           Exists(Failed(s)) => Exists(Failed(s))' \/ Exists(Completed(s)),
           Exists(Candidate(s, 2))' => Exists(Candidate(s, 2)),
           file'[Candidate(s, 1)] = "source" => file[Candidate(s, 1)] = "source"
    PROVE  SourceFacts(s)'
<1>1. SentFacts(s)'
  BY SentKept DEF SourceFacts
<1>2. CompletedFacts(s)'
  BY CompletedKept DEF SourceFacts
<1>3. FailedFacts(s)'
  BY FailedKept DEF SourceFacts
<1>4. CandidateFacts(s)'
  BY CandidateKept DEF SourceFacts
<1>5. ManifestFacts(s)'
  BY ManifestKept DEF SourceFacts
<1> QED BY <1>1, <1>2, <1>3, <1>4, <1>5 DEF SourceFacts

(* A process that is alone with its request is the only one to send it.    *)
SendsAlone(r) ==
    \A s \in Numbers, n \in RequestNumbers :
        sent'[s][n] # sent[s][n] => run[r].at = "send" /\ run[r].i = s /\ run[r].n = n

LEMMA RowsKept ==
    ASSUME PreparationIInv, Progress, NEW r \in Preparers, NEW row \in {Idle} \cup RunRows, MovesTo(r, row),
           SendsAlone(r), RowFacts(row)'
    PROVE  \A q \in Preparers : RowFacts(run[q])'
<1> SUFFICES ASSUME NEW q \in Preparers PROVE RowFacts(run[q])'
  OBVIOUS
<1>0. PreparationTypes /\ Alone /\ (\A s \in Numbers : CompletedFacts(s)) /\ RowFacts(run[q])
  BY DEF PreparationIInv, SourceFacts
<1>1. CASE q = r
  BY <1>0, <1>1, MovedTyped
<1>2. CASE q # r
  <2>1. PICK kept \in {Idle} \cup RunRows : kept = run[q]
    BY <1>0 DEF PreparationTypes
  <2>2. run'[q] = kept
    BY <1>0, <1>2, <2>1, MovedTyped
  <2>3. RowFacts(kept)
    BY <1>0, <2>1
  <2>4. kept.at = "send" => kept.i \in Numbers /\ kept.n \in RequestNumbers
    BY <1>0, <2>3, SourcesNumbered DEF RowFacts, RequestFacts, SourceSteps
  <2>5. kept.at = "send" => sent'[kept.i][kept.n] = sent[kept.i][kept.n]
    BY <1>0, <1>2, <2>1, <2>4 DEF SendsAlone, Alone
  <2>6. RowFacts(kept)'
    BY <1>0, <2>3, <2>5, RowLasts
  <2> QED BY <2>2, <2>6
<1> QED BY <1>1, <1>2

(* Only a new directory is set up, and only by the process that made it.   *)
LEMMA MarksKept ==
    ASSUME PreparationIInv, Progress, NEW r \in Preparers, NEW row \in {Idle} \cup RunRows, MovesTo(r, row),
           row.at \in {"run", "incomplete"} =>
              /\ Exists(Directories)' /\ ~Exists(Incomplete)' /\ ~Exists(PrepareRun)'
              /\ \A q \in Preparers : q # r => ~Preparing(q),
           Exists(Incomplete)' \/ Exists(PrepareRun)' =>
              Exists(Incomplete) \/ Exists(PrepareRun) \/ run[r].at = "incomplete"
    PROVE  MarkFacts'
<1>1. PreparationTypes /\ MarkFacts
  BY DEF PreparationIInv
<1>2. run'[r] = row /\ \A q \in Preparers : q # r => run'[q] = run[q]
  BY <1>1, MovedTyped
<1>3. \A q \in Preparers : q # r => (Preparing(q)' <=> Preparing(q))
  BY <1>2 DEF Preparing
<1>4. Preparing(r)' <=> row.at \in {"run", "incomplete"}
  BY <1>2 DEF Preparing
<1>5. Exists(Directories) => Exists(Directories)'
  BY WhatLasts DEF Exists
<1>6. \A q \in Preparers : q # r /\ Preparing(q) => ~Exists(Incomplete)' /\ ~Exists(PrepareRun)'
  <2> SUFFICES ASSUME NEW q \in Preparers, q # r, Preparing(q), Exists(Incomplete)' \/ Exists(PrepareRun)'
               PROVE  FALSE
    OBVIOUS
  <2>1. ~Exists(Incomplete) /\ ~Exists(PrepareRun)
    BY <1>1 DEF MarkFacts
  <2>2. Preparing(r)
    BY <2>1 DEF Preparing
  <2> QED BY <1>1, <2>2 DEF MarkFacts
<1>7. \A p, q \in Preparers : Preparing(p)' /\ Preparing(q)' => p = q
  BY <1>1, <1>3, <1>4 DEF MarkFacts
<1>8. \A q \in Preparers :
        Preparing(q)' => Exists(Directories)' /\ ~Exists(Incomplete)' /\ ~Exists(PrepareRun)'
  BY <1>1, <1>3, <1>4, <1>5, <1>6 DEF MarkFacts
<1>9. ~Exists(Directories)' => ~Exists(Incomplete)' /\ ~Exists(PrepareRun)'
  BY <1>1, <1>5 DEF MarkFacts, Preparing
<1> QED BY <1>7, <1>8, <1>9 DEF MarkFacts

LEMMA AloneKept ==
    ASSUME PreparationIInv, NEW r \in Preparers, NEW row \in {Idle} \cup RunRows, MovesTo(r, row),
           row.at = "send" => \A q \in Preparers : run[q].at = "send" => row.i # run[q].i \/ row.n # run[q].n
    PROVE  Alone'
<1>1. PreparationTypes /\ Alone
  BY DEF PreparationIInv
<1>2. run'[r] = row /\ \A q \in Preparers : q # r => run'[q] = run[q]
  BY <1>1, MovedTyped
<1> QED BY <1>1, <1>2 DEF Alone

(* A directory once open stays as it was when it was opened.               *)
LEMMA CompleteKept ==
    ASSUME PreparationIInv, Progress, Exists(Complete)' => Exists(Complete)
    PROVE  CompleteIsTrue'
<1> SUFFICES ASSUME Exists(Complete) PROVE CompleteIsTrue'
  BY DEF CompleteIsTrue
<1>1. /\ ~Exists(Incomplete) /\ Exists(PrepareRun) /\ Reported
      /\ file[Complete] = file[ReviewFile] /\ file[Complete] = Report
  BY DEF PreparationIInv, CompleteIsTrue, Reported, Report
<1>2. Reported' /\ Report' = Report
  BY <1>1, ReportLasts DEF PreparationIInv
<1>3. ~Exists(Incomplete)'
  BY <1>1 DEF Progress
<1>4. file'[Complete] = file[Complete] /\ Exists(ReviewFile)
  BY <1>1, WhatLasts DEF Exists
<1>5. Exists(PrepareRun)' /\ file'[ReviewFile] = file[ReviewFile]
  BY <1>1, <1>4, WhatLasts DEF Exists
<1> QED BY <1>1, <1>2, <1>3, <1>4, <1>5 DEF CompleteIsTrue, Reported, Report

LEMMA QuietKeeps ==
    ASSUME PreparationIInv, NEW r \in Preparers, NEW row \in {Idle} \cup RunRows, MovesTo(r, row),
           UNCHANGED <<confirmedSources, file, repairManifest, sent>>,
           row.at \notin {"run", "incomplete", "send"}, RowFacts(row)
    PROVE  PreparationIInv'
<1>1. PreparationTypes /\ CompleteIsTrue /\ \A s \in Numbers : SourceFacts(s)
  BY DEF PreparationIInv
<1>2. Progress /\ PreparationTypes'
  BY <1>1, QuietProgress DEF Progress
<1>0. RowFacts(row)'
  BY <1>1, <1>2, RowLasts DEF SourceFacts
<1>3. MarkFacts'
  BY <1>2, MarksKept DEF Exists
<1>4. Alone'
  BY AloneKept
<1>5. CompleteIsTrue'
  BY <1>2, CompleteKept DEF Exists
<1>6. \A s \in Numbers : SourceFacts(s)'
  BY <1>1, <1>2, SourceKept DEF Exists
<1>7. \A q \in Preparers : RowFacts(run[q])'
  BY <1>0, <1>2, RowsKept DEF SendsAlone
<1> QED BY <1>2, <1>3, <1>4, <1>5, <1>6, <1>7 DEF PreparationIInv

LEMMA MadeKeeps ==
    ASSUME PreparationIInv, NEW r \in Preparers, NEW row \in {Idle} \cup RunRows, MovesTo(r, row),
           UNCHANGED <<confirmedSources, repairManifest, sent>>,
           NEW path \in PreparedPaths, ~Exists(path), NEW content, file' = Put(path, content),
           path # Complete,
           path = Incomplete => run[r].at = "incomplete",
           path = PrepareRun => Exists(Incomplete),
           row.at \in {"run", "incomplete"} =>
              /\ Exists(Directories)' /\ ~Exists(Incomplete)' /\ ~Exists(PrepareRun)'
              /\ \A q \in Preparers : q # r => ~Preparing(q),
           row.at = "send" =>
              \A q \in Preparers : run[q].at = "send" => row.i # run[q].i \/ row.n # run[q].n,
           Progress => RowFacts(row)',
           \A s \in Numbers :
              Progress /\ path \in {Completed(s), Failed(s), Candidate(s, 1), Candidate(s, 2)} => SourceFacts(s)'
    PROVE  PreparationIInv'
<1>1. PreparationTypes /\ MarkFacts /\ CompleteIsTrue /\ \A s \in Numbers : SourceFacts(s)
  BY DEF PreparationIInv
<1>2. path = Incomplete => ~Exists(PrepareRun)
  BY <1>1 DEF MarkFacts, Preparing
<1>3. Progress /\ PreparationTypes'
  BY <1>1, <1>2, MadeProgress DEF Progress
<1>4. \A other \in PreparedPaths : other # path => file'[other] = file[other]
  BY <1>1, PutWrites
<1>5. MarkFacts'
  <2>1. Exists(Incomplete)' => Exists(Incomplete) \/ run[r].at = "incomplete"
    BY <1>4, PathsPrepared DEF Exists
  <2>2. Exists(PrepareRun)' => Exists(PrepareRun) \/ Exists(Incomplete)
    BY <1>4, PathsPrepared DEF Exists
  <2> QED BY <1>3, <2>1, <2>2, MarksKept
<1>6. Alone'
  BY AloneKept
<1>7. CompleteIsTrue'
  BY <1>3, <1>4, CompleteKept, PathsPrepared DEF Exists
<1>8. \A s \in Numbers : SourceFacts(s)'
  <2> SUFFICES ASSUME NEW s \in Numbers, path \notin {Completed(s), Failed(s), Candidate(s, 1), Candidate(s, 2)}
               PROVE  SourceFacts(s)'
    BY <1>3
  <2>1. {Completed(s), Failed(s), Candidate(s, 1), Candidate(s, 2)} \subseteq PreparedPaths
    BY PathsPrepared DEF Problems
  <2>2. /\ file'[Completed(s)] = file[Completed(s)] /\ file'[Failed(s)] = file[Failed(s)]
        /\ file'[Candidate(s, 1)] = file[Candidate(s, 1)] /\ file'[Candidate(s, 2)] = file[Candidate(s, 2)]
    BY <1>4, <2>1
  <2> QED BY <1>1, <1>3, <2>2, SourceKept DEF Exists
<1>9. \A q \in Preparers : RowFacts(run[q])'
  BY <1>3, RowsKept DEF SendsAlone
<1> QED BY <1>3, <1>5, <1>6, <1>7, <1>8, <1>9 DEF PreparationIInv

LEMMA RemovedKeeps ==
    ASSUME PreparationIInv, NEW r \in Preparers, NEW row \in {Idle} \cup RunRows, MovesTo(r, row),
           UNCHANGED <<confirmedSources, repairManifest, sent>>,
           NEW path \in PreparedPaths, file' = Put(path, None),
           \/ path = Incomplete
           \/ \E s \in Numbers : path = Failed(s) /\ Exists(Completed(s)),
           row.at \notin {"run", "incomplete", "send"},
           Progress => RowFacts(row)'
    PROVE  PreparationIInv'
<1>1. PreparationTypes /\ \A s \in Numbers : SourceFacts(s)
  BY DEF PreparationIInv
<1>2. ~Lasts(path)
  BY PathKinds DEF Lasts
<1>3. Progress /\ PreparationTypes'
  BY <1>1, <1>2, RemovedProgress DEF Progress
<1>4. /\ file'[path] = None
      /\ \A other \in PreparedPaths : other # path => file'[other] = file[other]
  BY <1>1, PutWrites
<1>5. MarkFacts'
  <2>1. Exists(Incomplete)' => Exists(Incomplete)
    BY <1>4, PathsPrepared DEF Exists
  <2>2. Exists(PrepareRun)' => Exists(PrepareRun)
    BY <1>4, PathsPrepared DEF Exists
  <2> QED BY <1>3, <2>1, <2>2, MarksKept
<1>6. Alone'
  BY AloneKept
<1>7. CompleteIsTrue'
  BY <1>3, <1>4, CompleteKept, PathsPrepared DEF Exists
<1>8. \A s \in Numbers : SourceFacts(s)'
  <2> SUFFICES ASSUME NEW s \in Numbers PROVE SourceFacts(s)'
    OBVIOUS
  <2>1. path \notin {Completed(s), Candidate(s, 1), Candidate(s, 2)}
    BY PathKinds
  <2>2. /\ Completed(s) \in PreparedPaths /\ Failed(s) \in PreparedPaths
        /\ Candidate(s, 1) \in PreparedPaths /\ Candidate(s, 2) \in PreparedPaths
    BY PathsPrepared DEF Problems
  <2>3. /\ file'[Completed(s)] = file[Completed(s)]
        /\ file'[Candidate(s, 1)] = file[Candidate(s, 1)] /\ file'[Candidate(s, 2)] = file[Candidate(s, 2)]
    BY <1>4, <2>1, <2>2
  <2>4. file'[Failed(s)] \in {file[Failed(s)], None}
    BY <1>4, <2>2
  <2>5. path = Failed(s) => Exists(Completed(s))
    BY PathKinds
  <2>6. Exists(Failed(s)) => Exists(Failed(s))' \/ Exists(Completed(s))
    BY <1>4, <2>2, <2>5 DEF Exists
  <2> QED BY <1>1, <1>3, <2>3, <2>4, <2>6, SourceKept DEF Exists
<1>9. \A q \in Preparers : RowFacts(run[q])'
  BY <1>3, RowsKept DEF SendsAlone
<1> QED BY <1>3, <1>5, <1>6, <1>7, <1>8, <1>9 DEF PreparationIInv

-----------------------------------------------------------------------------
(* The rows a process may move to.                                         *)
LEMMA AtWork ==
    ASSUME PreparationIInv, NEW r \in Preparers, run[r].at # "idle"
    PROVE  run[r] \in RunRows /\ RowFacts(run[r])
BY DEF PreparationIInv, PreparationTypes, Idle

LEMMA RowsTyped ==
    ASSUME PreparationIInv, NEW r \in Preparers, run[r].at # "idle"
    PROVE  /\ Idle \in {Idle} \cup RunRows
           /\ \A at \in RunSteps : Continue(r, at) \in RunRows /\ NextSource(r, at) \in RunRows
           /\ \A kind \in Kinds, n \in 0..MaximumAttempts : Failing(r, kind, n) \in RunRows
<1>1. run[r] \in RunRows
  BY AtWork
<1>2. PICK old \in RunRows : old = run[r]
  BY <1>1
<1>3. old.i + 1 \in Nat \ {0}
  BY DEF RunRows
<1>4. \A at \in RunSteps : [old EXCEPT !.at = at] \in RunRows
  BY DEF RunRows
<1>5. \A at \in RunSteps, next \in Nat \ {0} : [old EXCEPT !.at = at, !.i = next] \in RunRows
  BY DEF RunRows
<1>6. \A at \in RunSteps, kind \in Kinds, n \in 0..MaximumAttempts :
        [old EXCEPT !.at = at, !.kind = kind, !.n = n] \in RunRows
  BY DEF RunRows
<1>7. \A at \in RunSteps : Continue(r, at) \in RunRows
  BY <1>2, <1>4 DEF Continue
<1>8. \A at \in RunSteps : NextSource(r, at) \in RunRows
  BY <1>2, <1>3, <1>5 DEF NextSource
<1>9. \A kind \in Kinds, n \in 0..MaximumAttempts : Failing(r, kind, n) \in RunRows
  BY <1>2, <1>6 DEF Failing, RunSteps
<1> QED BY <1>7, <1>8, <1>9

LEMMA RowChanged ==
    ASSUME NEW old \in RunRows, NEW at \in RunSteps
    PROVE  /\ \A n \in 0..MaximumAttempts : [old EXCEPT !.at = at, !.n = n] \in RunRows
           /\ \A n \in 0..MaximumAttempts, p \in 1..3 : [old EXCEPT !.at = at, !.n = n, !.p = p] \in RunRows
           /\ \A number \in 0..2 : [old EXCEPT !.at = at, !.problems = number] \in RunRows
           /\ \A next \in Nat \ {0} : [old EXCEPT !.at = at, !.i = next] \in RunRows
           /\ \A p \in 1..3 : [old EXCEPT !.p = p] \in RunRows
           /\ \A list \in {None} \cup Lists : [old EXCEPT !.at = at, !.report = list] \in RunRows
           /\ \A todo \in SUBSET Numbers, next \in Nat \ {0} :
                [old EXCEPT !.at = at, !.i = next, !.todo = todo] \in RunRows
<1>1. \A n \in 0..MaximumAttempts : [old EXCEPT !.at = at, !.n = n] \in RunRows
  BY DEF RunRows
<1>2. \A n \in 0..MaximumAttempts, p \in 1..3 : [old EXCEPT !.at = at, !.n = n, !.p = p] \in RunRows
  BY DEF RunRows
<1>3. \A number \in 0..2 : [old EXCEPT !.at = at, !.problems = number] \in RunRows
  BY DEF RunRows
<1>4. \A next \in Nat \ {0} : [old EXCEPT !.at = at, !.i = next] \in RunRows
  BY DEF RunRows
<1>5. \A p \in 1..3 : [old EXCEPT !.p = p] \in RunRows
  BY DEF RunRows
<1>6. \A list \in {None} \cup Lists : [old EXCEPT !.at = at, !.report = list] \in RunRows
  BY DEF RunRows
<1>7. \A todo \in SUBSET Numbers, next \in Nat \ {0} :
        [old EXCEPT !.at = at, !.i = next, !.todo = todo] \in RunRows
  BY DEF RunRows
<1> QED BY <1>1, <1>2, <1>3, <1>4, <1>5, <1>6, <1>7

LEMMA RowFields ==
    ASSUME PreparationIInv, NEW r \in Preparers, run[r].at # "idle"
    PROVE  /\ Idle.at = "idle"
           /\ \A at :
                /\ Continue(r, at).at = at /\ NextSource(r, at).at = at
                /\ Continue(r, at).i = run[r].i /\ Continue(r, at).n = run[r].n
                /\ Continue(r, at).p = run[r].p /\ Continue(r, at).problems = run[r].problems
                /\ Continue(r, at).todo = run[r].todo /\ Continue(r, at).report = run[r].report
                /\ NextSource(r, at).todo = run[r].todo
           /\ \A kind, n :
                /\ Failing(r, kind, n).at = "fail" /\ Failing(r, kind, n).i = run[r].i
                /\ Failing(r, kind, n).kind = kind /\ Failing(r, kind, n).n = n
<1>1. PICK old \in RunRows : old = run[r]
  BY AtWork
<1>2. Idle.at = "idle"
  BY DEF Idle
<1>3. \A at :
        /\ Continue(r, at).at = at /\ Continue(r, at).i = old.i /\ Continue(r, at).n = old.n
        /\ Continue(r, at).p = old.p /\ Continue(r, at).problems = old.problems
        /\ Continue(r, at).todo = old.todo /\ Continue(r, at).report = old.report
  BY <1>1 DEF Continue, RunRows
<1>4. \A at : NextSource(r, at).at = at /\ NextSource(r, at).todo = old.todo
  BY <1>1 DEF NextSource, RunRows
<1>5. \A kind, n :
        /\ Failing(r, kind, n).at = "fail" /\ Failing(r, kind, n).i = old.i
        /\ Failing(r, kind, n).kind = kind /\ Failing(r, kind, n).n = n
  BY <1>1 DEF Failing, RunRows
<1> QED BY <1>1, <1>2, <1>3, <1>4, <1>5

Calm == {"idle", "directories", "run", "incomplete", "load", "summary"}

LEMMA CalmFacts ==
    ASSUME NEW row, row.at \in Calm
    PROVE  RowFacts(row) /\ RowFacts(row)'
BY DEF Calm, RowFacts, RequestFacts, StoreFacts, ClosingFacts, RepairFacts, SourceSteps, ClosingSteps, Repairing

LEMMA FailingFacts ==
    ASSUME NEW row, row.at = "fail", row.i \in Sources,
           row.kind = "schema" => row.n \in RequestNumbers /\ sent[row.i][1] = 1
    PROVE  RowFacts(row)
BY DEF RowFacts, RequestFacts, StoreFacts, ClosingFacts, RepairFacts, SourceSteps, ClosingSteps, Repairing

LEMMA Creating ==
    ASSUME NEW r, NEW path, NEW content, NEW done, NEW error, CreateFile(r, path, content, done, error)
    PROVE  /\ UNCHANGED <<confirmedSources, repairManifest, sent>>
           /\ \/ MovesTo(r, error) /\ UNCHANGED file
              \/ /\ ~Exists(path) /\ file' = Put(path, content)
                 /\ MovesTo(r, done) \/ MovesTo(r, error)
BY DEF CreateFile, Stay

LEMMA Validating ==
    ASSUME NEW r, NEW path, NEW content, NEW done, WriteOrValidate(r, path, content, done)
    PROVE  /\ UNCHANGED <<confirmedSources, repairManifest, sent>>
           /\ \/ MovesTo(r, Idle) /\ UNCHANGED file
              \/ Exists(path) /\ file[path] = content /\ MovesTo(r, done) /\ UNCHANGED file
              \/ /\ ~Exists(path) /\ file' = Put(path, content)
                 /\ MovesTo(r, done) \/ MovesTo(r, Idle)
<1>1. CASE Exists(path)
  BY <1>1 DEF WriteOrValidate, Stay
<1>2. CASE ~Exists(path)
  <2>1. CreateFile(r, path, content, done, Idle)
    BY <1>2 DEF WriteOrValidate
  <2> QED BY <1>2, <2>1, Creating
<1> QED BY <1>1, <1>2

-----------------------------------------------------------------------------
(* One lemma for each action of a preparing process.                       *)
LEMMA StartsKeep ==
    ASSUME PreparationIInv, NEW r \in Preparers, StartFresh(r) \/ StartResume(r) \/ StartRepair(r)
    PROVE  PreparationIInv'
<1> DEFINE fresh(at) == [at |-> at, i |-> 1, n |-> 1, p |-> 1, problems |-> 0, kind |-> None,
                         todo |-> {}, report |-> None]
<1>1. \A at \in RunSteps : fresh(at) \in RunRows
  BY SomeNumbers, PreparationAssumption DEF RunRows, Kinds, RequestNumbers
<1>2. UNCHANGED <<confirmedSources, file, repairManifest, sent>>
  BY DEF StartFresh, StartResume, StartRepair, StartRun
<1>3. CASE StartFresh(r) \/ StartResume(r)
  <2>1. PICK at \in {"directories", "load"} : MovesTo(r, fresh(at))
    BY <1>3 DEF StartFresh, StartResume, StartRun
  <2>2. RowFacts(fresh(at))
    BY CalmFacts DEF Calm
  <2> QED BY <1>1, <1>2, <2>1, <2>2, QuietKeeps DEF RunSteps
<1>4. CASE StartRepair(r)
  <2>1. MovesTo(r, fresh("supersede")) /\ repairManifest # None
    BY <1>4 DEF StartRepair, StartRun
  <2>2. RowFacts(fresh("supersede"))
    BY <2>1 DEF RowFacts, RequestFacts, StoreFacts, ClosingFacts, RepairFacts, SourceSteps, ClosingSteps, Repairing
  <2> QED BY <1>1, <1>2, <2>1, <2>2, QuietKeeps DEF RunSteps
<1> QED BY <1>3, <1>4

LEMMA MakeDirectoriesKeeps ==
    ASSUME PreparationIInv, NEW r \in Preparers, MakeDirectories(r)
    PROVE  PreparationIInv'
<1>1. run[r].at = "directories" /\ CreateFile(r, Directories, "made", Continue(r, "run"), Idle)
  BY DEF MakeDirectories, IsAt
<1>2. Continue(r, "run") \in RunRows
  BY <1>1, RowsTyped DEF RunSteps
<1>3. Continue(r, "run").at = "run" /\ Idle.at = "idle"
  BY <1>1, RowFields
<1>4. CASE MovesTo(r, Idle) /\ UNCHANGED file
  BY <1>1, <1>3, <1>4, Creating, QuietKeeps, CalmFacts DEF Calm
<1>5. CASE ~Exists(Directories) /\ file' = Put(Directories, "made")
  <2>1. PICK row \in {Idle, Continue(r, "run")} : MovesTo(r, row)
    BY <1>1, <1>5, Creating
  <2>2. row \in {Idle} \cup RunRows /\ row.at \in {"idle", "run"}
    BY <1>2, <1>3, <2>1
  <2>3. Directories \in PreparedPaths /\ Incomplete \in PreparedPaths /\ PrepareRun \in PreparedPaths
    BY PathsPrepared
  <2>4. /\ Directories \notin {Complete, Incomplete, PrepareRun}
        /\ \A s \in Numbers : Directories \notin {Completed(s), Failed(s), Candidate(s, 1), Candidate(s, 2)}
    BY PathKinds
  <2>5. ~Exists(Incomplete) /\ ~Exists(PrepareRun) /\ \A q \in Preparers : ~Preparing(q)
    BY <1>5 DEF PreparationIInv, MarkFacts
  <2>6. Exists(Directories)' /\ ~Exists(Incomplete)' /\ ~Exists(PrepareRun)'
    BY <1>5, <2>3, <2>4, <2>5, PutWrites, NothingIsNone DEF PreparationIInv, Exists
  <2>7. RowFacts(row)'
    BY <2>2, CalmFacts DEF Calm
  <2> QED BY <1>1, <1>5, <2>1, <2>2, <2>3, <2>4, <2>5, <2>6, <2>7, Creating, MadeKeeps
<1> QED BY <1>1, <1>4, <1>5, Creating

LEMMA WriteRunKeeps ==
    ASSUME PreparationIInv, NEW r \in Preparers, WriteRun(r)
    PROVE  PreparationIInv'
<1>1. run[r].at = "run" /\ CreateFile(r, RunFile, "run", Continue(r, "incomplete"), Idle)
  BY DEF WriteRun, IsAt
<1>2. Continue(r, "incomplete") \in RunRows
  BY <1>1, RowsTyped DEF RunSteps
<1>3. Continue(r, "incomplete").at = "incomplete" /\ Idle.at = "idle"
  BY <1>1, RowFields
<1>4. CASE MovesTo(r, Idle) /\ UNCHANGED file
  BY <1>1, <1>3, <1>4, Creating, QuietKeeps, CalmFacts DEF Calm
<1>5. CASE ~Exists(RunFile) /\ file' = Put(RunFile, "run")
  <2>1. PICK row \in {Idle, Continue(r, "incomplete")} : MovesTo(r, row)
    BY <1>1, <1>5, Creating
  <2>2. row \in {Idle} \cup RunRows /\ row.at \in {"idle", "incomplete"}
    BY <1>2, <1>3, <2>1
  <2>3. {RunFile, Directories, Incomplete, PrepareRun} \subseteq PreparedPaths
    BY PathsPrepared
  <2>4. /\ RunFile \notin {Complete, Directories, Incomplete, PrepareRun}
        /\ \A s \in Numbers : RunFile \notin {Completed(s), Failed(s), Candidate(s, 1), Candidate(s, 2)}
    BY PathKinds
  <2>5. /\ Exists(Directories) /\ ~Exists(Incomplete) /\ ~Exists(PrepareRun)
        /\ \A q \in Preparers : q # r => ~Preparing(q)
    BY <1>1 DEF PreparationIInv, MarkFacts, Preparing
  <2>6. Exists(Directories)' /\ ~Exists(Incomplete)' /\ ~Exists(PrepareRun)'
    BY <1>5, <2>3, <2>4, <2>5, PutWrites DEF PreparationIInv, Exists
  <2>7. RowFacts(row)'
    BY <2>2, CalmFacts DEF Calm
  <2> QED BY <1>1, <1>5, <2>1, <2>2, <2>3, <2>4, <2>5, <2>6, <2>7, Creating, MadeKeeps
<1> QED BY <1>1, <1>4, <1>5, Creating

LEMMA WriteIncompleteKeeps ==
    ASSUME PreparationIInv, NEW r \in Preparers, WriteIncomplete(r)
    PROVE  PreparationIInv'
<1>1. run[r].at = "incomplete" /\ CreateFile(r, Incomplete, "run", Continue(r, "load"), Idle)
  BY DEF WriteIncomplete, IsAt
<1>2. Continue(r, "load") \in RunRows
  BY <1>1, RowsTyped DEF RunSteps
<1>3. Continue(r, "load").at = "load" /\ Idle.at = "idle"
  BY <1>1, RowFields
<1>4. CASE MovesTo(r, Idle) /\ UNCHANGED file
  BY <1>1, <1>3, <1>4, Creating, QuietKeeps, CalmFacts DEF Calm
<1>5. CASE ~Exists(Incomplete) /\ file' = Put(Incomplete, "run")
  <2>1. PICK row \in {Idle, Continue(r, "load")} : MovesTo(r, row)
    BY <1>1, <1>5, Creating
  <2>2. row \in {Idle} \cup RunRows /\ row.at \in {"idle", "load"}
    BY <1>2, <1>3, <2>1
  <2>3. Incomplete \in PreparedPaths
    BY PathsPrepared
  <2>4. /\ Incomplete \notin {Complete, PrepareRun}
        /\ \A s \in Numbers : Incomplete \notin {Completed(s), Failed(s), Candidate(s, 1), Candidate(s, 2)}
    BY PathKinds
  <2>5. RowFacts(row)'
    BY <2>2, CalmFacts DEF Calm
  <2> QED BY <1>1, <1>5, <2>1, <2>2, <2>3, <2>4, <2>5, Creating, MadeKeeps
<1> QED BY <1>1, <1>4, <1>5, Creating

LEMMA LoadKeeps ==
    ASSUME PreparationIInv, NEW r \in Preparers, Load(r)
    PROVE  PreparationIInv'
<1>1. run[r].at = "load" /\ UNCHANGED <<confirmedSources, file, repairManifest, sent>>
  BY DEF Load, IsAt, Stay
<1>2. PICK old \in RunRows : old = run[r]
  BY <1>1, AtWork
<1>3. PICK row : /\ MovesTo(r, row)
                 /\ \/ row \in {Idle, Continue(r, "summary"), NextSource(r, "load")}
                    \/ row = Continue(r, "read") /\ run[r].i \in Sources
  <2>1. CASE run[r].i \notin Sources
    BY <2>1 DEF Load
  <2>2. CASE run[r].i \in Sources
    <3> DEFINE next == CASE SourceState(run[r].i) = "unsafe"  -> Idle
                         [] SourceState(run[r].i) = "pending" -> Continue(r, "read")
                         [] OTHER -> NextSource(r, "load")
    <3>1. MovesTo(r, next)
      BY <2>2 DEF Load
    <3>2. next \in {Idle, Continue(r, "read"), NextSource(r, "load")}
      OBVIOUS
    <3> QED BY <2>2, <3>1, <3>2
  <2> QED BY <2>1, <2>2
<1>4. row \in {Idle} \cup RunRows
  BY <1>1, <1>3, RowsTyped DEF RunSteps
<1>5. row.at \in {"idle", "summary", "load"} \/ (row.at = "read" /\ row.i \in Sources)
  BY <1>1, <1>3, RowFields
<1>6. RowFacts(row)
  <2>1. CASE row.at \in {"idle", "summary", "load"}
    BY <2>1, CalmFacts DEF Calm
  <2>2. CASE row.at = "read" /\ row.i \in Sources
    BY <2>2 DEF RowFacts, RequestFacts, StoreFacts, ClosingFacts, RepairFacts, SourceSteps, ClosingSteps, Repairing
  <2> QED BY <1>5, <2>1, <2>2
<1>7. row.at \notin {"run", "incomplete", "send"}
  BY <1>5
<1> QED BY <1>1, <1>3, <1>4, <1>6, <1>7, QuietKeeps

LEMMA ReadSourceKeeps ==
    ASSUME PreparationIInv, NEW r \in Preparers, ReadSource(r)
    PROVE  PreparationIInv'
<1>1. run[r].at = "read" /\ UNCHANGED <<confirmedSources, file, repairManifest, sent>>
  BY DEF ReadSource, IsAt, Stay
<1>2. PICK old \in RunRows : old = run[r] /\ old.i \in Sources
  BY <1>1, AtWork DEF RowFacts, RequestFacts, SourceSteps
<1>3. CASE MovesTo(r, Continue(r, "register"))
  <2>1. PICK row : row = Continue(r, "register")
    OBVIOUS
  <2>2. row \in RunRows
    BY <1>1, <2>1, RowsTyped DEF RunSteps
  <2>3. row.at = "register" /\ row.i \in Sources
    BY <1>1, <1>2, <2>1, RowFields
  <2>4. RowFacts(row)
    BY <2>3 DEF RowFacts, RequestFacts, StoreFacts, ClosingFacts, RepairFacts, SourceSteps, ClosingSteps, Repairing
  <2> QED BY <1>1, <1>3, <2>1, <2>2, <2>3, <2>4, QuietKeeps
<1>4. CASE MovesTo(r, Failing(r, "source_validation", 0))
  <2>1. PICK row : row = Failing(r, "source_validation", 0)
    OBVIOUS
  <2>2. row \in RunRows
    BY <1>1, <2>1, RowsTyped, PreparationAssumption DEF Kinds
  <2>3. row.at = "fail" /\ row.i \in Sources /\ row.kind = "source_validation"
    BY <1>1, <1>2, <2>1, RowFields
  <2>4. RowFacts(row)
    BY <2>3, FailingFacts
  <2> QED BY <1>1, <1>4, <2>1, <2>2, <2>3, <2>4, QuietKeeps
<1> QED BY <1>3, <1>4 DEF ReadSource

(* A request is registered by a new file: no other process has it.         *)
LEMMA RegisteredNew ==
    ASSUME PreparationIInv, NEW s \in Numbers, NEW n \in RequestNumbers, ~Exists(Active(s, n))
    PROVE  /\ sent[s][n] = 0
           /\ \A q \in Preparers : run[q].at = "send" => run[q].i # s \/ run[q].n # n
<1>1. sent[s][n] = 0
  BY DEF PreparationIInv, SourceFacts, SentFacts
<1>2. \A q \in Preparers : run[q].at = "send" => Exists(Active(run[q].i, run[q].n))
  BY DEF PreparationIInv, RowFacts, RequestFacts
<1> QED BY <1>1, <1>2

LEMMA RegisterKeeps ==
    ASSUME PreparationIInv, NEW r \in Preparers, Register(r)
    PROVE  PreparationIInv'
<1>1. PICK old \in RunRows : old = run[r] /\ old.at = "register" /\ old.i \in Sources /\ old.i \in Numbers
  BY AtWork, SourcesNumbered DEF Register, IsAt, RowFacts, RequestFacts, SourceSteps, PreparationIInv
<1>2. PICK done : done = [old EXCEPT !.at = "send", !.n = 1, !.p = 1]
  OBVIOUS
<1>3. CreateFile(r, Active(old.i, 1), "active", done, Idle)
  BY <1>1, <1>2 DEF Register
<1>4. done \in RunRows
  <2>1. "send" \in RunSteps /\ 1 \in 0..MaximumAttempts /\ 1 \in 1..3
    BY PreparationAssumption DEF RunSteps
  <2> QED BY <1>2, <2>1, RowChanged
<1>5. done.at = "send" /\ done.i = old.i /\ done.n = 1 /\ done.p = 1 /\ Idle.at = "idle"
  BY <1>2 DEF RunRows, Idle
<1>6. CASE MovesTo(r, Idle) /\ UNCHANGED file
  BY <1>3, <1>5, <1>6, Creating, QuietKeeps, CalmFacts DEF Calm
<1>7. CASE ~Exists(Active(old.i, 1)) /\ file' = Put(Active(old.i, 1), "active")
  <2>1. PICK row \in {Idle} \cup RunRows : MovesTo(r, row) /\ row \in {Idle, done}
    BY <1>3, <1>4, <1>7, Creating
  <2>2. PICK path \in PreparedPaths : path = Active(old.i, 1)
    BY <1>1, PathsPrepared, SomeNumbers
  <2>3. /\ path \notin {Complete, Incomplete, PrepareRun}
        /\ \A s \in Numbers : path \notin {Completed(s), Failed(s), Candidate(s, 1), Candidate(s, 2)}
    BY <2>2, PathKinds
  <2>4. sent[old.i][1] = 0 /\ \A q \in Preparers : run[q].at = "send" => run[q].i # old.i \/ run[q].n # 1
    BY <1>1, <1>7, RegisteredNew, SomeNumbers
  <2>5. UNCHANGED <<confirmedSources, repairManifest, sent>>
    BY <1>3, Creating
  <2>6. Exists(path)'
    BY <1>7, <2>2, PutWrites, NothingIsNone DEF Exists, PreparationIInv
  <2>7. RowFacts(row)'
    <3>1. CASE row = Idle
      BY <3>1, IdleFacts
    <3>2. CASE row = done
      BY <1>1, <1>5, <2>2, <2>4, <2>5, <2>6, <3>2, SomeNumbers
         DEF RowFacts, RequestFacts, StoreFacts, ClosingFacts, RepairFacts, SourceSteps, ClosingSteps, Repairing, Sources,
             RequestNumbers
    <3> QED BY <2>1, <3>1, <3>2
  <2>8. row.at \notin {"run", "incomplete"}
    BY <1>5, <2>1
  <2>9. row.at = "send" => \A q \in Preparers : run[q].at = "send" => row.i # run[q].i \/ row.n # run[q].n
    BY <1>5, <2>1, <2>4
  <2> QED BY <1>7, <2>1, <2>2, <2>3, <2>5, <2>7, <2>8, <2>9, MadeKeeps
<1> QED BY <1>3, <1>6, <1>7, Creating

LEMMA SendKeeps ==
    ASSUME PreparationIInv, NEW r \in Preparers, Send(r)
    PROVE  PreparationIInv'
<1>1. PICK old \in RunRows : old = run[r] /\ old.at = "send" /\ RowFacts(old)
  BY AtWork DEF Send, IsAt
<1>2. PICK s \in Numbers, n \in RequestNumbers :
        s = old.i /\ n = old.n /\ s \in Sources /\ old.p = 1 /\ sent[s][n] = 0 /\ Exists(Active(s, n))
        /\ (n # 1 => sent[s][1] = 1)
  BY <1>1, SourcesNumbered DEF RowFacts, RequestFacts, SourceSteps, PreparationIInv
<1>3. PICK row : row = Continue(r, "answer")
  OBVIOUS
<1>4. row \in RunRows /\ row.at = "answer" /\ row.i = s /\ row.n = n /\ row.p = 1
  BY <1>1, <1>2, <1>3, RowsTyped, RowFields DEF RunSteps
<1>5. MovesTo(r, row) /\ UNCHANGED <<confirmedSources, file, repairManifest>>
  BY <1>3 DEF Send
<1>6. sent' = [sent EXCEPT ![s][n] = @ + 1]
  BY <1>1, <1>2 DEF Send
<1>7. sent \in [Numbers -> [RequestNumbers -> Nat]] /\ PreparationTypes
  BY DEF PreparationIInv, PreparationTypes
<1>8. /\ sent' \in [Numbers -> [RequestNumbers -> Nat]]
      /\ sent'[s][n] = 1
      /\ \A t \in Numbers, m \in RequestNumbers : sent'[t][m] = sent[t][m] \/ (t = s /\ m = n)
  BY <1>2, <1>6, <1>7
<1>9. PreparationTypes'
  BY <1>4, <1>5, <1>7, <1>8, MovedTyped DEF PreparationTypes
<1>10. Progress
  BY <1>2, <1>5, <1>8, <1>9 DEF Progress, Exists
<1>11. MarkFacts'
  BY <1>4, <1>5, <1>10, MarksKept DEF Exists
<1>12. Alone'
  BY <1>4, <1>5, AloneKept
<1>13. CompleteIsTrue'
  BY <1>5, <1>10, CompleteKept DEF Exists
<1>14. \A t \in Numbers : SourceFacts(t)'
  <2> SUFFICES ASSUME NEW t \in Numbers PROVE SourceFacts(t)'
    OBVIOUS
  <2>1. SourceFacts(t)
    BY DEF PreparationIInv
  <2>2. SentFacts(t)'
    BY <1>2, <1>5, <1>8, <2>1 DEF SourceFacts, SentFacts, Exists, RequestNumbers
  <2>3. CompletedFacts(t)' /\ FailedFacts(t)' /\ CandidateFacts(t)' /\ ManifestFacts(t)'
    BY <1>5, <1>10, <2>1, CompletedKept, FailedKept, CandidateKept, ManifestKept DEF SourceFacts, Exists
  <2> QED BY <2>2, <2>3 DEF SourceFacts
<1>15. sent'[s][1] = 1
  BY <1>2, <1>8, SomeNumbers
<1>16. RowFacts(row)'
  BY <1>2, <1>4, <1>5, <1>15
     DEF RowFacts, RequestFacts, StoreFacts, ClosingFacts, RepairFacts, SourceSteps, ClosingSteps, Repairing, Sources,
         RequestNumbers
<1>17. SendsAlone(r)
  BY <1>1, <1>2, <1>8 DEF SendsAlone
<1>18. \A q \in Preparers : RowFacts(run[q])'
  BY <1>4, <1>5, <1>10, <1>16, <1>17, RowsKept
<1> QED BY <1>9, <1>11, <1>12, <1>13, <1>14, <1>18 DEF PreparationIInv

LEMMA FailingKeeps ==
    ASSUME PreparationIInv, NEW r \in Preparers, run[r].at \in SourceSteps, UNCHANGED <<confirmedSources, file, repairManifest, sent>>,
           NEW kind \in Kinds, NEW n \in 0..MaximumAttempts, MovesTo(r, Failing(r, kind, n)),
           kind = "schema" => n \in RequestNumbers /\ sent[run[r].i][1] = 1
    PROVE  PreparationIInv'
<1>1. run[r].at # "idle" /\ run[r].i \in Sources
  BY AtWork DEF SourceSteps, RowFacts, RequestFacts
<1>2. PICK row : row = Failing(r, kind, n)
  OBVIOUS
<1>3. row \in RunRows /\ row.at = "fail" /\ row.i = run[r].i /\ row.kind = kind /\ row.n = n
  BY <1>1, <1>2, RowsTyped, RowFields
<1>4. RowFacts(row)
  BY <1>1, <1>3, FailingFacts
<1> QED BY <1>2, <1>3, <1>4, QuietKeeps

LEMMA CancelledKeeps ==
    ASSUME PreparationIInv, NEW r \in Preparers, Cancelled(r)
    PROVE  PreparationIInv'
<1>1. run[r].at \in SourceSteps /\ UNCHANGED <<confirmedSources, file, repairManifest, sent>>
  BY DEF Cancelled, IsAt, Stay, SourceSteps
<1>2. 1 \in 0..MaximumAttempts /\ "cancelled" \in Kinds
  BY PreparationAssumption DEF Kinds
<1> QED BY <1>1, <1>2, FailingKeeps DEF Cancelled

LEMMA AnswerKeeps ==
    ASSUME PreparationIInv, NEW r \in Preparers, Answer(r)
    PROVE  PreparationIInv'
<1>1. PICK old \in RunRows : old = run[r] /\ old.at = "answer" /\ RowFacts(old)
  BY AtWork DEF Answer, IsAt
<1>2. UNCHANGED <<confirmedSources, file, repairManifest, sent>>
  BY DEF Answer, Stay
<1>3. old.i \in Sources /\ old.n \in RequestNumbers /\ old.p = 1 /\ sent[old.i][1] = 1
  BY <1>1 DEF RowFacts, RequestFacts, SourceSteps
<1>4. ASSUME NEW number \in Problems, MovesTo(r, [run[r] EXCEPT !.at = "store", !.problems = number])
      PROVE  PreparationIInv'
  <2>1. PICK row : row = [old EXCEPT !.at = "store", !.problems = number]
    OBVIOUS
  <2>2. row \in RunRows
    <3>1. "store" \in RunSteps /\ number \in 0..2
      BY DEF RunSteps, Problems
    <3> QED BY <2>1, <3>1, RowChanged
  <2>3. row.at = "store" /\ row.problems = number /\ row.p = 1 /\ row.i = old.i /\ row.n = old.n
    BY <1>3, <2>1 DEF RunRows
  <2>4. RequestFacts(row)
    BY <1>3, <2>3 DEF RequestFacts, SourceSteps
  <2>5. StoreFacts(row)
    BY <2>3 DEF StoreFacts, Problems
  <2>6. RowFacts(row)
    BY <2>3, <2>4, <2>5 DEF RowFacts, ClosingFacts, RepairFacts, ClosingSteps, Repairing
  <2>7. MovesTo(r, row)
    BY <1>1, <1>4, <2>1
  <2> QED BY <1>2, <2>2, <2>3, <2>6, <2>7, QuietKeeps
<1>5. ASSUME NEW kind \in {"schema", "cancelled", "internal"}, MovesTo(r, Failing(r, kind, run[r].n))
      PROVE  PreparationIInv'
  <2>1. run[r].at \in SourceSteps /\ kind \in Kinds /\ run[r].n \in 0..MaximumAttempts
    BY <1>1, <1>3 DEF SourceSteps, Kinds, RequestNumbers
  <2> QED BY <1>1, <1>2, <1>3, <1>5, <2>1, FailingKeeps
<1>6. CASE run[r].n < MaximumAttempts /\ MovesTo(r, Continue(r, "retry"))
  <2>1. PICK row : row = Continue(r, "retry")
    OBVIOUS
  <2>2. row \in RunRows /\ row.at = "retry" /\ row.p = 1 /\ row.i = old.i /\ row.n = old.n
    BY <1>1, <1>3, <2>1, RowsTyped, RowFields DEF RunSteps
  <2>3. RowFacts(row)
    BY <1>1, <1>3, <1>6, <2>2
       DEF RowFacts, RequestFacts, StoreFacts, ClosingFacts, RepairFacts, SourceSteps, ClosingSteps, Repairing
  <2> QED BY <1>2, <1>6, <2>1, <2>2, <2>3, QuietKeeps
<1> QED BY <1>4, <1>5, <1>6 DEF Answer

LEMMA RegisterRetryKeeps ==
    ASSUME PreparationIInv, NEW r \in Preparers, RegisterRetry(r)
    PROVE  PreparationIInv'
<1>1. PICK old \in RunRows : old = run[r] /\ old.at = "retry" /\ RowFacts(old)
  BY AtWork DEF RegisterRetry, IsAt
<1>2. PICK s \in Numbers, n \in RequestNumbers :
        s = old.i /\ s \in Sources /\ n = old.n + 1 /\ n # 1 /\ old.n \in RequestNumbers /\ old.p = 1
        /\ sent[s][1] = 1
  BY <1>1, SourcesNumbered, PreparationAssumption
     DEF RowFacts, RequestFacts, SourceSteps, PreparationIInv, RequestNumbers
<1>3. PICK done : done = [old EXCEPT !.at = "send", !.n = n]
  OBVIOUS
<1>4. PICK error : error = Failing(r, "internal", old.n)
  OBVIOUS
<1>5. CreateFile(r, Active(s, n), "active", done, error)
  BY <1>1, <1>2, <1>3, <1>4 DEF RegisterRetry
<1>6. done \in RunRows
  <2>1. "send" \in RunSteps /\ n \in 0..MaximumAttempts
    BY DEF RunSteps, RequestNumbers
  <2> QED BY <1>3, <2>1, RowChanged
<1>7. done.at = "send" /\ done.i = s /\ done.n = n /\ done.p = 1
  BY <1>2, <1>3 DEF RunRows
<1>8. old.n \in 0..MaximumAttempts /\ "internal" \in Kinds
  BY <1>2 DEF RequestNumbers, Kinds
<1>9. error \in RunRows /\ error.at = "fail" /\ error.i = s /\ error.kind = "internal"
  BY <1>1, <1>2, <1>4, <1>8, RowsTyped, RowFields
<1>10. RowFacts(error)
  BY <1>2, <1>9, FailingFacts
<1>11. CASE MovesTo(r, error) /\ UNCHANGED file
  BY <1>5, <1>9, <1>10, <1>11, Creating, QuietKeeps
<1>12. CASE ~Exists(Active(s, n)) /\ file' = Put(Active(s, n), "active")
  <2>1. PICK row \in {Idle} \cup RunRows : MovesTo(r, row) /\ row \in {error, done}
    BY <1>5, <1>6, <1>9, <1>12, Creating
  <2>2. PICK path \in PreparedPaths : path = Active(s, n)
    BY PathsPrepared
  <2>3. /\ path \notin {Complete, Incomplete, PrepareRun}
        /\ \A t \in Numbers : path \notin {Completed(t), Failed(t), Candidate(t, 1), Candidate(t, 2)}
    BY <2>2, PathKinds
  <2>4. sent[s][n] = 0 /\ \A q \in Preparers : run[q].at = "send" => run[q].i # s \/ run[q].n # n
    BY <1>12, RegisteredNew
  <2>5. UNCHANGED <<confirmedSources, repairManifest, sent>>
    BY <1>5, Creating
  <2>6. Exists(path)'
    BY <1>12, <2>2, PutWrites, NothingIsNone DEF Exists, PreparationIInv
  <2>7. ASSUME Progress PROVE RowFacts(row)'
    <3>1. CASE row = error
      BY <1>9, <1>10, <2>5, <2>7, <3>1, RowLasts DEF PreparationIInv, SourceFacts
    <3>2. CASE row = done
      BY <1>2, <1>7, <2>2, <2>4, <2>5, <2>6, <3>2
         DEF RowFacts, RequestFacts, StoreFacts, ClosingFacts, RepairFacts, SourceSteps, ClosingSteps, Repairing, Sources,
             RequestNumbers
    <3> QED BY <2>1, <3>1, <3>2
  <2>8. row.at \notin {"run", "incomplete"}
    BY <1>7, <1>9, <2>1
  <2>9. row.at = "send" => \A q \in Preparers : run[q].at = "send" => row.i # run[q].i \/ row.n # run[q].n
    BY <1>7, <1>9, <2>1, <2>4
  <2> QED BY <1>12, <2>1, <2>2, <2>3, <2>5, <2>7, <2>8, <2>9, MadeKeeps
<1> QED BY <1>5, <1>11, <1>12, Creating

(* Where a process stores the candidates of an answer.                     *)
LEMMA Storing ==
    ASSUME PreparationIInv, NEW r \in Preparers, run[r].at = "store"
    PROVE  /\ run[r] \in RunRows /\ run[r].i \in Sources /\ run[r].i \in Numbers
           /\ run[r].n \in RequestNumbers /\ sent[run[r].i][1] = 1
           /\ run[r].problems \in Problems /\ run[r].p \in 1..(run[r].problems + 1)
           /\ \A p \in 1..(run[r].p - 1) : file[Candidate(run[r].i, p)] = "model"
           /\ "internal" \in Kinds /\ "schema" \in Kinds /\ run[r].n \in 0..MaximumAttempts
           /\ run[r].at \in SourceSteps
<1>1. PICK old \in RunRows : old = run[r] /\ RowFacts(old)
  BY AtWork
<1>2. old.p \in 1..3
  BY DEF RunRows
<1>3. old.i \in Sources /\ old.n \in RequestNumbers /\ sent[old.i][1] = 1
  BY <1>1 DEF RowFacts, RequestFacts, SourceSteps
<1>4. /\ old.problems \in Problems /\ old.p <= old.problems + 1
      /\ \A p \in 1..(old.p - 1) : file[Candidate(old.i, p)] = "model"
  BY <1>1 DEF RowFacts, StoreFacts
<1>5. old.p \in 1..(old.problems + 1)
  BY <1>2, <1>4 DEF Problems
<1>6. old.n \in 0..MaximumAttempts
  BY <1>3 DEF RequestNumbers
<1>7. old.i \in Numbers
  BY <1>3, SourcesNumbered DEF PreparationIInv
<1> QED BY <1>1, <1>3, <1>4, <1>5, <1>6, <1>7 DEF Kinds, SourceSteps

LEMMA StoreCandidateKeeps ==
    ASSUME PreparationIInv, NEW r \in Preparers, StoreCandidate(r)
    PROVE  PreparationIInv'
<1>1. run[r].at = "store" /\ run[r].p <= run[r].problems
  BY DEF StoreCandidate, IsAt
<1>2. PICK old \in RunRows : old = run[r]
  BY <1>1, Storing
<1>3. PICK s \in Numbers, p \in Problems : s = old.i /\ s \in Sources /\ p = old.p
  BY <1>1, <1>2, Storing DEF Problems
<1>4. PICK done : done = [old EXCEPT !.p = p + 1]
  OBVIOUS
<1>5. done \in RunRows
  <2>1. p + 1 \in 1..3 /\ old.at \in RunSteps
    BY DEF Problems, RunRows
  <2> QED BY <1>4, <2>1, RowChanged
<1>6. done.at = "store" /\ done.i = s /\ done.p = p + 1 /\ done.problems = old.problems /\ done.n = old.n
  BY <1>1, <1>2, <1>3, <1>4 DEF RunRows
<1>7. PICK error : error = Failing(r, "internal", old.n)
  OBVIOUS
<1>8. error \in RunRows /\ error.at = "fail" /\ error.i = s /\ error.kind = "internal"
  BY <1>1, <1>2, <1>3, <1>7, Storing, RowsTyped, RowFields
<1>9. RowFacts(error)
  BY <1>3, <1>8, FailingFacts
<1>10. CASE MovesTo(r, Failing(r, "schema", run[r].n)) /\ UNCHANGED <<file, prepareFaults>> /\ Stay
  BY <1>1, <1>10, Storing, FailingKeeps DEF Stay
<1>11. CASE CreateFile(r, Candidate(s, p), "model", done, error)
  <2>1. CASE MovesTo(r, error) /\ UNCHANGED file
    BY <1>8, <1>9, <1>11, <2>1, Creating, QuietKeeps
  <2>2. CASE ~Exists(Candidate(s, p)) /\ file' = Put(Candidate(s, p), "model")
    <3>1. PICK row \in {Idle} \cup RunRows : MovesTo(r, row) /\ row \in {error, done}
      BY <1>5, <1>8, <1>11, <2>2, Creating
    <3>2. PICK path \in PreparedPaths : path = Candidate(s, p)
      BY PathsPrepared
    <3>3. /\ path \notin {Complete, Incomplete, PrepareRun}
          /\ \A t \in Numbers : path \notin {Completed(t), Failed(t)}
          /\ \A t \in Numbers, q \in Problems : path = Candidate(t, q) => t = s /\ q = p
      BY <3>2, PathKinds
    <3>4. UNCHANGED <<confirmedSources, repairManifest, sent>>
      BY <1>11, Creating
    <3>5. file'[path] = "model" /\ \A other \in PreparedPaths : other # path => file'[other] = file[other]
      BY <2>2, <3>2, PutWrites DEF PreparationIInv
    <3>6. \A q \in 1..(p - 1) : file[Candidate(s, q)] = "model"
      BY <1>1, <1>2, <1>3, Storing
    <3>7. ASSUME Progress PROVE RowFacts(row)'
      <4>1. CASE row = error
        BY <1>8, <1>9, <3>4, <3>7, <4>1, RowLasts DEF PreparationIInv, SourceFacts
      <4>2. CASE row = done
        <5>1. RequestFacts(done)'
          BY <1>1, <1>2, <1>3, <1>6, <3>4, Storing DEF RequestFacts, SourceSteps, Sources, RequestNumbers
        <5>2. StoreFacts(done)'
          <6>1. done.problems \in Problems /\ done.p <= done.problems + 1
            BY <1>1, <1>2, <1>3, <1>6, Storing DEF Problems
          <6>2. \A q \in 1..(done.p - 1) : q \in Problems /\ (q = p \/ q \in 1..(p - 1))
            BY <1>6 DEF Problems
          <6>3. \A q \in 1..(p - 1) : file'[Candidate(s, q)] = "model"
            BY <3>2, <3>3, <3>5, <3>6, PathsPrepared DEF Problems
          <6>4. \A q \in 1..(done.p - 1) : file'[Candidate(s, q)] = "model"
            BY <3>2, <3>5, <6>2, <6>3
          <6> QED BY <1>6, <6>1, <6>4 DEF StoreFacts, Problems
        <5>3. ClosingFacts(done)' /\ RepairFacts(done)'
          BY <1>6 DEF ClosingFacts, RepairFacts, ClosingSteps, Repairing
        <5> QED BY <4>2, <5>1, <5>2, <5>3 DEF RowFacts
      <4> QED BY <3>1, <4>1, <4>2
    <3>8. ASSUME Progress, NEW t \in Numbers, path \in {Completed(t), Failed(t), Candidate(t, 1), Candidate(t, 2)}
          PROVE  SourceFacts(t)'
      <4>1. t = s
        BY <3>3, <3>8 DEF Problems
      <4>2. SourceFacts(s)
        BY DEF PreparationIInv
      <4>3. /\ Completed(s) \in PreparedPaths /\ Failed(s) \in PreparedPaths
            /\ Candidate(s, 1) \in PreparedPaths /\ Candidate(s, 2) \in PreparedPaths
        BY PathsPrepared DEF Problems
      <4>4. file'[Completed(s)] = file[Completed(s)] /\ file'[Failed(s)] = file[Failed(s)]
        BY <3>3, <3>5, <4>3
      <4>5. file'[Candidate(s, 1)] = "model" \/ ~Exists(Candidate(s, 2))'
        <5>1. CASE p = 1
          BY <3>2, <3>5, <5>1
        <5>2. CASE p = 2
          <6>1. file[Candidate(s, 1)] = "model"
            BY <3>6, <5>2
          <6>2. Candidate(s, 1) # path
            BY <3>2, <5>2, PathKinds
          <6> QED BY <3>5, <4>3, <6>1, <6>2
        <5> QED BY <5>1, <5>2 DEF Problems
      <4>6. file'[Candidate(s, 1)] = "source" => file[Candidate(s, 1)] = "source"
        BY <3>5, <4>3
      <4>7. CandidateFacts(s)'
        BY <3>8, <4>2, <4>5, <4>6, RepairableLasts DEF SourceFacts, CandidateFacts
      <4>8. SentFacts(s)' /\ CompletedFacts(s)' /\ FailedFacts(s)' /\ ManifestFacts(s)'
        BY <3>4, <3>8, <4>2, <4>4, SentKept, CompletedKept, FailedKept, ManifestKept DEF SourceFacts, Exists
      <4> QED BY <4>1, <4>7, <4>8 DEF SourceFacts
    <3>9. row.at \notin {"run", "incomplete", "send"}
      BY <1>6, <1>8, <3>1
    <3> QED BY <2>2, <3>1, <3>2, <3>3, <3>4, <3>7, <3>8, <3>9, MadeKeeps
  <2> QED BY <1>11, <2>1, <2>2, Creating
<1> QED BY <1>2, <1>3, <1>4, <1>7, <1>10, <1>11 DEF StoreCandidate

LEMMA FinishSourceKeeps ==
    ASSUME PreparationIInv, NEW r \in Preparers, FinishSource(r)
    PROVE  PreparationIInv'
<1>1. run[r].at = "store" /\ run[r].p > run[r].problems
  BY DEF FinishSource, IsAt
<1>2. PICK old \in RunRows : old = run[r]
  BY <1>1, Storing
<1>3. PICK s \in Numbers : s = old.i /\ s \in Sources
  BY <1>1, <1>2, Storing
<1>4. PICK done : done = NextSource(r, "load")
  OBVIOUS
<1>5. done \in RunRows /\ done.at = "load"
  BY <1>1, <1>4, RowsTyped, RowFields DEF RunSteps
<1>6. PICK error : error = Failing(r, "internal", old.n)
  OBVIOUS
<1>7. error \in RunRows /\ error.at = "fail" /\ error.i = s /\ error.kind = "internal"
  BY <1>1, <1>2, <1>3, <1>6, Storing, RowsTyped, RowFields
<1>8. RowFacts(error)
  BY <1>3, <1>7, FailingFacts
<1>9. PICK text : text = [p \in 1..old.problems |-> "model"]
  OBVIOUS
<1>10. CreateFile(r, Completed(s), Receipt(old.n, text), done, error)
  BY <1>2, <1>3, <1>4, <1>6, <1>9 DEF FinishSource
<1>11. CASE MovesTo(r, error) /\ UNCHANGED file
  BY <1>7, <1>8, <1>10, <1>11, Creating, QuietKeeps
<1>12. CASE ~Exists(Completed(s)) /\ file' = Put(Completed(s), Receipt(old.n, text))
  <2>1. PICK row \in {Idle} \cup RunRows : MovesTo(r, row) /\ row \in {error, done}
    BY <1>5, <1>7, <1>10, <1>12, Creating
  <2>2. PICK path \in PreparedPaths : path = Completed(s)
    BY PathsPrepared
  <2>3. /\ path \notin {Complete, Incomplete, PrepareRun}
        /\ \A t \in Numbers : path \notin {Failed(t), Candidate(t, 1), Candidate(t, 2)}
        /\ \A t \in Numbers : path = Completed(t) => t = s
    BY <2>2, PathKinds
  <2>4. UNCHANGED <<confirmedSources, repairManifest, sent>>
    BY <1>10, Creating
  <2>5. /\ file'[path] = Receipt(old.n, text)
        /\ \A other \in PreparedPaths : other # path => file'[other] = file[other]
    BY <1>12, <2>2, PutWrites DEF PreparationIInv
  <2>6. ASSUME Progress PROVE RowFacts(row)'
    <3>1. CASE row = error
      BY <1>7, <1>8, <2>4, <2>6, <3>1, RowLasts DEF PreparationIInv, SourceFacts
    <3>2. CASE row = done
      BY <1>5, <3>2, CalmFacts DEF Calm
    <3> QED BY <2>1, <3>1, <3>2
  <2>7. ASSUME Progress, NEW t \in Numbers, path \in {Completed(t), Failed(t), Candidate(t, 1), Candidate(t, 2)}
        PROVE  SourceFacts(t)'
    <3>1. t = s
      BY <2>3, <2>7
    <3>2. SourceFacts(s)
      BY DEF PreparationIInv
    <3>3. /\ Failed(s) \in PreparedPaths
          /\ Candidate(s, 1) \in PreparedPaths /\ Candidate(s, 2) \in PreparedPaths
      BY PathsPrepared DEF Problems
    <3>4. /\ file'[Failed(s)] = file[Failed(s)]
          /\ file'[Candidate(s, 1)] = file[Candidate(s, 1)] /\ file'[Candidate(s, 2)] = file[Candidate(s, 2)]
      BY <2>3, <2>5, <3>3
    <3>5. old.problems \in Problems /\ old.n \in RequestNumbers /\ sent[s][1] = 1
      BY <1>1, <1>2, <1>3, Storing
    <3>6. text \in CandidateTexts
      BY <1>9, <3>5 DEF CandidateTexts, Problems
    <3>7. Receipt(old.n, text) \in Receipts /\ Receipt(old.n, text).candidates = text
      BY <3>5, <3>6 DEF Receipts, Receipt
    <3>8. \A p \in 1..old.problems : p \in Problems /\ file[Candidate(s, p)] = "model"
      <4>1. \A p \in 1..(old.p - 1) : file[Candidate(s, p)] = "model"
        BY <1>1, <1>2, <1>3, Storing
      <4>2. old.p - 1 = old.problems
        BY <1>1, <1>2, <3>5, Storing DEF Problems
      <4> QED BY <3>5, <4>1, <4>2 DEF Problems
    <3>9. \A p \in 1..old.problems : file'[Candidate(s, p)] = "model"
      BY <3>4, <3>8 DEF Problems
    <3>10. CandidatesMatch(s)'
      <4>1. file'[Completed(s)].candidates = text
        BY <2>2, <2>5, <3>7
      <4>2. DOMAIN text = 1..old.problems /\ \A p \in 1..old.problems : text[p] = "model"
        BY <1>9
      <4> QED BY <3>9, <4>1, <4>2 DEF CandidatesMatch
    <3>11. CompletedFacts(s)'
      BY <2>2, <2>4, <2>5, <3>5, <3>7, <3>10 DEF CompletedFacts, Receipts, RequestNumbers
    <3>12. SentFacts(s)' /\ FailedFacts(s)' /\ CandidateFacts(s)' /\ ManifestFacts(s)'
      BY <2>4, <2>7, <3>2, <3>4, SentKept, FailedKept, CandidateKept, ManifestKept DEF SourceFacts, Exists
    <3> QED BY <3>1, <3>11, <3>12 DEF SourceFacts
  <2>8. row.at \notin {"run", "incomplete", "send"}
    BY <1>5, <1>7, <2>1
  <2> QED BY <1>12, <2>1, <2>2, <2>3, <2>4, <2>6, <2>7, <2>8, MadeKeeps
<1> QED BY <1>10, <1>11, <1>12, Creating

LEMMA WriteFailureKeeps ==
    ASSUME PreparationIInv, NEW r \in Preparers, WriteFailure(r)
    PROVE  PreparationIInv'
<1>1. run[r].at = "fail"
  BY DEF WriteFailure, IsAt
<1>2. PICK old \in RunRows : old = run[r] /\ RowFacts(old)
  BY <1>1, AtWork
<1>3. PICK s \in Numbers : s = old.i /\ s \in Sources
  BY <1>1, <1>2, SourcesNumbered DEF RowFacts, RequestFacts, SourceSteps, PreparationIInv
<1>4. PICK done : done = IF run[r].kind = "cancelled" THEN Continue(r, "summary") ELSE NextSource(r, "load")
  OBVIOUS
<1>5. done \in RunRows /\ done.at \in {"summary", "load"} /\ Idle.at = "idle"
  BY <1>1, <1>4, RowsTyped, RowFields DEF RunSteps
<1>6. PICK receipt : receipt = [kind |-> old.kind, attempts |-> old.n]
  OBVIOUS
<1>7. CreateFile(r, Failed(s), receipt, done, Idle)
  BY <1>2, <1>3, <1>4, <1>6 DEF WriteFailure
<1>8. CASE MovesTo(r, Idle) /\ UNCHANGED file
  BY <1>5, <1>7, <1>8, Creating, QuietKeeps, CalmFacts DEF Calm
<1>9. CASE ~Exists(Failed(s)) /\ file' = Put(Failed(s), receipt)
  <2>1. PICK row \in {Idle} \cup RunRows : MovesTo(r, row) /\ row \in {Idle, done}
    BY <1>5, <1>7, <1>9, Creating
  <2>2. PICK path \in PreparedPaths : path = Failed(s)
    BY PathsPrepared
  <2>3. /\ path \notin {Complete, Incomplete, PrepareRun}
        /\ \A t \in Numbers : path \notin {Completed(t), Candidate(t, 1), Candidate(t, 2)}
        /\ \A t \in Numbers : path = Failed(t) => t = s
    BY <2>2, PathKinds
  <2>4. UNCHANGED <<confirmedSources, repairManifest, sent>>
    BY <1>7, Creating
  <2>5. file'[path] = receipt /\ \A other \in PreparedPaths : other # path => file'[other] = file[other]
    BY <1>9, <2>2, PutWrites DEF PreparationIInv
  <2>6. row.at \in {"idle", "summary", "load"}
    BY <1>5, <2>1
  <2>7. RowFacts(row)'
    BY <2>6, CalmFacts DEF Calm
  <2>8. ASSUME Progress, NEW t \in Numbers, path \in {Completed(t), Failed(t), Candidate(t, 1), Candidate(t, 2)}
        PROVE  SourceFacts(t)'
    <3>1. t = s
      BY <2>3, <2>8
    <3>2. SourceFacts(s)
      BY DEF PreparationIInv
    <3>3. /\ Completed(s) \in PreparedPaths
          /\ Candidate(s, 1) \in PreparedPaths /\ Candidate(s, 2) \in PreparedPaths
      BY PathsPrepared DEF Problems
    <3>4. /\ file'[Completed(s)] = file[Completed(s)]
          /\ file'[Candidate(s, 1)] = file[Candidate(s, 1)] /\ file'[Candidate(s, 2)] = file[Candidate(s, 2)]
      BY <2>3, <2>5, <3>3
    <3>5. receipt.kind = "schema" => receipt.attempts \in RequestNumbers /\ sent[s][1] = 1
      BY <1>1, <1>2, <1>3, <1>6 DEF RowFacts, RequestFacts
    <3>6. FailedFacts(s)'
      BY <2>2, <2>4, <2>5, <3>5 DEF FailedFacts, RequestNumbers
    <3>7. Exists(Failed(s)) => Exists(Failed(s))'
      BY <1>9
    <3>8. SentFacts(s)' /\ CompletedFacts(s)' /\ CandidateFacts(s)' /\ ManifestFacts(s)'
      BY <2>4, <2>8, <3>2, <3>4, <3>7, SentKept, CompletedKept, CandidateKept, ManifestKept DEF SourceFacts, Exists
    <3> QED BY <3>1, <3>6, <3>8 DEF SourceFacts
  <2>9. row.at \notin {"run", "incomplete", "send"}
    BY <2>6
  <2> QED BY <1>9, <2>1, <2>2, <2>3, <2>4, <2>7, <2>8, <2>9, MadeKeeps
<1> QED BY <1>7, <1>8, <1>9, Creating

(* Where the list for the reviewers is that of the completed records.      *)
LEMMA ClosingRow ==
    ASSUME PreparationIInv, NEW r \in Preparers, run[r].at \in ClosingSteps
    PROVE  run[r] \in RunRows /\ ClosingFacts(run[r]) /\ Reported /\ run[r].report = Report
BY AtWork DEF ClosingSteps, RowFacts, ClosingFacts

LEMMA OnlyClosing ==
    ASSUME NEW row, row.at \in ClosingSteps
    PROVE  /\ RequestFacts(row) /\ StoreFacts(row) /\ RepairFacts(row)
           /\ RequestFacts(row)' /\ StoreFacts(row)' /\ RepairFacts(row)'
BY DEF ClosingSteps, RequestFacts, StoreFacts, RepairFacts, SourceSteps, Repairing

LEMMA SummarizeKeeps ==
    ASSUME PreparationIInv, NEW r \in Preparers, Summarize(r)
    PROVE  PreparationIInv'
<1>1. run[r].at = "summary" /\ UNCHANGED <<confirmedSources, file, repairManifest, sent>>
  BY DEF Summarize, IsAt, Stay
<1>2. CASE MovesTo(r, Idle)
  BY <1>1, <1>2, RowFields, QuietKeeps, CalmFacts DEF Calm
<1>3. CASE \A s \in Sources : SourceState(s) = "completed"
  <2>1. PICK row : row = [run[r] EXCEPT !.at = "review",
                                       !.report = [s \in Sources |-> file[Completed(s)].candidates]]
    OBVIOUS
  <2>2. PICK old \in RunRows : old = run[r]
    BY <1>1, AtWork
  <2>3. Reported
    BY <1>3 DEF Reported, SourceState
  <2>4. Report \in Lists
    BY <2>3, ReportListed DEF PreparationIInv, SourceFacts
  <2>5. row = [old EXCEPT !.at = "review", !.report = Report]
    BY <2>1, <2>2 DEF Report
  <2>6. row \in RunRows
    BY <2>4, <2>5, RowChanged DEF RunSteps
  <2>7. row.at = "review" /\ row.report = Report
    BY <2>5 DEF RunRows
  <2>8. RowFacts(row)
    BY <2>3, <2>7, OnlyClosing DEF RowFacts, ClosingFacts, ClosingSteps
  <2>9. CASE MovesTo(r, row)
    BY <1>1, <2>6, <2>7, <2>8, <2>9, QuietKeeps
  <2> QED BY <1>2, <2>1, <2>9 DEF Summarize
<1> QED BY <1>2, <1>3 DEF Summarize

LEMMA WriteReviewKeeps ==
    ASSUME PreparationIInv, NEW r \in Preparers, WriteReview(r)
    PROVE  PreparationIInv'
<1>1. run[r].at = "review" /\ WriteOrValidate(r, ReviewFile, run[r].report, Continue(r, "finalize"))
  BY DEF WriteReview, IsAt
<1>2. Reported /\ run[r].report = Report
  BY <1>1, ClosingRow DEF ClosingSteps
<1>3. PICK done : done = Continue(r, "finalize")
  OBVIOUS
<1>4. done \in RunRows /\ done.at = "finalize" /\ done.report = Report /\ Idle.at = "idle"
  BY <1>1, <1>2, <1>3, RowsTyped, RowFields DEF RunSteps
<1>5. UNCHANGED <<confirmedSources, repairManifest, sent>>
  BY <1>1, Validating
<1>6. CASE MovesTo(r, Idle) /\ UNCHANGED file
  BY <1>4, <1>5, <1>6, QuietKeeps, CalmFacts DEF Calm
<1>7. CASE file[ReviewFile] = run[r].report /\ MovesTo(r, done) /\ UNCHANGED file
  <2>1. RowFacts(done)
    BY <1>2, <1>4, <1>7, OnlyClosing DEF RowFacts, ClosingFacts, ClosingSteps
  <2> QED BY <1>4, <1>5, <1>7, <2>1, QuietKeeps
<1>8. CASE ~Exists(ReviewFile) /\ file' = Put(ReviewFile, run[r].report)
  <2>1. PICK row \in {Idle} \cup RunRows : MovesTo(r, row) /\ row \in {Idle, done}
    BY <1>1, <1>3, <1>4, <1>8, Validating
  <2>2. PICK path \in PreparedPaths : path = ReviewFile
    BY PathsPrepared
  <2>3. /\ path \notin {Complete, Incomplete, PrepareRun}
        /\ \A t \in Numbers : path \notin {Completed(t), Failed(t), Candidate(t, 1), Candidate(t, 2)}
    BY <2>2, PathKinds
  <2>4. file'[ReviewFile] = Report
    BY <1>2, <1>8, <2>2, PutWrites DEF PreparationIInv
  <2>5. ASSUME Progress PROVE RowFacts(row)'
    <3>1. CASE row = Idle
      BY <3>1, IdleFacts
    <3>2. CASE row = done
      <4>1. Reported' /\ Report' = Report
        BY <1>2, <2>5, ReportLasts DEF PreparationIInv
      <4>2. ClosingFacts(done)'
        BY <1>4, <2>4, <4>1 DEF ClosingFacts, ClosingSteps
      <4> QED BY <1>4, <3>2, <4>2, OnlyClosing DEF RowFacts, ClosingSteps
    <3> QED BY <2>1, <3>1, <3>2
  <2>6. row.at \notin {"run", "incomplete", "send"}
    BY <1>4, <2>1
  <2> QED BY <1>5, <1>8, <2>1, <2>2, <2>3, <2>5, <2>6, MadeKeeps
<1> QED BY <1>1, <1>3, <1>6, <1>7, <1>8, Validating

LEMMA LinkRunKeeps ==
    ASSUME PreparationIInv, NEW r \in Preparers, LinkRun(r)
    PROVE  PreparationIInv'
<1>1. run[r].at = "finalize"
  BY DEF LinkRun, IsAt
<1>2. Reported /\ run[r].report = Report /\ file[ReviewFile] = run[r].report
  BY <1>1, ClosingRow DEF ClosingSteps, ClosingFacts
<1>3. CASE Exists(Incomplete)
  <2>1. PICK done : done = Continue(r, "unlink")
    OBVIOUS
  <2>2. done \in RunRows /\ done.at = "unlink" /\ done.report = Report /\ Idle.at = "idle"
    BY <1>1, <1>2, <2>1, RowsTyped, RowFields DEF RunSteps
  <2>3. CreateFile(r, PrepareRun, "run", done, Idle)
    BY <1>3, <2>1 DEF LinkRun
  <2>4. UNCHANGED <<confirmedSources, repairManifest, sent>>
    BY <2>3, Creating
  <2>5. CASE MovesTo(r, Idle) /\ UNCHANGED file
    BY <2>2, <2>4, <2>5, QuietKeeps, CalmFacts DEF Calm
  <2>6. CASE ~Exists(PrepareRun) /\ file' = Put(PrepareRun, "run")
    <3>1. PICK row \in {Idle} \cup RunRows : MovesTo(r, row) /\ row \in {Idle, done}
      BY <2>2, <2>3, <2>6, Creating
    <3>2. PICK path \in PreparedPaths : path = PrepareRun
      BY PathsPrepared
    <3>3. /\ path \notin {Complete, Incomplete, ReviewFile}
          /\ \A t \in Numbers : path \notin {Completed(t), Failed(t), Candidate(t, 1), Candidate(t, 2)}
      BY <3>2, PathKinds
    <3>4. file'[PrepareRun] = "run" /\ file'[ReviewFile] = file[ReviewFile]
      BY <2>6, <3>2, <3>3, PutWrites, PathsPrepared DEF PreparationIInv
    <3>5. ASSUME Progress PROVE RowFacts(row)'
      <4>1. CASE row = Idle
        BY <4>1, IdleFacts
      <4>2. CASE row = done
        <5>1. Reported' /\ Report' = Report
          BY <1>2, <3>5, ReportLasts DEF PreparationIInv
        <5>2. ClosingFacts(done)'
          BY <1>2, <2>2, <3>4, <5>1, NothingIsNone DEF ClosingFacts, ClosingSteps, Exists
        <5> QED BY <2>2, <4>2, <5>2, OnlyClosing DEF RowFacts, ClosingSteps
      <4> QED BY <3>1, <4>1, <4>2
    <3>6. row.at \notin {"run", "incomplete", "send"}
      BY <2>2, <3>1
    <3> QED BY <1>3, <2>4, <2>6, <3>1, <3>2, <3>3, <3>5, <3>6, MadeKeeps
  <2> QED BY <2>3, <2>5, <2>6, Creating
<1>4. CASE ~Exists(Incomplete)
  <2>1. /\ MovesTo(r, IF Exists(PrepareRun) THEN Continue(r, "complete") ELSE Idle)
        /\ UNCHANGED <<confirmedSources, file, repairManifest, sent>>
    BY <1>4 DEF LinkRun, Stay
  <2>2. CASE MovesTo(r, Idle)
    BY <1>1, <2>1, <2>2, RowFields, QuietKeeps, CalmFacts DEF Calm
  <2>3. CASE Exists(PrepareRun) /\ MovesTo(r, Continue(r, "complete"))
    <3>1. PICK done : done = Continue(r, "complete")
      OBVIOUS
    <3>2. done \in RunRows /\ done.at = "complete" /\ done.report = Report
      BY <1>1, <1>2, <3>1, RowsTyped, RowFields DEF RunSteps
    <3>3. RowFacts(done)
      BY <1>2, <1>4, <2>3, <3>2, OnlyClosing DEF RowFacts, ClosingFacts, ClosingSteps
    <3> QED BY <2>1, <2>3, <3>1, <3>2, <3>3, QuietKeeps
  <2> QED BY <2>1, <2>2, <2>3
<1> QED BY <1>3, <1>4

LEMMA UnlinkIncompleteKeeps ==
    ASSUME PreparationIInv, NEW r \in Preparers, UnlinkIncomplete(r)
    PROVE  PreparationIInv'
<1>1. run[r].at = "unlink" /\ UNCHANGED <<confirmedSources, repairManifest, sent>>
  BY DEF UnlinkIncomplete, IsAt, Stay
<1>2. Reported /\ run[r].report = Report /\ file[ReviewFile] = run[r].report /\ Exists(PrepareRun)
  BY <1>1, ClosingRow DEF ClosingSteps, ClosingFacts
<1>3. PICK done : done = Continue(r, "complete")
  OBVIOUS
<1>4. done \in RunRows /\ done.at = "complete" /\ done.report = Report /\ Idle.at = "idle"
  BY <1>1, <1>2, <1>3, RowsTyped, RowFields DEF RunSteps
<1>5. PICK row \in {Idle} \cup RunRows : MovesTo(r, row) /\ row \in {Idle, done}
  BY <1>3, <1>4 DEF UnlinkIncomplete
<1>6. Incomplete \in PreparedPaths /\ file' = Put(Incomplete, None)
  BY PathsPrepared DEF UnlinkIncomplete
<1>7. ~Exists(Incomplete)' /\ file'[PrepareRun] = file[PrepareRun] /\ file'[ReviewFile] = file[ReviewFile]
  BY <1>6, PutWrites, PathsPrepared, PathKinds DEF PreparationIInv, Exists
<1>8. ASSUME Progress PROVE RowFacts(row)'
  <2>1. CASE row = Idle
    BY <2>1, IdleFacts
  <2>2. CASE row = done
    <3>1. Reported' /\ Report' = Report
      BY <1>2, <1>8, ReportLasts DEF PreparationIInv
    <3>2. ClosingFacts(done)'
      BY <1>2, <1>4, <1>7, <3>1 DEF ClosingFacts, ClosingSteps, Exists
    <3> QED BY <1>4, <2>2, <3>2, OnlyClosing DEF RowFacts, ClosingSteps
  <2> QED BY <1>5, <2>1, <2>2
<1>9. row.at \notin {"run", "incomplete", "send"}
  BY <1>4, <1>5
<1> QED BY <1>1, <1>5, <1>6, <1>8, <1>9, RemovedKeeps

LEMMA WriteCompleteKeeps ==
    ASSUME PreparationIInv, NEW r \in Preparers, WriteComplete(r)
    PROVE  PreparationIInv'
<1>1. run[r].at = "complete" /\ WriteOrValidate(r, Complete, run[r].report, Idle)
  BY DEF WriteComplete, IsAt
<1>2. /\ Reported /\ run[r].report = Report /\ file[ReviewFile] = run[r].report
      /\ Exists(PrepareRun) /\ ~Exists(Incomplete)
  BY <1>1, ClosingRow DEF ClosingSteps, ClosingFacts
<1>3. MovesTo(r, Idle) /\ UNCHANGED <<confirmedSources, repairManifest, sent>> /\ Idle.at = "idle"
  BY <1>1, Validating DEF Idle
<1>4. CASE UNCHANGED file
  BY <1>3, <1>4, QuietKeeps, CalmFacts DEF Calm
<1>5. CASE ~Exists(Complete) /\ file' = Put(Complete, run[r].report)
  <2>1. PreparationTypes /\ \A s \in Numbers : SourceFacts(s)
    BY DEF PreparationIInv
  <2>2. PICK path \in PreparedPaths : path = Complete
    BY PathsPrepared
  <2>3. PICK row \in {Idle} \cup RunRows : row = Idle
    OBVIOUS
  <2>4. path # Incomplete /\ Complete \notin {ReviewFile, Incomplete, PrepareRun}
    BY <2>2, PathKinds
  <2>5. Progress /\ PreparationTypes'
    BY <1>3, <1>5, <2>1, <2>2, <2>3, <2>4, MadeProgress DEF Progress
  <2>6. /\ file'[Complete] = Report
        /\ \A other \in PreparedPaths : other # Complete => file'[other] = file[other]
    BY <1>2, <1>5, <2>1, <2>2, PutWrites
  <2>7. /\ file'[ReviewFile] = Report /\ file'[Incomplete] = file[Incomplete]
        /\ file'[PrepareRun] = file[PrepareRun]
    BY <1>2, <2>4, <2>6, PathsPrepared
  <2>8. Reported' /\ Report' = Report
    BY <1>2, <2>1, <2>5, ReportLasts
  <2>9. CompleteIsTrue'
    BY <1>2, <2>6, <2>7, <2>8 DEF CompleteIsTrue, Reported, Report, Exists
  <2>10. MarkFacts'
    BY <1>3, <2>3, <2>5, <2>7, MarksKept DEF Exists
  <2>11. Alone'
    BY <1>3, <2>3, AloneKept
  <2>12. \A s \in Numbers : SourceFacts(s)'
    <3> SUFFICES ASSUME NEW s \in Numbers PROVE SourceFacts(s)'
      OBVIOUS
    <3>1. {Completed(s), Failed(s), Candidate(s, 1), Candidate(s, 2)} \subseteq PreparedPaths
      BY PathsPrepared DEF Problems
    <3>2. Complete \notin {Completed(s), Failed(s), Candidate(s, 1), Candidate(s, 2)}
      BY PathKinds
    <3>3. /\ file'[Completed(s)] = file[Completed(s)] /\ file'[Failed(s)] = file[Failed(s)]
          /\ file'[Candidate(s, 1)] = file[Candidate(s, 1)] /\ file'[Candidate(s, 2)] = file[Candidate(s, 2)]
      BY <2>6, <3>1, <3>2
    <3> QED BY <1>3, <2>1, <2>5, <3>3, SourceKept DEF Exists
  <2>13. \A q \in Preparers : RowFacts(run[q])'
    BY <1>3, <2>3, <2>5, IdleFacts, RowsKept DEF SendsAlone
  <2> QED BY <2>5, <2>9, <2>10, <2>11, <2>12, <2>13 DEF PreparationIInv
<1> QED BY <1>1, <1>4, <1>5, Validating

LEMMA WriteManifestKeeps ==
    ASSUME PreparationIInv, WriteManifest
    PROVE  PreparationIInv'
<1>1. repairManifest = None /\ UNCHANGED <<confirmedSources, file, run, sent>>
  BY DEF WriteManifest
<1>2. PICK chosen \in SUBSET {s \in Sources : Exists(Failed(s))} :
        repairManifest' = [s \in chosen |-> file[Failed(s)]]
  BY DEF WriteManifest
<1>3. PreparationTypes /\ MarkFacts /\ Alone /\ CompleteIsTrue
  BY DEF PreparationIInv
<1>4. PreparationTypes' /\ MarkFacts' /\ Alone' /\ CompleteIsTrue'
  BY <1>1, <1>3
     DEF PreparationTypes, MarkFacts, Alone, CompleteIsTrue, Preparing, Exists, Sources
<1>5. Progress
  BY <1>1, <1>4 DEF Progress, Exists
<1>6. \A s \in Numbers : SourceFacts(s)'
  <2> SUFFICES ASSUME NEW s \in Numbers PROVE SourceFacts(s)'
    OBVIOUS
  <2>1. SourceFacts(s)
    BY DEF PreparationIInv
  <2>2. file[Candidate(s, 1)] # "source"
    BY <1>1, <2>1 DEF SourceFacts, CandidateFacts, Repairable
  <2>3. CandidateFacts(s)'
    BY <1>1, <2>1, <2>2 DEF SourceFacts, CandidateFacts, Exists
  <2>4. s \in DOMAIN repairManifest' => Exists(Failed(s))' /\ repairManifest'[s] = file[Failed(s)]
    BY <1>1, <1>2 DEF Exists
  <2>5. ManifestFacts(s)'
    BY <1>1, <2>1, <2>4 DEF SourceFacts, FailedFacts, ManifestFacts, RequestNumbers, Exists
  <2>6. SentFacts(s)' /\ CompletedFacts(s)' /\ FailedFacts(s)'
    BY <1>1, <1>5, <2>1, SentKept, CompletedKept, FailedKept DEF SourceFacts, Exists
  <2> QED BY <2>3, <2>5, <2>6 DEF SourceFacts
<1>7. \A q \in Preparers : RowFacts(run[q])'
  <2> SUFFICES ASSUME NEW q \in Preparers PROVE RowFacts(run[q])'
    OBVIOUS
  <2>1. PICK kept \in {Idle} \cup RunRows : kept = run[q] /\ RowFacts(kept)
    BY DEF PreparationIInv, PreparationTypes
  <2>2. RowFacts(kept)'
    BY <1>1, <1>3, <1>5, <2>1, RowLasts DEF PreparationIInv, SourceFacts
  <2> QED BY <1>1, <2>1, <2>2
<1> QED BY <1>4, <1>6, <1>7 DEF PreparationIInv

(* Where a repair works through the sources of its manifest.               *)
LEMMA RepairingRow ==
    ASSUME PreparationIInv, NEW r \in Preparers, run[r].at \in Repairing
    PROVE  /\ run[r].at # "idle" /\ run[r] \in RunRows /\ RepairFacts(run[r])
           /\ repairManifest # None /\ run[r].todo \subseteq Sources /\ \A s \in run[r].todo : Repairable(s)
<1>1. run[r].at # "idle"
  BY DEF Repairing
<1>2. RepairFacts(run[r])
  BY <1>1, AtWork DEF RowFacts
<1> QED BY <1>1, <1>2, AtWork DEF RepairFacts

LEMMA RepairRow ==
    ASSUME NEW row, row.at \in {"supersede", "others", "repair"},
           repairManifest # None, row.todo \subseteq Sources, \A s \in row.todo : Repairable(s)
    PROVE  RowFacts(row)
BY DEF RowFacts, RequestFacts, StoreFacts, ClosingFacts, RepairFacts, SourceSteps, ClosingSteps, Repairing

LEMMA RemoveSupersededKeeps ==
    ASSUME PreparationIInv, NEW r \in Preparers, RemoveSuperseded(r)
    PROVE  PreparationIInv'
<1>1. run[r].at = "supersede" /\ UNCHANGED <<confirmedSources, repairManifest, sent>>
  BY DEF RemoveSuperseded, IsAt, Stay
<1>2. /\ run[r].at # "idle" /\ repairManifest # None /\ run[r].todo \subseteq Sources
      /\ \A s \in run[r].todo : Repairable(s)
  BY <1>1, RepairingRow DEF Repairing
<1>3. ASSUME NEW row \in {Continue(r, "others"), NextSource(r, "supersede")}, MovesTo(r, row), UNCHANGED file
      PROVE  PreparationIInv'
  <2>1. row \in RunRows /\ row.at \in {"others", "supersede"} /\ row.todo = run[r].todo
    BY <1>2, RowsTyped, RowFields DEF RunSteps
  <2>2. RowFacts(row)
    BY <1>2, <2>1, RepairRow
  <2> QED BY <1>1, <1>3, <2>1, <2>2, QuietKeeps
<1>4. CASE run[r].i \in Sources /\ run[r].i \in DOMAIN repairManifest
  <2>1. PICK s \in Numbers : s = run[r].i /\ s \in Sources /\ s \in DOMAIN repairManifest
    BY <1>4, SourcesNumbered DEF PreparationIInv
  <2>2. PICK row : row = Continue(r, "check")
    OBVIOUS
  <2>3. row \in RunRows /\ row.at = "check" /\ row.todo = run[r].todo /\ row.i = s
    BY <1>2, <2>1, <2>2, RowsTyped, RowFields DEF RunSteps
  <2>4. RowFacts(row)
    BY <1>2, <2>1, <2>3 DEF RowFacts, RequestFacts, StoreFacts, ClosingFacts, RepairFacts, SourceSteps, ClosingSteps, Repairing
  <2>5. MovesTo(r, row)
    BY <1>4, <2>2 DEF RemoveSuperseded
  <2>6. CASE UNCHANGED file
    BY <1>1, <2>3, <2>4, <2>5, <2>6, QuietKeeps
  <2>7. CASE Exists(Completed(s)) /\ file' = Put(Failed(s), None)
    <3>1. PICK path \in PreparedPaths : path = Failed(s)
      BY PathsPrepared
    <3>2. Progress => RowFacts(row)'
      BY <1>1, <2>3, <2>4, RowLasts DEF PreparationIInv, SourceFacts
    <3> QED BY <1>1, <2>3, <2>5, <2>7, <3>1, <3>2, RemovedKeeps
  <2>8. file' = file \/ (Exists(Completed(s)) /\ file' = Put(Failed(s), None))
    BY <1>4, <2>1 DEF RemoveSuperseded
  <2> QED BY <2>6, <2>7, <2>8
<1> QED BY <1>3, <1>4 DEF RemoveSuperseded

LEMMA CheckReceiptKeeps ==
    ASSUME PreparationIInv, NEW r \in Preparers, CheckReceipt(r)
    PROVE  PreparationIInv'
<1>1. run[r].at = "check" /\ UNCHANGED <<confirmedSources, file, repairManifest, sent>>
  BY DEF CheckReceipt, IsAt, Stay
<1>2. /\ run[r].at # "idle" /\ repairManifest # None /\ run[r].todo \subseteq Sources
      /\ \A s \in run[r].todo : Repairable(s)
      /\ run[r].i \in Sources /\ run[r].i \in DOMAIN repairManifest
  BY <1>1, AtWork, RepairingRow DEF Repairing, RepairFacts, RowFacts, RequestFacts, SourceSteps
<1>3. PICK s \in Numbers : s = run[r].i
  BY <1>2, SourcesNumbered DEF PreparationIInv
<1>4. CASE MovesTo(r, Idle)
  BY <1>1, <1>4, RowFields, QuietKeeps, CalmFacts DEF Calm
<1>5. CASE MovesTo(r, NextSource(r, "supersede"))
  <2>1. PICK row : row = NextSource(r, "supersede")
    OBVIOUS
  <2>2. row \in RunRows /\ row.at = "supersede" /\ row.todo = run[r].todo
    BY <1>2, <2>1, RowsTyped, RowFields DEF RunSteps
  <2>3. RowFacts(row)
    BY <1>2, <2>2, RepairRow
  <2> QED BY <1>1, <1>5, <2>1, <2>2, <2>3, QuietKeeps
<1>6. CASE /\ SourceState(s) = "failed" /\ file[Failed(s)] = repairManifest[s]
           /\ repairManifest[s].kind = "schema"
           /\ MovesTo(r, [NextSource(r, "supersede") EXCEPT !.todo = @ \cup {s}])
  <2>1. PICK old \in RunRows : old = NextSource(r, "supersede")
    BY <1>2, RowsTyped DEF RunSteps
  <2>2. old.at = "supersede" /\ old.todo = run[r].todo /\ old.i \in Nat \ {0}
    BY <1>2, <2>1, RowFields DEF RunRows
  <2>3. PICK row : row = [old EXCEPT !.todo = old.todo \cup {s}]
    OBVIOUS
  <2>4. MovesTo(r, row)
    BY <1>6, <2>1, <2>3
  <2>5. old.todo \cup {s} \in SUBSET Numbers
    BY <1>2, <2>2, SourcesNumbered DEF PreparationIInv
  <2>6. row \in RunRows
    BY <2>3, <2>5 DEF RunRows
  <2>7. row.at = "supersede" /\ row.todo = run[r].todo \cup {s}
    BY <2>2, <2>3 DEF RunRows
  <2>8. Repairable(s)
    <3>1. ManifestFacts(s)
      BY DEF PreparationIInv, SourceFacts
    <3> QED BY <1>2, <1>3, <1>6, <3>1 DEF ManifestFacts, Repairable
  <2>9. RowFacts(row)
    BY <1>2, <1>3, <2>7, <2>8, RepairRow
  <2> QED BY <1>1, <2>4, <2>6, <2>7, <2>9, QuietKeeps
<1>7. \/ MovesTo(r, Idle) \/ MovesTo(r, NextSource(r, "supersede"))
      \/ /\ SourceState(s) = "failed" /\ file[Failed(s)] = repairManifest[s]
         /\ repairManifest[s].kind = "schema"
         /\ MovesTo(r, [NextSource(r, "supersede") EXCEPT !.todo = @ \cup {s}])
  <2> DEFINE done == SourceState(s) = "completed" /\ file[Completed(s)].candidates[1] = "source"
  <2> DEFINE fits == /\ SourceState(s) = "failed"
                     /\ file[Failed(s)] = repairManifest[s]
                     /\ repairManifest[s].kind = "schema" /\ repairManifest[s].attempts > 0
  <2> DEFINE added == [NextSource(r, "supersede") EXCEPT !.todo = @ \cup {s}]
  <2>1. MovesTo(r, CASE done -> NextSource(r, "supersede") [] fits -> added [] OTHER -> Idle)
    BY <1>3 DEF CheckReceipt
  <2>2. ~(done /\ fits)
    OBVIOUS
  <2>3. CASE done
    BY <2>1, <2>2, <2>3
  <2>4. CASE fits
    <3>1. ~done
      BY <2>4
    <3>2. (CASE done -> NextSource(r, "supersede") [] fits -> added [] OTHER -> Idle) = added
      BY <2>4, <3>1
    <3> QED BY <2>1, <2>4, <3>2
  <2>5. CASE ~done /\ ~fits
    BY <2>1, <2>5
  <2> QED BY <2>3, <2>4, <2>5
<1> QED BY <1>4, <1>5, <1>6, <1>7

LEMMA CheckOthersKeeps ==
    ASSUME PreparationIInv, NEW r \in Preparers, CheckOthers(r)
    PROVE  PreparationIInv'
<1>1. run[r].at = "others" /\ UNCHANGED <<confirmedSources, file, repairManifest, sent>>
  BY DEF CheckOthers, IsAt, Stay
<1>2. PICK old \in RunRows :
        /\ old = run[r] /\ repairManifest # None /\ old.todo \subseteq Sources
        /\ \A s \in old.todo : Repairable(s)
  BY <1>1, RepairingRow DEF Repairing
<1>3. CASE MovesTo(r, Idle)
  BY <1>1, <1>3, RowFields, QuietKeeps, CalmFacts DEF Calm
<1>4. CASE MovesTo(r, [run[r] EXCEPT !.at = "repair", !.i = 1])
  <2>1. PICK row : row = [old EXCEPT !.at = "repair", !.i = 1]
    OBVIOUS
  <2>2. row \in RunRows
    <3>1. "repair" \in RunSteps /\ 1 \in Nat \ {0}
      BY DEF RunSteps
    <3> QED BY <2>1, <3>1, RowChanged
  <2>3. row.at = "repair" /\ row.todo = old.todo
    BY <2>1 DEF RunRows
  <2>4. RowFacts(row)
    BY <1>2, <2>3, RepairRow
  <2> QED BY <1>1, <1>2, <1>4, <2>1, <2>2, <2>3, <2>4, QuietKeeps
<1> QED BY <1>3, <1>4 DEF CheckOthers

LEMMA RepairCandidateKeeps ==
    ASSUME PreparationIInv, NEW r \in Preparers, RepairCandidate(r)
    PROVE  PreparationIInv'
<1>1. run[r].at = "repair"
  BY DEF RepairCandidate, IsAt
<1>2. /\ run[r].at # "idle" /\ repairManifest # None /\ run[r].todo \subseteq Sources
      /\ \A s \in run[r].todo : Repairable(s)
  BY <1>1, RepairingRow DEF Repairing
<1>3. CASE run[r].i \notin run[r].todo
  <2>1. UNCHANGED <<confirmedSources, file, repairManifest, sent>>
    BY <1>3 DEF RepairCandidate, Stay
  <2>2. PICK row \in {NextSource(r, "repair"), Continue(r, "summary")} : MovesTo(r, row)
    BY <1>3 DEF RepairCandidate
  <2>3. row \in RunRows
    BY <1>2, <2>2, RowsTyped DEF RunSteps
  <2>4. row.at = "summary" \/ (row.at = "repair" /\ row.todo = run[r].todo)
    BY <1>2, <2>2, RowFields
  <2>5. RowFacts(row)
    BY <1>2, <2>4, RepairRow, CalmFacts DEF Calm
  <2> QED BY <2>1, <2>2, <2>3, <2>4, <2>5, QuietKeeps
<1>4. CASE run[r].i \in run[r].todo
  <2>1. PICK s \in Numbers : s = run[r].i /\ s \in Sources /\ Repairable(s)
    BY <1>2, <1>4, SourcesNumbered DEF PreparationIInv
  <2>2. PICK done : done = Continue(r, "settle")
    OBVIOUS
  <2>3. /\ done \in RunRows /\ done.at = "settle" /\ done.i = s /\ done.todo = run[r].todo
        /\ Idle.at = "idle"
    BY <1>2, <2>1, <2>2, RowsTyped, RowFields DEF RunSteps
  <2>4. WriteOrValidate(r, Candidate(s, 1), "source", done)
    BY <1>4, <2>1, <2>2 DEF RepairCandidate
  <2>5. UNCHANGED <<confirmedSources, repairManifest, sent>>
    BY <2>4, Validating
  <2>6. CASE MovesTo(r, Idle) /\ UNCHANGED file
    BY <2>3, <2>5, <2>6, QuietKeeps, CalmFacts DEF Calm
  <2>7. CASE file[Candidate(s, 1)] = "source" /\ MovesTo(r, done) /\ UNCHANGED file
    <3>1. RowFacts(done)
      BY <1>2, <1>4, <2>1, <2>3, <2>7
         DEF RowFacts, RequestFacts, StoreFacts, ClosingFacts, RepairFacts, SourceSteps, ClosingSteps, Repairing
    <3> QED BY <2>3, <2>5, <2>7, <3>1, QuietKeeps
  <2>8. CASE ~Exists(Candidate(s, 1)) /\ file' = Put(Candidate(s, 1), "source")
    <3>1. PICK row \in {Idle} \cup RunRows : MovesTo(r, row) /\ row \in {Idle, done}
      BY <2>3, <2>4, <2>8, Validating
    <3>2. PICK path \in PreparedPaths : path = Candidate(s, 1)
      BY PathsPrepared DEF Problems
    <3>3. /\ path \notin {Complete, Incomplete, PrepareRun, Candidate(s, 2)}
          /\ \A t \in Numbers : path \notin {Completed(t), Failed(t)}
          /\ \A t \in Numbers, q \in Problems : path = Candidate(t, q) => t = s /\ q = 1
      BY <3>2, PathKinds
    <3>4. file'[path] = "source" /\ \A other \in PreparedPaths : other # path => file'[other] = file[other]
      BY <2>8, <3>2, PutWrites DEF PreparationIInv
    <3>5. Repairable(s)' /\ Sources' = Sources
      BY <2>1, <2>5 DEF Repairable, Sources, RequestNumbers
    <3>6. \A t \in run[r].todo : Repairable(t)'
      BY <1>2, <2>5 DEF Repairable, RequestNumbers
    <3>7. RowFacts(row)'
      <4>1. CASE row = Idle
        BY <4>1, IdleFacts
      <4>2. CASE row = done
        BY <1>2, <1>4, <2>1, <2>3, <2>5, <3>2, <3>4, <3>5, <3>6, <4>2
           DEF RowFacts, RequestFacts, StoreFacts, ClosingFacts, RepairFacts, SourceSteps, ClosingSteps, Repairing
      <4> QED BY <3>1, <4>1, <4>2
    <3>8. ASSUME Progress, NEW t \in Numbers, path \in {Completed(t), Failed(t), Candidate(t, 1), Candidate(t, 2)}
          PROVE  SourceFacts(t)'
      <4>1. t = s
        BY <3>3, <3>8 DEF Problems
      <4>2. SourceFacts(s)
        BY DEF PreparationIInv
      <4>3. Completed(s) \in PreparedPaths /\ Failed(s) \in PreparedPaths /\ Candidate(s, 2) \in PreparedPaths
        BY PathsPrepared DEF Problems
      <4>4. /\ file'[Completed(s)] = file[Completed(s)] /\ file'[Failed(s)] = file[Failed(s)]
            /\ file'[Candidate(s, 2)] = file[Candidate(s, 2)]
        BY <3>3, <3>4, <4>3
      <4>5. ~Exists(Candidate(s, 2))
        BY <2>8, <4>2, NothingIsNone DEF SourceFacts, CandidateFacts, Exists
      <4>6. CandidateFacts(s)'
        BY <3>5, <4>4, <4>5 DEF CandidateFacts, Exists
      <4>7. SentFacts(s)' /\ CompletedFacts(s)' /\ FailedFacts(s)' /\ ManifestFacts(s)'
        BY <2>5, <3>8, <4>2, <4>4, SentKept, CompletedKept, FailedKept, ManifestKept DEF SourceFacts, Exists
      <4> QED BY <4>1, <4>6, <4>7 DEF SourceFacts
    <3>9. row.at \notin {"run", "incomplete", "send"}
      BY <2>3, <3>1
    <3> QED BY <2>5, <2>8, <3>1, <3>2, <3>3, <3>7, <3>8, <3>9, MadeKeeps
  <2> QED BY <2>4, <2>6, <2>7, <2>8, Validating
<1> QED BY <1>3, <1>4

LEMMA RepairCompletedKeeps ==
    ASSUME PreparationIInv, NEW r \in Preparers, RepairCompleted(r)
    PROVE  PreparationIInv'
<1>1. run[r].at = "settle"
  BY DEF RepairCompleted, IsAt
<1>2. /\ run[r].at # "idle" /\ repairManifest # None /\ run[r].todo \subseteq Sources
      /\ \A s \in run[r].todo : Repairable(s)
      /\ run[r].i \in run[r].todo /\ file[Candidate(run[r].i, 1)] = "source"
  BY <1>1, RepairingRow DEF Repairing, RepairFacts
<1>3. PICK s \in Numbers : s = run[r].i /\ s \in Sources /\ Repairable(s)
  BY <1>2, SourcesNumbered DEF PreparationIInv
<1>4. PICK done : done = Continue(r, "remove")
  OBVIOUS
<1>5. done \in RunRows /\ done.at = "remove" /\ done.i = s /\ done.todo = run[r].todo /\ Idle.at = "idle"
  BY <1>2, <1>3, <1>4, RowsTyped, RowFields DEF RunSteps
<1>6. PICK text : text = [p \in 1..1 |-> "source"]
  OBVIOUS
<1>7. PICK attempts \in RequestNumbers : attempts = repairManifest[s].attempts
  BY <1>3 DEF Repairable
<1>8. WriteOrValidate(r, Completed(s), Receipt(attempts, text), done)
  BY <1>3, <1>4, <1>6, <1>7 DEF RepairCompleted
<1>9. UNCHANGED <<confirmedSources, repairManifest, sent>>
  BY <1>8, Validating
<1>10. CASE MovesTo(r, Idle) /\ UNCHANGED file
  BY <1>5, <1>9, <1>10, QuietKeeps, CalmFacts DEF Calm
<1>11. CASE Exists(Completed(s)) /\ MovesTo(r, done) /\ UNCHANGED file
  <2>1. RowFacts(done)
    BY <1>2, <1>3, <1>5, <1>11
       DEF RowFacts, RequestFacts, StoreFacts, ClosingFacts, RepairFacts, SourceSteps, ClosingSteps, Repairing
  <2> QED BY <1>5, <1>9, <1>11, <2>1, QuietKeeps
<1>12. CASE ~Exists(Completed(s)) /\ file' = Put(Completed(s), Receipt(attempts, text))
  <2>1. PICK row \in {Idle} \cup RunRows : MovesTo(r, row) /\ row \in {Idle, done}
    BY <1>5, <1>8, <1>12, Validating
  <2>2. PICK path \in PreparedPaths : path = Completed(s)
    BY PathsPrepared
  <2>3. /\ path \notin {Complete, Incomplete, PrepareRun}
        /\ \A t \in Numbers : path \notin {Failed(t), Candidate(t, 1), Candidate(t, 2)}
        /\ \A t \in Numbers : path = Completed(t) => t = s
    BY <2>2, PathKinds
  <2>4. /\ file'[path] = Receipt(attempts, text)
        /\ \A other \in PreparedPaths : other # path => file'[other] = file[other]
    BY <1>12, <2>2, PutWrites DEF PreparationIInv
  <2>5. text \in CandidateTexts
    BY <1>6 DEF CandidateTexts
  <2>6. Receipt(attempts, text) \in Receipts /\ Receipt(attempts, text).candidates = text
    BY <2>5 DEF Receipts, Receipt
  <2>7. Exists(Completed(s))'
    BY <2>2, <2>4, <2>6, NothingIsNone DEF Exists
  <2>8. \A t \in run[r].todo : Repairable(t)'
    BY <1>2, <1>9 DEF Repairable, RequestNumbers
  <2>9. RowFacts(row)'
    <3>1. CASE row = Idle
      BY <3>1, IdleFacts
    <3>2. CASE row = done
      BY <1>2, <1>3, <1>5, <1>9, <2>7, <2>8, <3>2
         DEF RowFacts, RequestFacts, StoreFacts, ClosingFacts, RepairFacts, SourceSteps, ClosingSteps, Repairing, Sources
    <3> QED BY <2>1, <3>1, <3>2
  <2>10. ASSUME Progress, NEW t \in Numbers, path \in {Completed(t), Failed(t), Candidate(t, 1), Candidate(t, 2)}
         PROVE  SourceFacts(t)'
    <3>1. t = s
      BY <2>3, <2>10
    <3>2. SourceFacts(s)
      BY DEF PreparationIInv
    <3>3. /\ Failed(s) \in PreparedPaths
          /\ Candidate(s, 1) \in PreparedPaths /\ Candidate(s, 2) \in PreparedPaths
      BY PathsPrepared DEF Problems
    <3>4. /\ file'[Failed(s)] = file[Failed(s)]
          /\ file'[Candidate(s, 1)] = file[Candidate(s, 1)] /\ file'[Candidate(s, 2)] = file[Candidate(s, 2)]
      BY <2>3, <2>4, <3>3
    <3>5. CandidatesMatch(s)'
      <4>1. file'[Completed(s)].candidates = text
        BY <2>2, <2>4, <2>6
      <4>2. DOMAIN text = {1} /\ text[1] = "source"
        BY <1>6
      <4>3. file'[Candidate(s, 1)] = "source"
        BY <1>2, <1>3, <3>4
      <4> QED BY <4>1, <4>2, <4>3 DEF CandidatesMatch
    <3>6. CompletedFacts(s)'
      BY <1>3, <1>9, <2>2, <2>4, <2>6, <3>5 DEF CompletedFacts, Receipts, RequestNumbers, Repairable
    <3>7. SentFacts(s)' /\ FailedFacts(s)' /\ CandidateFacts(s)' /\ ManifestFacts(s)'
      BY <1>9, <2>10, <3>2, <3>4, SentKept, FailedKept, CandidateKept, ManifestKept DEF SourceFacts, Exists
    <3> QED BY <3>1, <3>6, <3>7 DEF SourceFacts
  <2>11. row.at \notin {"run", "incomplete", "send"}
    BY <1>5, <2>1
  <2> QED BY <1>9, <1>12, <2>1, <2>2, <2>3, <2>9, <2>10, <2>11, MadeKeeps
<1> QED BY <1>8, <1>10, <1>11, <1>12, Validating

LEMMA RemoveFailureKeeps ==
    ASSUME PreparationIInv, NEW r \in Preparers, RemoveFailure(r)
    PROVE  PreparationIInv'
<1>1. run[r].at = "remove" /\ UNCHANGED <<confirmedSources, repairManifest, sent>>
  BY DEF RemoveFailure, IsAt, Stay
<1>2. /\ run[r].at # "idle" /\ repairManifest # None /\ run[r].todo \subseteq Sources
      /\ \A s \in run[r].todo : Repairable(s)
      /\ run[r].i \in run[r].todo /\ Exists(Completed(run[r].i))
  BY <1>1, RepairingRow DEF Repairing, RepairFacts
<1>3. PICK s \in Numbers : s = run[r].i /\ Exists(Completed(s))
  BY <1>2, SourcesNumbered DEF PreparationIInv
<1>4. PICK row : row = NextSource(r, "repair")
  OBVIOUS
<1>5. row \in RunRows /\ row.at = "repair" /\ row.todo = run[r].todo
  BY <1>2, <1>4, RowsTyped, RowFields DEF RunSteps
<1>6. RowFacts(row)
  BY <1>2, <1>5, RepairRow
<1>7. Progress => RowFacts(row)'
  BY <1>5, <1>6, RowLasts DEF PreparationIInv, SourceFacts
<1>8. PICK path \in PreparedPaths : path = Failed(s)
  BY PathsPrepared
<1>9. MovesTo(r, row) /\ file' = Put(path, None)
  BY <1>3, <1>4, <1>8 DEF RemoveFailure
<1> QED BY <1>1, <1>3, <1>5, <1>7, <1>8, <1>9, RemovedKeeps

LEMMA PreparerDiesKeeps ==
    ASSUME PreparationIInv, NEW r \in Preparers, PreparerDies(r)
    PROVE  PreparationIInv'
<1>1. MovesTo(r, Idle) /\ UNCHANGED <<confirmedSources, file, repairManifest, sent>> /\ Idle.at = "idle"
  BY DEF PreparerDies, Stay, Idle
<1> QED BY <1>1, QuietKeeps, CalmFacts DEF Calm

LEMMA PreparationInitHolds == PreparationInit => PreparationIInv
<1> SUFFICES ASSUME PreparationInit PROVE PreparationIInv
  OBVIOUS
<1>1. /\ confirmedSources \in Numbers /\ file = [path \in PreparedPaths |-> None] /\ repairManifest = None
      /\ run = [r \in Preparers |-> Idle] /\ sent = [s \in Numbers |-> [n \in RequestNumbers |-> 0]]
  BY DEF PreparationInit, Numbers
<1>2. \A path \in PreparedPaths : file[path] = None
  BY <1>1
<1>3. PreparationTypes
  BY <1>1 DEF PreparationTypes
<1>4. MarkFacts /\ Alone
  BY <1>1, <1>2, PathsPrepared DEF MarkFacts, Alone, Preparing, Idle, Exists
<1>5. CompleteIsTrue
  BY <1>2, PathsPrepared DEF CompleteIsTrue, Exists
<1>6. \A s \in Numbers : SourceFacts(s)
  BY <1>1, <1>2, PathsPrepared, NothingIsNone
     DEF SourceFacts, SentFacts, CompletedFacts, FailedFacts, CandidateFacts, ManifestFacts, Exists, Problems
<1>7. \A r \in Preparers : RowFacts(run[r])
  BY <1>1, IdleFacts
<1> QED BY <1>3, <1>4, <1>5, <1>6, <1>7 DEF PreparationIInv

LEMMA PreparationStep == PreparationIInv /\ [PreparationNext]_preparationVars => PreparationIInv'
<1> SUFFICES ASSUME PreparationIInv, [PreparationNext]_preparationVars PROVE PreparationIInv'
  OBVIOUS
<1>1. CASE WriteManifest
  BY <1>1, WriteManifestKeeps
<1>2. ASSUME NEW r \in Preparers,
             \/ StartFresh(r) \/ StartResume(r) \/ MakeDirectories(r) \/ WriteRun(r)
             \/ WriteIncomplete(r) \/ Load(r) \/ ReadSource(r) \/ Register(r) \/ Send(r)
             \/ Cancelled(r) \/ Answer(r) \/ RegisterRetry(r) \/ StoreCandidate(r) \/ FinishSource(r)
      PROVE  PreparationIInv'
  BY <1>2, StartsKeep, MakeDirectoriesKeeps, WriteRunKeeps, WriteIncompleteKeeps, LoadKeeps, ReadSourceKeeps,
     RegisterKeeps, SendKeeps, CancelledKeeps, AnswerKeeps, RegisterRetryKeeps, StoreCandidateKeeps,
     FinishSourceKeeps
<1>3. ASSUME NEW r \in Preparers,
             \/ WriteFailure(r) \/ Summarize(r) \/ WriteReview(r) \/ LinkRun(r)
             \/ UnlinkIncomplete(r) \/ WriteComplete(r)
             \/ StartRepair(r) \/ RemoveSuperseded(r) \/ CheckReceipt(r) \/ CheckOthers(r)
             \/ RepairCandidate(r) \/ RepairCompleted(r) \/ RemoveFailure(r)
             \/ PreparerDies(r)
      PROVE  PreparationIInv'
  BY <1>3, WriteFailureKeeps, SummarizeKeeps, WriteReviewKeeps, LinkRunKeeps, UnlinkIncompleteKeeps,
     WriteCompleteKeeps, StartsKeep, RemoveSupersededKeeps, CheckReceiptKeeps, CheckOthersKeeps,
     RepairCandidateKeeps, RepairCompletedKeeps, RemoveFailureKeeps, PreparerDiesKeeps
<1>4. CASE UNCHANGED preparationVars
  <2> USE <1>4 DEF preparationVars
  <2>1. PreparationTypes' /\ MarkFacts' /\ Alone' /\ CompleteIsTrue'
    BY DEF PreparationIInv, PreparationTypes, MarkFacts, Alone, CompleteIsTrue, Preparing, Exists, Sources
  <2>2. \A s \in Numbers : SourceFacts(s)'
    BY DEF PreparationIInv, SourceFacts, SentFacts, CompletedFacts, FailedFacts, CandidateFacts, ManifestFacts,
           Repairable, CandidatesMatch, Exists
  <2>3. Progress
    BY <2>1 DEF Progress, Exists
  <2>4. \A q \in Preparers : RowFacts(run[q])'
    <3> SUFFICES ASSUME NEW q \in Preparers PROVE RowFacts(run[q])'
      OBVIOUS
    <3>1. PICK kept \in {Idle} \cup RunRows : kept = run[q] /\ RowFacts(kept)
      BY DEF PreparationIInv, PreparationTypes
    <3>2. RowFacts(kept)'
      BY <2>3, <3>1, RowLasts DEF PreparationIInv, SourceFacts
    <3> QED BY <3>1, <3>2
  <2> QED BY <2>1, <2>2, <2>4 DEF PreparationIInv
<1> QED BY <1>1, <1>2, <1>3, <1>4 DEF PreparationNext

LEMMA PreparationImplied == PreparationIInv => PreparationInv
<1> SUFFICES ASSUME PreparationIInv PROVE PreparationInv
  OBVIOUS
<1>1. Sources \subseteq Numbers /\ (\A s \in Numbers : SourceFacts(s)) /\ CompleteIsTrue
  BY SourcesNumbered DEF PreparationIInv
<1>2. SentOnce
  BY <1>1 DEF SentOnce, SourceFacts, SentFacts
<1>3. CompletedHasCandidates
  BY <1>1 DEF CompletedHasCandidates, SourceFacts, CompletedFacts
<1>4. RepairKeepsRecords
  <2> SUFFICES ASSUME NEW s \in Sources
               PROVE  /\ file[Candidate(s, 1)] = "source" => Repairable(s) /\ ~Exists(Candidate(s, 2))
                      /\ repairManifest # None /\ s \in DOMAIN repairManifest =>
                            Exists(Failed(s)) \/ Exists(Completed(s))
    BY DEF RepairKeepsRecords, Repairable
  <2>1. CandidateFacts(s) /\ ManifestFacts(s)
    BY <1>1 DEF SourceFacts
  <2> QED BY <2>1 DEF CandidateFacts, ManifestFacts
<1> QED BY <1>1, <1>2, <1>3, <1>4 DEF PreparationInv

(* Whatever runs die, are resumed or meet one another: no request to the   *)
(* model is sent twice, a completed record is that of the candidates       *)
(* beside it, a repair replaces none of the model's, and a directory is    *)
(* opened only whole.                                                      *)
THEOREM PreparationIsTrue == PreparationSpec => []PreparationInv
<1>1. PreparationInit => PreparationIInv
  BY PreparationInitHolds
<1>2. PreparationIInv /\ [PreparationNext]_preparationVars => PreparationIInv'
  BY PreparationStep
<1>3. PreparationIInv => PreparationInv
  BY PreparationImplied
<1> QED BY <1>1, <1>2, <1>3, PTL DEF PreparationSpec

(* From the old files to the packages, for every number of sources,        *)
(* processes, requests and edits by hand: what is packaged was confirmed   *)
(* as it is, each source was asked for once, by a call whose answer was    *)
(* taken only whole, and only complete records opened a directory.         *)
THEOREM PreparedIsTrue == GroupingSpec /\ PreparationSpec /\ RequestSpec => []PreparedInv
<1>1. GroupingSpec => []GroupingInv
  BY StagesAreTrue
<1>2. PreparationSpec => []PreparationInv
  BY PreparationIsTrue
<1>3. RequestSpec => []RequestInv
  BY RequestsAreTrue
<1>4. GroupingInv /\ PreparationInv /\ RequestInv => PreparedInv
  BY DEF PreparedInv
<1> QED BY <1>1, <1>2, <1>3, <1>4, PTL
=============================================================================
