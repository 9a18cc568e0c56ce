--------------------------- MODULE HistoryGrouping ---------------------------
(* The stages between a private directory of old problem files and the     *)
(* packages the import phase reads: inventory, grouping, confirmation,     *)
(* materialization, attachment mapping and packaging.  Every stage is a    *)
(* command of its own that re-reads what the earlier ones wrote, while a   *)
(* person may edit sources, metadata and outputs by hand.  A digest is the *)
(* content it was taken from.                                              *)
EXTENDS Naturals, Sequences

CONSTANTS SourcePaths, \* the source files, in the order in which they are read
          Texts,    \* what a source file may hold
          Missing,     \* there is no such file, no such value
          Plans,       \* the groupings a person may write that leave nothing open
          MaxEdits,    \* bound: changes made by hand
          MaxMishaps   \* bound: commands that die or meet an I/O error

ASSUME GroupingAssumption ==
    LET paths == {SourcePaths[i] : i \in DOMAIN SourcePaths} IN
    /\ SourcePaths \in Seq(paths)
    /\ Missing \notin {"inventory", "grouping", "materials", "attachments", "packages"}
    /\ Missing \notin [paths -> Texts \cup {Missing}]
    /\ Missing \notin [inv : [paths -> Texts \cup {Missing}], meta : Nat, plan : Plans \cup {Missing}]

VARIABLES
    source,        \* the private source directory
    metadata,      \* the content of the metadata file, as a version
    folder,        \* the output directory of each stage
    confirmation,  \* the confirmation file: the batch it names
    candidates,    \* the approved candidates: the text they were prepared from
    command,       \* the command that is running
    confirmed,     \* every batch a person has confirmed
    reported,      \* what the last successful packaging left behind
    edits, mishaps  \* counters for the bounds

groupingVars == <<source, metadata, folder, confirmation, candidates, command,
                  confirmed, reported, edits, mishaps>>

Files      == {SourcePaths[i] : i \in DOMAIN SourcePaths}
Stages     == {"inventory", "grouping", "materials", "attachments", "packages"}
Staged     == {"inventory", "materials", "packages"}   \* removed again after an error
NoOutput   == [state |-> "absent", value |-> Missing, seal |-> Missing, inode |-> 0]
NoCommand  == [stage |-> Missing, at |-> "idle"]
Present    == {p \in Files : source[p] # Missing}
Names(inv) == {p \in Files : inv[p] # Missing}
Intact(s)  == folder[s].state = "complete" /\ folder[s].value = folder[s].seal

GroupingInit ==
    /\ source \in [Files -> Texts]
    /\ metadata = 1
    /\ folder = [s \in Stages |-> NoOutput]
    /\ confirmation = Missing /\ candidates = Missing /\ reported = Missing
    /\ command = NoCommand
    /\ confirmed = {}
    /\ edits = 0 /\ mishaps = 0

-----------------------------------------------------------------------------
(* One command at a time.  Its output path must be new.                    *)

MoveTo(at) == command' = [command EXCEPT !.at = at]
Leave       == command' = NoCommand
KeepFiles   == UNCHANGED <<source, metadata, confirmation, candidates, confirmed, edits>>

(* An error after the directory was made: three stages remove it again.    *)
Abandon ==
    /\ Leave
    /\ folder' = IF command.stage \in Staged /\ command.at \in {"payload", "marker", "recheck", "close"}
              THEN [folder EXCEPT ![command.stage] = NoOutput] ELSE folder

Start(s) ==
    /\ command = NoCommand /\ folder[s].state = "absent"
    /\ s = "inventory" \/ Intact("inventory")
    /\ s = "packages" => Intact("materials") /\ candidates # Missing
    /\ command' = [stage |-> s, at |-> "list", i |-> 1,
                   expected |-> IF s = "inventory" THEN Missing ELSE folder["inventory"].value,
                   seen     |-> [p \in Files |-> Missing],
                   held     |-> IF s = "packages" THEN folder["materials"] ELSE NoOutput,
                   output   |-> Missing]
    /\ UNCHANGED <<folder, reported, mishaps>> /\ KeepFiles

(* The paths are listed before and after the files are read.               *)
SamePaths == Present = Names(command.expected)

List ==
    /\ command.at = "list"
    /\ IF command.stage = "inventory"
       THEN IF Present = {} THEN Abandon
            ELSE /\ command' = [command EXCEPT !.at = "read",
                                   !.expected = [p \in Files |-> source[p]]]
                 /\ UNCHANGED folder
       ELSE IF SamePaths THEN MoveTo("read") /\ UNCHANGED folder ELSE Abandon
    /\ UNCHANGED <<reported, mishaps>> /\ KeepFiles

(* The inventory records what it reads, or that it could not read it;      *)
(* later commands compare.                                                 *)
Read ==
    /\ command.at = "read" /\ command.i \in DOMAIN SourcePaths
    /\ LET p == SourcePaths[command.i] IN
       IF command.stage # "inventory" /\ source[p] # command.expected[p]
       THEN Abandon
       ELSE /\ \E text \in IF command.stage = "inventory" THEN {source[p], Missing} ELSE {source[p]} :
                  command' = [command EXCEPT !.i = @ + 1,
                     !.seen[p] = IF p \in Names(command.expected) THEN text ELSE Missing]
            /\ UNCHANGED folder
    /\ UNCHANGED <<reported, mishaps>> /\ KeepFiles

Relist ==
    /\ command.at = "read" /\ command.i \notin DOMAIN SourcePaths
    /\ IF SamePaths THEN MoveTo("bind") /\ UNCHANGED folder ELSE Abandon
    /\ UNCHANGED <<reported, mishaps>> /\ KeepFiles

-----------------------------------------------------------------------------
(* What the command is about to write, checked against everything it rests *)
(* on.                                                                     *)

Batch(inv, plan) == [inv |-> inv, meta |-> metadata, plan |-> plan]

(* A sealed grouping of this inventory and these metadata.                 *)
GroupingHolds(inv) ==
    /\ Intact("grouping")
    /\ folder["grouping"].value.inv = inv /\ folder["grouping"].value.meta = metadata

ConfirmationHolds == confirmation = folder["grouping"].value

Unread == {p \in Names(command.expected) : command.seen[p] = Missing}

Unchanged(s) == folder[s] = command.held

(* Packaging: attachments, grouping and materials are of one batch, and    *)
(* the candidates were prepared from these materials.                      *)
AttachmentsHold ==
    /\ Intact("attachments") /\ folder["attachments"].value.resolved
    /\ folder["attachments"].value.batch = folder["grouping"].value

MayPackage ==
    /\ GroupingHolds(command.expected) /\ ConfirmationHolds
    /\ AttachmentsHold
    /\ command.held.value.batch = folder["grouping"].value
    /\ candidates = command.held.value.text
    /\ Unchanged("materials")

AttachmentMappings == [batch : {folder["grouping"].value}, resolved : BOOLEAN]

Outputs ==
    CASE command.stage = "inventory" -> {command.seen}
      [] command.stage = "grouping" ->
           {Batch(command.expected, plan) : plan \in Plans \cup {Missing}}
      [] command.stage = "materials" ->
           IF GroupingHolds(command.expected) /\ ConfirmationHolds
           THEN {[batch |-> folder["grouping"].value, text |-> command.seen]} ELSE {}
      [] command.stage = "attachments" ->
           IF GroupingHolds(command.expected) /\ ConfirmationHolds
           THEN AttachmentMappings ELSE {}
      [] command.stage = "packages" ->
           IF MayPackage
           THEN {[batch |-> command.held.value.batch, text |-> candidates]} ELSE {}

Bind ==
    /\ command.at = "bind"
    /\ \/ /\ Outputs = {} /\ Abandon
       \/ \E output \in Outputs :
             command' = [command EXCEPT !.at = "create", !.output = output] /\ UNCHANGED folder
    /\ UNCHANGED <<reported, mishaps>> /\ KeepFiles

-----------------------------------------------------------------------------
(* Writing: the directory, what is in it, and the marker last.             *)

Write(state) ==
    folder' = [folder EXCEPT ![command.stage] =
              [state |-> state, value |-> command.output, seal |-> command.output, inode |-> @.inode]]

(* What the marker says: a file that could not be read, an open item of    *)
(* the plan or an unresolved attachment ends in a marker that blocks.      *)
Blocked ==
    CASE command.stage = "inventory"   -> Unread # {}
      [] command.stage = "grouping"    -> command.output.plan = Missing
      [] command.stage = "attachments" -> ~command.output.resolved
      [] OTHER -> FALSE

MakeDirectory ==
    /\ command.at = "create" /\ folder[command.stage].state = "absent"
    /\ folder' = [folder EXCEPT ![command.stage].state = "created"]
    /\ MoveTo("payload")
    /\ UNCHANGED <<reported, mishaps>> /\ KeepFiles

Payload ==
    /\ command.at = "payload"
    /\ Write("written")
    /\ MoveTo(IF command.stage = "packages" THEN "recheck" ELSE "marker")
    /\ UNCHANGED <<reported, mishaps>> /\ KeepFiles

(* Packaging reads its own output once more before the marker.             *)
Recheck ==
    /\ command.at = "recheck"
    /\ IF folder["packages"].value = command.output
       THEN MoveTo("marker") /\ UNCHANGED folder ELSE Abandon
    /\ UNCHANGED <<reported, mishaps>> /\ KeepFiles

Marker ==
    /\ command.at = "marker"
    /\ folder' = [folder EXCEPT ![command.stage].state = IF Blocked THEN "blocked" ELSE "complete"]
    /\ IF command.stage = "packages" THEN MoveTo("close") ELSE Leave
    /\ UNCHANGED <<reported, mishaps>> /\ KeepFiles

(* The outputs and the materials it held are as they were, or all of it is *)
(* removed again.                                                          *)
Close ==
    /\ command.at = "close"
    /\ IF Unchanged("materials") /\ folder["packages"].value = command.output
       THEN /\ Leave /\ reported' = folder["packages"] /\ UNCHANGED folder
       ELSE Abandon /\ UNCHANGED reported
    /\ UNCHANGED mishaps /\ KeepFiles

(* The person has read the grouping; the sources are not looked at again.  *)
Confirm ==
    /\ command = NoCommand /\ confirmation = Missing
    /\ Intact("inventory") /\ GroupingHolds(folder["inventory"].value)
    /\ confirmation' = folder["grouping"].value
    /\ confirmed' = confirmed \cup {confirmation'}
    /\ UNCHANGED <<source, metadata, folder, candidates, command, reported, edits, mishaps>>

(* Candidates are prepared from the materials and approved.                *)
PrepareCandidates ==
    /\ command = NoCommand /\ candidates = Missing
    /\ Intact("materials") /\ folder["materials"].value.batch.meta = metadata
    /\ candidates' = folder["materials"].value.text
    /\ UNCHANGED <<source, metadata, folder, confirmation, command, confirmed, reported, edits, mishaps>>

-----------------------------------------------------------------------------
(* Hands and mishaps.                                                      *)

Edit ==
    /\ edits < MaxEdits /\ edits' = edits + 1
    /\ UNCHANGED <<command, confirmed, reported, mishaps>>

EditSource ==
    /\ \E p \in Files, c \in Texts \cup {Missing} :
          c # source[p] /\ source' = [source EXCEPT ![p] = c]
    /\ Edit /\ UNCHANGED <<metadata, folder, confirmation, candidates>>

EditMetadata ==
    /\ metadata' = metadata + 1
    /\ Edit /\ UNCHANGED <<source, folder, confirmation, candidates>>

EditGrouping ==
    /\ folder["grouping"].state = "complete"
    /\ \E plan \in Plans \ {folder["grouping"].value.plan} :
          folder' = [folder EXCEPT !["grouping"].value.plan = plan]
    /\ Edit /\ UNCHANGED <<source, metadata, confirmation, candidates>>

(* A text is changed, or the whole directory is exchanged for a copy.      *)
EditMaterials ==
    /\ folder["materials"].state = "complete"
    /\ \E p \in Files, c \in Texts :
          folder' = [folder EXCEPT !["materials"].value.text[p] = c, !["materials"].inode = @ + 1]
    /\ Edit /\ UNCHANGED <<source, metadata, confirmation, candidates>>

EditPackages ==
    /\ folder["packages"].state \in {"written", "complete"}
    /\ \E p \in Files, c \in Texts :
          folder' = [folder EXCEPT !["packages"].value.text[p] = c]
    /\ Edit /\ UNCHANGED <<source, metadata, confirmation, candidates>>

(* A stage is done again: its output, or the confirmation, is put aside.   *)
Discard ==
    /\ command = NoCommand
    /\ \/ \E s \in Stages : /\ folder[s].state # "absent"
                            /\ folder' = [folder EXCEPT ![s] = NoOutput]
                            /\ UNCHANGED <<confirmation, candidates>>
       \/ confirmation # Missing /\ confirmation' = Missing /\ UNCHANGED <<folder, candidates>>
       \/ candidates # Missing /\ candidates' = Missing /\ UNCHANGED <<folder, confirmation>>
    /\ Edit /\ UNCHANGED <<source, metadata>>

Fault ==
    /\ command # NoCommand /\ mishaps < MaxMishaps
    /\ mishaps' = mishaps + 1
    /\ \/ Leave /\ UNCHANGED folder    \* it dies
       \/ Abandon                    \* an operation of the file system fails
    /\ UNCHANGED reported /\ KeepFiles

GroupingNext ==
    \/ \E s \in Stages : Start(s)
    \/ List \/ Read \/ Relist \/ Bind
    \/ MakeDirectory \/ Payload \/ Recheck \/ Marker \/ Close
    \/ Confirm \/ PrepareCandidates
    \/ EditSource \/ EditMetadata \/ EditGrouping \/ EditMaterials \/ EditPackages
    \/ Discard \/ Fault

GroupingSpec == GroupingInit /\ [][GroupingNext]_groupingVars

-----------------------------------------------------------------------------
(* What is materialized is the text of the inventory, in a grouping that a *)
(* person confirmed for that inventory and those metadata.                 *)
MaterialsAreConfirmed ==
    Intact("materials") =>
        LET m == folder["materials"].value IN m.batch \in confirmed /\ m.text = m.batch.inv

(* The same of every package directory that carries its marker and that    *)
(* nobody touched since.                                                   *)
PackagesAreConfirmed ==
    Intact("packages") =>
        LET p == folder["packages"].value IN p.batch \in confirmed /\ p.text = p.batch.inv

(* A packaging that reported success left behind what it had checked.      *)
ReportIsTrue ==
    reported # Missing => reported.state = "complete" /\ reported.value = reported.seal

(* An error leaves no half-written materials or packages; only a command   *)
(* that died can.                                                          *)
HalfWritten == \E s \in Staged : folder[s].state \in {"created", "written"} /\ command.stage # s

GroupingInv ==
    /\ MaterialsAreConfirmed
    /\ PackagesAreConfirmed
    /\ ReportIsTrue
    /\ HalfWritten => mishaps > 0
=============================================================================
