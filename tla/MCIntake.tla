------------------------------ MODULE MCIntake ------------------------------
(* What enters the site: a package that is imported, or a problem that is  *)
(* submitted and checked.  They share no state, so a behaviour follows one *)
(* of them, chosen at the beginning.                                       *)
EXTENDS ImportTask, SubmitChecks

CONSTANTS task1, search1, search2

VARIABLE chosen

MCInit == /\ chosen \in {"import", "checks"} /\ Init /\ CheckInit
          /\ chosen = "checks" => valid
          /\ chosen = "import" => plugin.mode = "server" /\ plugin.failure = "block"

(* The searches are alike: the second is used beside the first only, an    *)
(* update changes one field, and it or a disturbance needs the first alone.*)
CheckStep ==
    /\ CheckNext
    /\ search'[search2].at # "idle" => search'[search1].at # "idle"
    /\ plugin' # plugin => Cardinality({f \in DOMAIN plugin : plugin'[f] # plugin[f]}) = 2
    /\ plugin'.revision + disturbances' <= 2
    /\ plugin'.revision + disturbances' > 1 => search'[search2].at = "idle"

MCNext ==
    /\ UNCHANGED chosen
    /\ \/ chosen = "import" /\ Next /\ UNCHANGED checkVars
       \/ chosen = "checks" /\ CheckStep /\ UNCHANGED vars

(* Where a part was not chosen, none of its fair actions is ever enabled.  *)
MCSpec ==
    /\ MCInit /\ [][MCNext]_<<chosen, vars, checkVars>>
    /\ ImportFairness /\ CheckFairness
=============================================================================
