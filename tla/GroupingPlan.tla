---------------------------- MODULE GroupingPlan ----------------------------
(* The check of a plan that distributes the parts of the source files over *)
(* problems.  The sources are one text, one archive with one entry and one *)
(* file that a person must deal with; a plan also gives its reasons for    *)
(* what it leaves out and confirms each fragment that is used twice.       *)
EXTENDS Naturals, Sequences, SequencesExt

CONSTANTS Length,     \* characters of the text
          Records,    \* the metadata records, 1..n
          Unplanned   \* no plan yet

VARIABLES plan, verdict

planVars == <<plan, verdict>>

Ranges    == {r \in [start : 0..Length, end : 0..Length + 1] : r.start < r.end}
Whole     == [kind |-> "whole_file", start |-> 0, end |-> Length]
Entry     == [kind |-> "zip_entry", start |-> 0, end |-> 0]
Text(r)   == [kind |-> "text_range", start |-> r.start, end |-> r.end]
Fits(r)   == r.end <= Length

-----------------------------------------------------------------------------
(* validateHistoryGrouping                                                 *)

Of(p, kind) == {f \in DOMAIN p.fragments : p.fragments[f].kind = kind}

(* A range may not cut the surrogate pair, when the text has one.          *)
Cuts(p, r) == p.pair # 0 /\ p.pair \in {r.start, r.end}

FragmentBounds(p) ==
    \A f \in Of(p, "text_range") : Fits(p.fragments[f]) /\ ~Cuts(p, p.fragments[f])

AllPairs(S) == {{f, g} : f, g \in S} \ {{f} : f \in S}

GroupsOf(p, f) == {g \in DOMAIN p.groups : f \in p.groups[g].fragments}

RequiredShared(p) ==
    UNION {{<<f, pair>> : pair \in AllPairs(GroupsOf(p, f))} : f \in DOMAIN p.fragments}

\* mutant: ranges that only touch count as overlapping
EndedBefore_Strictly(range, current) == range.end < current.start

(* The ranges by their start; those that ended before the current one are  *)
(* taken from the heap, and it overlaps with all that are left.            *)
EndedBefore(range, current) == range.end <= current.start

RangeOverlaps(p) ==
    LET at(f)    == p.fragments[f]
        before(f, g) == \/ at(f).start < at(g).start
                        \/ at(f).start = at(g).start /\ at(f).end < at(g).end
                        \/ at(f).start = at(g).start /\ at(f).end = at(g).end /\ f < g
        sweep(acc, f) ==
            LET active == {g \in acc.active : ~EndedBefore(at(g), at(f))} IN
            [active |-> active \cup {f}, pairs |-> acc.pairs \cup {{g, f} : g \in active}]
    IN FoldLeft(sweep, [active |-> {}, pairs |-> {}],
                SetToSortSeq(Of(p, "text_range"), before)).pairs

RequiredOverlaps(p) ==
    RangeOverlaps(p)
    \cup AllPairs(Of(p, "whole_file")) \cup AllPairs(Of(p, "zip_entry"))
    \cup {{f, g} : f \in Of(p, "whole_file"), g \in Of(p, "text_range")}

ValidateHistoryGrouping(p) ==
    /\ FragmentBounds(p)
    /\ \A g \in DOMAIN p.groups : p.groups[g].fragments \subseteq DOMAIN p.fragments
    /\ \A f \in DOMAIN p.fragments : GroupsOf(p, f) # {}
    /\ RequiredShared(p) = p.shared
    /\ RequiredOverlaps(p) = p.overlaps

-----------------------------------------------------------------------------
(* createGroupingValidationReport                                          *)

Grouped(p) == {p.groups[g].metadata : g \in DOMAIN p.groups}

Selected(p) == {p.fragments[f] : f \in Of(p, "whole_file") \cup Of(p, "text_range")}

RangesOverlap(r, s) == r.start < s.end /\ s.start < r.end

(* Reasons that contradict the selection, or one another.                  *)
Contradicts(p) ==
    \/ Grouped(p) \cap p.disposed # {}
    \/ p.entryDisposed /\ Of(p, "zip_entry") # {}
    \/ \E d \in DOMAIN p.ranges :
          \/ ~Fits(p.ranges[d]) \/ Cuts(p, p.ranges[d])
          \/ \E s \in Selected(p) : RangesOverlap(p.ranges[d], s)
          \/ \E e \in 1..(d - 1) : RangesOverlap(p.ranges[d], p.ranges[e])
    \/ p.manual = "converted" /\ Selected(p) = {}

larger(a, b) == IF a > b THEN a ELSE b

MergeRanges(ranges) ==
    LET before(r, s) == r.start < s.start \/ (r.start = s.start /\ r.end < s.end)
        merge(acc, r) ==
            IF acc = <<>> \/ r.start > Last(acc).end THEN Append(acc, r)
            ELSE Front(acc) \o <<[Last(acc) EXCEPT !.end = larger(@, r.end)]>>
    IN FoldLeft(merge, <<>>, SetToSortSeq(ranges, before))

(* The gaps before, between and after the merged ranges.                   *)
Uncovered(p) ==
    LET plain(r) == [start |-> r.start, end |-> r.end]
        covered  == MergeRanges({plain(s) : s \in Selected(p)}
                                \cup {plain(p.ranges[d]) : d \in DOMAIN p.ranges})
        gap(from, to) == IF to > from THEN {<<from, to>>} ELSE {}
        step(acc, r)  == [cursor |-> larger(acc.cursor, r.end),
                          gaps   |-> acc.gaps \cup gap(acc.cursor, r.start)]
        swept         == FoldLeft(step, [cursor |-> 0, gaps |-> {}], covered)
    IN swept.gaps \cup gap(swept.cursor, Length)

Unresolved(p) ==
    \/ Records \ (Grouped(p) \cup p.disposed) # {}
    \/ Uncovered(p) # {}
    \/ Of(p, "zip_entry") = {} /\ ~p.entryDisposed
    \/ p.manual = "none"
    \/ p.groups = <<>>

Verdict(p) ==
    CASE ~ValidateHistoryGrouping(p) \/ Contradicts(p) -> "refused"
      [] ValidateHistoryGrouping(p) /\ ~Contradicts(p) /\ Unresolved(p) -> "incomplete"
      [] OTHER -> "complete"
-----------------------------------------------------------------------------
(* The plans: fragments that overlap in every way, with the reasons and    *)
(* confirmations given for them, and assignments to problems.              *)

OneProblem(n) == IF n = 0 THEN <<>> ELSE <<[metadata |-> 1, fragments |-> 1..n]>>

TextPlans(n, m) ==
    {[fragments |-> fragments, groups |-> OneProblem(n), shared |-> {}, overlaps |-> overlaps,
      disposed |-> Records \ {1}, entryDisposed |-> TRUE, ranges |-> ranges,
      manual |-> "ignored", pair |-> pair] :
        fragments \in [1..n -> {Whole} \cup {Text(r) : r \in {s \in Ranges : Fits(s)}}],
        ranges    \in [1..m -> Ranges],
        overlaps  \in SUBSET AllPairs(1..n),
        pair      \in IF n + m <= 2 THEN 0..(Length - 1) ELSE {0}}

Sizes == {s \in (0..3) \X (0..2) : s[1] + s[2] <= 3}

Assignments ==
    {[fragments |-> fragments, groups |-> groups, shared |-> shared, overlaps |-> {},
      disposed |-> disposed, entryDisposed |-> entryDisposed, ranges |-> <<>>,
      manual |-> manual, pair |-> 0] :
        fragments     \in {<<Whole>>, <<Whole, Entry>>},
        groups        \in SeqOf([metadata : Records, fragments : SUBSET (1..2) \ {{}}], 2),
        shared        \in SUBSET {<<1, {1, 2}>>, <<2, {1, 2}>>},
        disposed      \in SUBSET Records,
        entryDisposed \in BOOLEAN,
        manual        \in {"none", "ignored", "converted"}}

PlanInit == plan = Unplanned /\ verdict = "none"

Seal ==
    /\ plan = Unplanned
    /\ \/ \E size \in Sizes : \E p \in TextPlans(size[1], size[2]) : plan' = p
       \/ \E p \in Assignments : plan' = p
    /\ verdict' = Verdict(plan')

-----------------------------------------------------------------------------
(* What a sealed grouping says, character by character: each belongs to a  *)
(* fragment or has one reason, never both; two fragments are confirmed     *)
(* just when they share one; every record, entry and file is answered for. *)
Characters(r) == (r.start + 1)..r.end

Answered(p) ==
    LET chars(f)  == Characters(p.fragments[f])
        texts     == Of(p, "whole_file") \cup Of(p, "text_range")
        reasons(c) == {d \in DOMAIN p.ranges : c \in Characters(p.ranges[d])}
        halves    == {p.pair, p.pair + 1}
    IN
    /\ \A c \in 1..Length :
          IF \E f \in texts : c \in chars(f) THEN reasons(c) = {}
          ELSE \E d \in DOMAIN p.ranges : reasons(c) = {d}
    /\ \A r \in Selected(p) \cup {p.ranges[d] : d \in DOMAIN p.ranges} :
          /\ Characters(r) \subseteq 1..Length
          /\ p.pair # 0 => Characters(r) \cap halves \in {{}, halves}
    /\ p.overlaps = {{f, g} : f, g \in texts} \cap
                    {pair \in AllPairs(texts) : \E c \in 1..Length : \A f \in pair : c \in chars(f)}
    /\ \A f \in DOMAIN p.fragments, g, h \in DOMAIN p.groups :
          g # h => ((<<f, {g, h}>> \in p.shared) <=> f \in p.groups[g].fragments \cap p.groups[h].fragments)
    /\ \A s \in p.shared : s[1] \in DOMAIN p.fragments /\ s[2] \subseteq DOMAIN p.groups
    /\ UNION {p.groups[g].fragments : g \in DOMAIN p.groups} = DOMAIN p.fragments
    /\ \A m \in Records : (m \in Grouped(p)) # (m \in p.disposed)
    /\ p.entryDisposed # (Of(p, "zip_entry") # {})
    /\ p.manual # "none" /\ p.groups # <<>>
    /\ p.manual = "converted" => texts # {}

PlanInv == plan # Unplanned => (verdict = "complete" <=> Answered(plan))
=============================================================================
