---------------------------- MODULE MCRowLocks -----------------------------
(* Accounts 1 and 2 are people, 3 is a robot; tags tagA and tagB.          *)
EXTENDS RowLocks

CONSTANTS t1, t2, t3, tagA, tagB

Mix(first, second, third) ==
    [t \in Tx |-> CASE t = t1 -> first [] t = t2 -> second [] OTHER -> third]

Saves       == [kind : {"save"}, actor : {2}, tags : {{tagA}, {tagB}}]
Suggestions == [kind : {"suggest"}, actor : {2}, tags : {{tagA, tagB}}]
Overrides   == [kind : {"override"}, actor : {1, 2}]
Robot       == [kind : {"complete", "authenticate"}, actor : {3}]
Deactivate  == [kind : {"deactivate"}, actor : {2}, tag : {tagA}, replacement : {{}, {tagB}}]
Catalog     == Deactivate \cup [kind : {"restore"}, actor : {1}, tag : {tagA}]
Roles       == [kind : {"role"}, actor : {1}, members : {{1, 2, 3}, {1, 3}}, effect : Effects]
Changes     == [kind : {"delta", "remove"}, actor : {1}, target : {2, 3}]
               \cup [kind : {"disable"}, target : {3}]
Histories   == [kind : {"history"}, actor : {1, 2}]

Writers == Saves \cup Suggestions \cup Overrides \cup Robot
All     == Writers \cup Catalog \cup Roles \cup Changes \cup Histories

(* Any two operations; edits around a deactivation; a person, a robot and  *)
(* a manager of the catalog.                                               *)
Mixes == <<Mix(All, All, {}),
           Mix(Catalog, Catalog, Saves \cup Suggestions),
           Mix(Suggestions \cup Robot, Suggestions \cup Robot, Deactivate)>>

(* The first two slots run the same requests in every mix.                 *)
Twins == Permutations({t1, t2})

Given == {{1, 2, 3}, {1, 3}}
=============================================================================
