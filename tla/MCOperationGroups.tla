------------------------- MODULE MCOperationGroups -------------------------
(* Small instances of OperationGroups: one customer and one member of      *)
(* staff whose workspaces differ.                                          *)
EXTENDS OperationGroups, TLC

CONSTANTS customer, staff

MCAccess == [u \in {customer, staff} |->
               IF u = customer THEN {"request", "records", "reminders"}
                               ELSE {"queue", "ready", "records", "reminders", "team-view"}]
MCContents == {{"item"}, {"kick"}, {"warp"}}
Symmetry == Permutations(Verifications) \cup Permutations(SubmitIds)

(* Bound: no more than two orders at a time, of the three ids there are.   *)
TwoOrders == Cardinality({g \in GroupIds : groups[g].status # "absent"}) <= 2
=============================================================================
