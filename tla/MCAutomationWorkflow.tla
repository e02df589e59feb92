------------------------ MODULE MCAutomationWorkflow ------------------------
(* Small instances of AutomationWorkflow: one user who may do everything,   *)
(* so that every interleaving of customer and staff steps is possible.      *)
EXTENDS AutomationWorkflow, TLC

CONSTANT user

MCAccess == [u \in {user} |-> {"request", "records", "reminders", "queue", "ready", "archive", "team-view"}]
MCItemOrKick == {{"item"}, {"kick"}}
(* Bound: one order at a time, submitted or drawn from a batch of rewards. *)
OneOrder == Cardinality({g \in G!GroupIds : groups[g].status # "absent"}) <= 1
(* Bound: only a submitted order of an item is edited. *)
OnlyItemsEdited == \A g \in G!GroupIds : groups[g].status # "absent" /\ groups[g].revision > 0 => g \in SubmitIds /\ groups[g].content = {"item"} /\ groups[g].key = None
(* Bound: with the connection switched off, at most one call is under way. *)
OffWhenCalm == enabled \/ Cardinality({c \in Calls : calls[c] # NoCall}) <= 1
Symmetry == Permutations(Calls) \cup Permutations(Verifications)
=============================================================================
