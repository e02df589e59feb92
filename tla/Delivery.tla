------------------------------ MODULE Delivery ------------------------------
(***************************************************************************)
(* What auto-process promises about one execution, whoever calls it and    *)
(* however often: its commands are attempted until they are all delivered, *)
(* never again after that, and never again after an attempt whose outcome  *)
(* nobody saw, unless a verification releases it that is not the one the   *)
(* attempt was made under.                                                 *)
(***************************************************************************)
CONSTANTS Executions, Verifications, None

VARIABLES
    delivery,   \* how far the commands of each execution have got
    mark        \* the verification the unknown attempt was made under, or None

(* "unsent": no frame was written.  "partial": not all are delivered, and   *)
(* those that are not may be attempted.  "unknown": the outcome of a frame  *)
(* was not seen.  "delivered": the game confirmed every command.            *)
Stages == {"unsent", "partial", "unknown", "delivered"}

TypeOK == /\ delivery \in [Executions -> Stages]
          /\ mark \in [Executions -> Verifications \cup {None}]

Init == /\ delivery = [e \in Executions |-> "unsent"]
        /\ mark = [e \in Executions |-> None]

Becomes(e, stage, v) ==
    /\ delivery' = [delivery EXCEPT ![e] = stage]
    /\ mark' = [mark EXCEPT ![e] = IF stage = "unknown" THEN v ELSE None]

CanAttempt(e) == delivery[e] \in {"unsent", "partial"}

(* Commands are written for a request that presents verification v (or None)*)
Attempt(e, v) ==
    /\ CanAttempt(e)
    /\ \E stage \in {"partial", "unknown", "delivered"} : Becomes(e, stage, v)

CanRelease(e, v) ==
    /\ delivery[e] = "unknown"
    /\ v # None
    /\ v # mark[e]

Release(e, v) ==
    /\ CanRelease(e, v)
    /\ Becomes(e, "partial", None)

Next == \E e \in Executions, v \in Verifications \cup {None} : Attempt(e, v) \/ Release(e, v)

Spec == Init /\ [][Next]_<<delivery, mark>>
=============================================================================
