--------------------------- MODULE OperationGroups ---------------------------
(***************************************************************************)
(* The life of a customer-service work order ("operation group") in the    *)
(* SOP backend: submission, review, hand-over, reminders and the results   *)
(* the automation workflow writes back.                                    *)
(*                                                                         *)
(* Every method of OperationGroupsService is synchronous between two       *)
(* awaits of a single Node process and persists with one SQLite statement, *)
(* so each method is one atomic action.  A call that is refused (forbidden,*)
(* conflict, invalid transition) or answered idempotently changes nothing  *)
(* and is the stuttering step; what is written here is the accepted call.  *)
(*                                                                         *)
(* Abstractions.  The player's data is the set of operation types of the   *)
(* request, the only part of it the transitions look at.  A timestamp is   *)
(* the revision of the request it was taken in (updatedAt is the revision  *)
(* itself: 0 means "never edited").  Names, texts and projections are      *)
(* left out.                                                               *)
(***************************************************************************)
EXTENDS Integers, FiniteSets

CONSTANTS
    Users,          \* signed-in identities
    Access,         \* Access[u]: the workspaces user u may use
    SubmitIds,      \* ids randomUUID may give to a submitted group
    BatchIds,       \* ids of team-reward groups, each the hash of one reward key
    Contents,       \* the requests customers make: sets of operation types
    Keys,           \* idempotency keys
    Verifications,  \* ids randomUUID may give to an offline verification
    None,           \* an absent optional field
    MaxRevision,    \* bound: edits of one group
    MaxReminders    \* bound: reminders of one group

OperationTypes == {"item", "cash", "kick", "ban", "warp"}
Workspaces == {"request", "records", "reminders", "queue", "ready", "archive", "team-view"}
Statuses == {"absent", "pending", "approved", "rejected", "issued", "completed", "cancelled"}
Failures == {"no-online-accounts", "execution-failed"}
Notes == {"manual", "verified-offline", "unknown-delivery"}
GroupIds == SubmitIds \cup BatchIds

ASSUME AccessAssumption == Access \in [Users -> SUBSET Workspaces]
ASSUME ContentsAssumption == Contents \subseteq (SUBSET OperationTypes) \ {{}}
ASSUME IdsAssumption == SubmitIds \cap BatchIds = {}
ASSUME NoneAssumption == /\ None \notin Users \cup Keys \cup Verifications \cup Contents
                         /\ None \notin Failures \cup Notes \cup Nat
ASSUME BoundsAssumption == MaxRevision \in Nat /\ MaxReminders \in Nat

VARIABLES
    groups,     \* the operation_groups table
    verified    \* every offline verification id handed out so far

vars == <<groups, verified>>

Group == [status       : Statuses,
          owner        : Users \cup {None},
          content      : Contents \cup {None},
          revision     : Nat,
          approvedAt   : Nat \cup {None},
          key          : Keys \cup {None},
          reminders    : Nat,
          failure      : Failures \cup {None},
          verification : Verifications \cup {None},
          note         : Notes \cup {None}]

NoGroup == [status |-> "absent", owner |-> None, content |-> None, revision |-> 0,
            approvedAt |-> None, key |-> None, reminders |-> 0,
            failure |-> None, verification |-> None, note |-> None]

TypeOK == /\ groups \in [GroupIds -> Group]
          /\ verified \subseteq Verifications

-----------------------------------------------------------------------------
(* workflow-rules.ts *)
IsIssuanceGroup(c) == c \cap {"item", "cash"} # {}
IsNoReviewGroup(c) == c # {} /\ c \subseteq {"kick", "ban"}
CanCustomerModify(grp) == grp.status \in {"pending", "approved", "rejected"}

MayUse(u, workspace) == workspace \in Access[u]

(* slip: the counter is left undefined for readers that add to it.          *)
ClearToUndefined(grp) == [grp EXCEPT !.reminders = None, !.failure = None]

(* reminders.ts: clearReminder *)
ClearReminder(grp) == [grp EXCEPT !.reminders = 0, !.failure = None]

(* reminders.ts: changeReminder(..., 'remind') *)
Reminded(grp) == [grp EXCEPT !.reminders = @ + 1]

Replace(g, grp) == groups' = [groups EXCEPT ![g] = grp]

Init == /\ groups = [g \in GroupIds |-> NoGroup]
        /\ verified = {}

-----------------------------------------------------------------------------

(* A first submission with key k.  A repeated key returns the stored group, *)
(* or is an idempotency conflict when the request differs: nothing is       *)
(* inserted either way.                                                     *)
KeyTaken(u, k) ==
    k # None /\ \E h \in GroupIds : groups[h].key = k /\ groups[h].owner = u

Submit(u, g, c, k) ==
    /\ MayUse(u, "request")
    /\ ~KeyTaken(u, k)
    /\ groups[g].status = "absent"
    /\ Replace(g, [NoGroup EXCEPT !.status = IF IsNoReviewGroup(c) THEN "approved" ELSE "pending",
                                  !.owner = u,
                                  !.content = c,
                                  !.key = k])
    /\ UNCHANGED verified

SubmitBatchOverwriting(u, entries) ==  \* slip: a stored reward is not skipped
    /\ MayUse(u, "team-view")
    /\ groups' = [g \in GroupIds |->
                    IF g \in DOMAIN entries
                    THEN [NoGroup EXCEPT !.status = "approved", !.owner = u,
                                         !.content = entries[g], !.approvedAt = 0]
                    ELSE groups[g]]
    /\ UNCHANGED verified

(* Rewards of one team-view day, approved by the system in one insertMany;  *)
(* a reward whose id is stored already is skipped.                          *)
SubmitApprovedBatch(u, entries) ==
    /\ MayUse(u, "team-view")
    /\ groups' = [g \in GroupIds |->
                    IF g \in DOMAIN entries /\ groups[g].status = "absent"
                    THEN [NoGroup EXCEPT !.status = "approved", !.owner = u,
                                         !.content = entries[g], !.approvedAt = 0]
                    ELSE groups[g]]
    /\ UNCHANGED verified

Cancel(u, g) ==
    /\ MayUse(u, "records")
    /\ groups[g].owner = u
    /\ CanCustomerModify(groups[g])
    /\ Replace(g, [groups[g] EXCEPT !.status = "cancelled"])
    /\ UNCHANGED verified

UpdateInPlace(u, g, c) ==  \* slip: the edit leaves the order where it is
    /\ MayUse(u, "records")
    /\ groups[g].owner = u
    /\ CanCustomerModify(groups[g])
    /\ groups[g].revision < MaxRevision
    /\ Replace(g, ClearReminder([groups[g] EXCEPT !.content = c, !.revision = @ + 1]))
    /\ UNCHANGED verified

(* An edit starts a new revision and sends it back to review.               *)
Update(u, g, c) ==
    /\ MayUse(u, "records")
    /\ groups[g].owner = u
    /\ CanCustomerModify(groups[g])
    /\ groups[g].revision < MaxRevision
    /\ Replace(g, ClearReminder([groups[g] EXCEPT !.content = c,
                                                  !.revision = @ + 1,
                                                  !.status = "pending",
                                                  !.approvedAt = None,
                                                  !.verification = None,
                                                  !.note = None]))
    /\ UNCHANGED verified

Approve(u, g) ==
    /\ MayUse(u, "queue")
    /\ groups[g].status = "pending"
    /\ Replace(g, [groups[g] EXCEPT !.status = "approved", !.approvedAt = groups[g].revision])
    /\ UNCHANGED verified

Reject(u, g) ==
    /\ MayUse(u, "queue")
    /\ groups[g].status = "pending"
    /\ Replace(g, [groups[g] EXCEPT !.status = "rejected"])
    /\ UNCHANGED verified

(* note is the optional executionNote of the request: "manual" or None.     *)
WithNote(grp, note) == IF note = None THEN grp ELSE [grp EXCEPT !.note = note]

Issue(u, g, note) ==
    /\ MayUse(u, "ready")
    /\ groups[g].status = "approved"
    /\ IsIssuanceGroup(groups[g].content)
    /\ Replace(g, [WithNote(groups[g], note) EXCEPT !.status = "issued"])
    /\ UNCHANGED verified

CanComplete(grp) ==
    \/ grp.status = "pending" /\ "warp" \in grp.content
    \/ grp.status = "approved" /\ IsNoReviewGroup(grp.content)

Complete(u, g, note) ==
    /\ MayUse(u, "archive") \/ MayUse(u, "ready")
    /\ CanComplete(groups[g])
    /\ Replace(g, [WithNote(groups[g], note) EXCEPT !.status = "completed"])
    /\ UNCHANGED verified

Remind(u, g) ==
    /\ MayUse(u, "ready")
    /\ groups[g].status = "approved"
    /\ groups[g].reminders < MaxReminders
    /\ Replace(g, Reminded(groups[g]))
    /\ UNCHANGED verified

(* automationOfflineVerificationId ??= randomUUID()                          *)
VerifyOffline(u, g) ==
    /\ MayUse(u, "ready")
    /\ groups[g].status = "approved"
    /\ groups[g].reminders < MaxReminders
    /\ \E v \in Verifications :
         /\ IF groups[g].verification = None THEN v \notin verified
                                             ELSE v = groups[g].verification
         /\ Replace(g, Reminded([groups[g] EXCEPT !.verification = v, !.note = "verified-offline"]))
         /\ verified' = verified \cup {v}

MarkOnline(u, g) ==
    /\ MayUse(u, "reminders")
    /\ groups[g].owner = u
    /\ groups[g].status = "approved"
    /\ groups[g].reminders > 0
    /\ Replace(g, ClearReminder(groups[g]))
    /\ UNCHANGED verified

-----------------------------------------------------------------------------
(* What the automation workflow writes when auto-process has answered.  The *)
(* answer is applied to the group as it is now, whatever it was when the    *)
(* commands were sent.                                                      *)
RecordAutomationFailure(g, reason) ==
    /\ groups[g].status = "approved"
    /\ LET reminded == IF groups[g].reminders = 0 THEN Reminded(groups[g]) ELSE groups[g]
       IN  Replace(g, [reminded EXCEPT !.failure = reason])
    /\ UNCHANGED verified

RecordAutomationSuccess(g) ==
    /\ groups[g].status = "approved"
    /\ Replace(g, ClearReminder([groups[g] EXCEPT
                     !.verification = None,
                     !.status = IF IsIssuanceGroup(groups[g].content) THEN "issued" ELSE "completed"]))
    /\ UNCHANGED verified

RecordUnknownKeepingId(g) ==  \* slip: the spent confirmation is kept
    /\ groups[g].status = "approved"
    /\ Replace(g, ClearReminder([groups[g] EXCEPT !.note = "unknown-delivery"]))
    /\ UNCHANGED verified

RecordAutomationUnknown(g) ==
    /\ groups[g].status = "approved"
    /\ Replace(g, ClearReminder([groups[g] EXCEPT !.note = "unknown-delivery", !.verification = None]))
    /\ UNCHANGED verified

-----------------------------------------------------------------------------
CustomerStep(u, g) ==
    \/ g \in SubmitIds /\ \E c \in Contents, k \in Keys \cup {None} : Submit(u, g, c, k)
    \/ \E c \in Contents : Update(u, g, c)
    \/ Cancel(u, g)
    \/ MarkOnline(u, g)

StaffStep(u, g) ==
    \/ Approve(u, g)
    \/ Reject(u, g)
    \/ \E note \in {"manual", None} : Issue(u, g, note) \/ Complete(u, g, note)
    \/ Remind(u, g)
    \/ VerifyOffline(u, g)

BatchStep(u) ==
    \E ids \in SUBSET BatchIds : \E entries \in [ids -> Contents] : SubmitApprovedBatch(u, entries)

AutomationStep(g) ==
    \/ \E reason \in Failures : RecordAutomationFailure(g, reason)
    \/ RecordAutomationSuccess(g)
    \/ RecordAutomationUnknown(g)

Next ==
    \/ \E u \in Users, g \in GroupIds : CustomerStep(u, g) \/ StaffStep(u, g)
    \/ \E u \in Users : BatchStep(u)
    \/ \E g \in GroupIds : AutomationStep(g)

Spec == Init /\ [][Next]_vars

-----------------------------------------------------------------------------
(* Only the version a reviewer (or the system, for rewards) approved is     *)
(* released: an edit after the approval can never ride on it.  Exempt are   *)
(* never-edited kick/ban requests, released at submission, and legacy warp  *)
(* requests, completed straight from pending.  (update deletes approvedAt,  *)
(* service.ts:163-175.)                                                     *)
ReviewedBeforeRelease ==
    \A g \in GroupIds :
        groups[g].status \in {"approved", "issued", "completed"} =>
            \/ groups[g].approvedAt = groups[g].revision
            \/ groups[g].revision = 0 /\ IsNoReviewGroup(groups[g].content)
            \/ groups[g].status = "completed" /\ "warp" \in groups[g].content

(* What waits for review or was refused there carries nothing of an earlier *)
(* release: no approval, reminder, failure, verification or note survives   *)
(* the edit that brought it back (service.ts:163-175).                      *)
ReviewStartsClean ==
    \A g \in GroupIds :
        groups[g].status \in {"pending", "rejected"} =>
            /\ groups[g].approvedAt = None
            /\ groups[g].reminders = 0
            /\ groups[g].failure = None
            /\ groups[g].verification = None
            /\ groups[g].note = None

(* The review is respected on both of its sides: nothing passes it unseen,  *)
(* and nothing of before comes through it (service.ts:147-208).             *)
ReviewIsRespected == ReviewedBeforeRelease /\ ReviewStartsClean

(* A failure the customer should act on is always in the reminder list: the *)
(* reason and the reminder appear and disappear together, over any mix of   *)
(* results, reminders and confirmations (service.ts:295-313, reminders.ts). *)
FailureIsReminded ==
    \A g \in GroupIds : groups[g].failure # None => groups[g].reminders > 0

(* The note staff read on a waiting order and the verification the next     *)
(* retry would present agree: "verified offline" is shown exactly while a   *)
(* verification id is held, so an unknown delivery is never retried under a *)
(* stale confirmation (service.ts:334-345, reminders.ts:19-22).             *)
VerificationMatchesNote ==
    \A g \in GroupIds :
        groups[g].status = "approved" =>
            ((groups[g].verification # None) <=> (groups[g].note = "verified-offline"))

(* A customer's retried submission never makes a second order: one owner    *)
(* and idempotency key name at most one group (service.ts:77-84).           *)
OneGroupPerKey ==
    \A g, h \in GroupIds :
        /\ groups[g].key # None
        /\ groups[g].key = groups[h].key
        /\ groups[g].owner = groups[h].owner
        => g = h

(* What the order tells its readers agrees: the failure with the reminder,  *)
(* the note with the verification, the key with the order it was given to   *)
(* (service.ts:77-84, 295-345).                                             *)
RecordsAgree == FailureIsReminded /\ VerificationMatchesNote /\ OneGroupPerKey

(* An order that was delivered, completed or withdrawn never changes again, *)
(* not by an edit, a late automation result, a reminder or a replayed       *)
(* reward batch.                                                            *)
Final == {"issued", "completed", "cancelled"}
FinalIsImmutable ==
    [][\A g \in GroupIds : groups[g].status \in Final => groups'[g] = groups[g]]_vars
=============================================================================
