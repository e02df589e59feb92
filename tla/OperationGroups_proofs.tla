------------------------ MODULE OperationGroups_proofs ------------------------
(***************************************************************************)
(* Proofs about OperationGroups for every set of users, groups, requests   *)
(* and keys.  All invariants but OneGroupPerKey speak of one group at a    *)
(* time: GroupInv collects them as a predicate of a stored record, each    *)
(* operation is shown to store only records that satisfy it, and one lemma *)
(* lifts that to the table.                                                *)
(***************************************************************************)
EXTENDS OperationGroups, TLAPS

(* What holds of one stored order: its type, that a released one was        *)
(* approved, that one under review is clean, and that reminder, failure,    *)
(* note and confirmation agree.                                             *)
GroupInv(grp) ==
    /\ grp \in Group
    /\ grp.status \in {"approved", "issued", "completed"} =>
          \/ grp.approvedAt = grp.revision
          \/ grp.revision = 0 /\ IsNoReviewGroup(grp.content)
          \/ grp.status = "completed" /\ "warp" \in grp.content
    /\ grp.status \in {"pending", "rejected"} =>
          /\ grp.approvedAt = None
          /\ grp.reminders = 0
          /\ grp.failure = None
          /\ grp.verification = None
          /\ grp.note = None
    /\ grp.failure # None => grp.reminders > 0
    /\ grp.status = "approved" =>
          ((grp.verification # None) <=> (grp.note = "verified-offline"))
    /\ grp.status \notin {"absent"} => grp.content \in Contents

IInv == /\ groups \in [GroupIds -> Group]
        /\ verified \subseteq Verifications
        /\ \A g \in GroupIds : GroupInv(groups[g])

-----------------------------------------------------------------------------
(* The empty row satisfies the group invariant.                             *)
LEMMA NoGroupInv == GroupInv(NoGroup)
BY NoneAssumption DEF GroupInv, NoGroup, Group, Statuses

(* Storing one record that satisfies the group invariant keeps IInv.        *)
LEMMA ReplaceKeepsInv ==
    ASSUME IInv, NEW g \in GroupIds, NEW grp, GroupInv(grp), Replace(g, grp),
           verified' \subseteq Verifications
    PROVE  IInv'
<1>1. groups' \in [GroupIds -> Group]
  BY DEF IInv, Replace, GroupInv
<1>2. ASSUME NEW h \in GroupIds PROVE GroupInv(groups'[h])
  <2>1. CASE h = g
    BY <2>1 DEF IInv, Replace
  <2>2. CASE h # g
    BY <2>2 DEF IInv, Replace
  <2> QED BY <2>1, <2>2
<1> QED BY <1>1, <1>2 DEF IInv

-----------------------------------------------------------------------------
(* One lemma per operation that stores one record: the record it stores     *)
(* satisfies the group invariant.                                           *)

(* A submitted order is new; it is approved at once only without review.   *)
LEMMA SubmitInv ==
    ASSUME IInv, NEW u \in Users, NEW g \in GroupIds, NEW c \in Contents,
           NEW k \in Keys \cup {None}, Submit(u, g, c, k)
    PROVE  IInv'
<1> DEFINE new == [NoGroup EXCEPT
                     !.status = IF IsNoReviewGroup(c) THEN "approved" ELSE "pending",
                     !.owner = u, !.content = c, !.key = k]
<1>1. GroupInv(new)
  <2>1. new \in Group
    BY DEF NoGroup, Group, Statuses
  <2>2. /\ new.status \in {"pending", "approved"}
        /\ new.status = "approved" => IsNoReviewGroup(new.content)
        /\ new.content \in Contents /\ new.revision = 0 /\ new.reminders = 0
        /\ new.approvedAt = None /\ new.failure = None
        /\ new.verification = None /\ new.note = None
    BY DEF NoGroup
  <2> HIDE DEF new
  <2> QED BY <2>1, <2>2, NoneAssumption DEF GroupInv, Notes
<1>2. Replace(g, new) /\ verified' \subseteq Verifications
  BY DEF Submit, IInv
<1> QED BY <1>1, <1>2, ReplaceKeepsInv

(* An order withdrawn by its submitter was pending or approved.            *)
LEMMA CancelInv ==
    ASSUME IInv, NEW u \in Users, NEW g \in GroupIds, Cancel(u, g)
    PROVE  IInv'
<1> DEFINE new == [groups[g] EXCEPT !.status = "cancelled"]
<1>1. GroupInv(new)
  <2>1. GroupInv(groups[g]) /\ groups[g].status \in {"pending", "approved", "rejected"}
    BY DEF IInv, Cancel, CanCustomerModify
  <2>2. /\ new \in Group
        /\ new.status = "cancelled" /\ new.content = groups[g].content
        /\ new.revision = groups[g].revision /\ new.approvedAt = groups[g].approvedAt
        /\ new.reminders = groups[g].reminders /\ new.failure = groups[g].failure
        /\ new.verification = groups[g].verification /\ new.note = groups[g].note
    BY <2>1 DEF GroupInv, Group, Statuses
  <2> HIDE DEF new
  <2> QED BY <2>1, <2>2 DEF GroupInv
<1>2. Replace(g, new) /\ verified' \subseteq Verifications
  BY DEF Cancel, IInv
<1> QED BY <1>1, <1>2, ReplaceKeepsInv

(* An edit starts the next revision without approval, reminder or note.    *)
LEMMA UpdateInv ==
    ASSUME IInv, NEW u \in Users, NEW g \in GroupIds, NEW c \in Contents, Update(u, g, c)
    PROVE  IInv'
<1> DEFINE new == ClearReminder([groups[g] EXCEPT !.content = c, !.revision = @ + 1,
                                   !.status = "pending", !.approvedAt = None,
                                   !.verification = None, !.note = None])
<1>1. GroupInv(new)
  <2> DEFINE edited == [groups[g] EXCEPT !.content = c, !.revision = @ + 1,
                                   !.status = "pending", !.approvedAt = None,
                                   !.verification = None, !.note = None]
  <2>1. new \in Group
    <3>1. groups[g] \in Group
      BY DEF IInv
    <3> DEFINE e1 == [groups[g] EXCEPT !.content = c, !.revision = @ + 1]
               e2 == [e1 EXCEPT !.status = "pending", !.approvedAt = None]
               e3 == [e2 EXCEPT !.verification = None, !.note = None]
    <3>2. e1 \in Group
      <4>1. groups[g].revision + 1 \in Nat /\ c \in Contents \cup {None}
        BY <3>1 DEF Group
      <4>2. [groups[g] EXCEPT !.content = c] \in Group
        BY <3>1 DEF Group
      <4>3. e1 = [[groups[g] EXCEPT !.content = c] EXCEPT !.revision = groups[g].revision + 1]
        BY <3>1 DEF Group
      <4> HIDE DEF e1
      <4> QED BY <4>1, <4>2, <4>3 DEF Group
    <3>3. e2 \in Group
      <4> HIDE DEF e1
      <4> QED BY <3>2 DEF Group, Statuses
    <3>4. e3 \in Group
      <4> HIDE DEF e2
      <4> QED BY <3>3 DEF Group
    <3>5. edited = e3
      BY <3>1
    <3>6. new = ClearReminder(edited)
      OBVIOUS
    <3> HIDE DEF edited, new, e3
    <3> QED BY <3>4, <3>5, <3>6 DEF Group, ClearReminder
  <2>2. /\ new.status = "pending" /\ new.content = c /\ new.reminders = 0
        /\ new.approvedAt = None /\ new.failure = None
        /\ new.verification = None /\ new.note = None
    BY DEF IInv, Group, ClearReminder
  <2> HIDE DEF new
  <2> QED BY <2>1, <2>2 DEF GroupInv
<1>2. Replace(g, new) /\ verified' \subseteq Verifications
  BY DEF Update, IInv
<1> QED BY <1>1, <1>2, ReplaceKeepsInv

(* An approval is of the revision the order carries.                       *)
LEMMA ApproveInv ==
    ASSUME IInv, NEW u \in Users, NEW g \in GroupIds, Approve(u, g)
    PROVE  IInv'
<1> DEFINE new == [groups[g] EXCEPT !.status = "approved", !.approvedAt = groups[g].revision]
<1>1. GroupInv(new)
  <2>1. new \in Group
    <3>1. groups[g] \in Group
      BY DEF IInv
    <3> QED BY <3>1 DEF Group, Statuses
  <2>2. /\ new.status = "approved" /\ new.approvedAt = new.revision
        /\ new.content \in Contents
        /\ new.failure = None /\ new.verification = None /\ new.note = None
    BY DEF IInv, GroupInv, Group, Approve
  <2> HIDE DEF new
  <2> QED BY <2>1, <2>2, NoneAssumption DEF GroupInv, Notes
<1>2. Replace(g, new) /\ verified' \subseteq Verifications
  BY DEF Approve, IInv
<1> QED BY <1>1, <1>2, ReplaceKeepsInv

(* A rejected order was under review, and stays as clean.                  *)
LEMMA RejectInv ==
    ASSUME IInv, NEW u \in Users, NEW g \in GroupIds, Reject(u, g)
    PROVE  IInv'
<1> DEFINE new == [groups[g] EXCEPT !.status = "rejected"]
<1>1. GroupInv(new)
  <2>1. GroupInv(groups[g]) /\ groups[g].status = "pending"
    BY DEF IInv, Reject
  <2>2. /\ new \in Group
        /\ new.status = "rejected" /\ new.content = groups[g].content
        /\ new.revision = groups[g].revision /\ new.approvedAt = groups[g].approvedAt
        /\ new.reminders = groups[g].reminders /\ new.failure = groups[g].failure
        /\ new.verification = groups[g].verification /\ new.note = groups[g].note
    BY <2>1 DEF GroupInv, Group, Statuses
  <2> HIDE DEF new
  <2> QED BY <2>1, <2>2 DEF GroupInv
<1>2. Replace(g, new) /\ verified' \subseteq Verifications
  BY DEF Reject, IInv
<1> QED BY <1>1, <1>2, ReplaceKeepsInv

(* Only an approved issuance order is issued.                              *)
LEMMA IssueInv ==
    ASSUME IInv, NEW u \in Users, NEW g \in GroupIds, NEW note \in {"manual", None},
           Issue(u, g, note)
    PROVE  IInv'
<1> DEFINE new == [WithNote(groups[g], note) EXCEPT !.status = "issued"]
<1>1. GroupInv(new)
  BY DEF IInv, Issue, GroupInv, Group, Statuses, WithNote, Notes
<1>2. Replace(g, new) /\ verified' \subseteq Verifications
  BY DEF Issue, IInv
<1> QED BY <1>1, <1>2, ReplaceKeepsInv

(* What is completed by hand was approved, or is a warp.                   *)
LEMMA CompleteInv ==
    ASSUME IInv, NEW u \in Users, NEW g \in GroupIds, NEW note \in {"manual", None},
           Complete(u, g, note)
    PROVE  IInv'
<1> DEFINE new == [WithNote(groups[g], note) EXCEPT !.status = "completed"]
<1>1. GroupInv(new)
  BY DEF IInv, Complete, CanComplete, GroupInv, Group, Statuses, WithNote, Notes
<1>2. Replace(g, new) /\ verified' \subseteq Verifications
  BY DEF Complete, IInv
<1> QED BY <1>1, <1>2, ReplaceKeepsInv

(* A reminder only adds to the count.                                      *)
LEMMA RemindInv ==
    ASSUME IInv, NEW u \in Users, NEW g \in GroupIds, Remind(u, g)
    PROVE  IInv'
<1> DEFINE new == Reminded(groups[g])
<1>1. GroupInv(new)
  BY DEF IInv, Remind, GroupInv, Group, Statuses, Reminded
<1>2. Replace(g, new) /\ verified' \subseteq Verifications
  BY DEF Remind, IInv
<1> QED BY <1>1, <1>2, ReplaceKeepsInv

(* The confirmation and its note are stored together.                      *)
LEMMA VerifyOfflineInv ==
    ASSUME IInv, NEW u \in Users, NEW g \in GroupIds, VerifyOffline(u, g)
    PROVE  IInv'
<1>1. PICK v \in Verifications :
        /\ Replace(g, Reminded([groups[g] EXCEPT !.verification = v, !.note = "verified-offline"]))
        /\ verified' = verified \cup {v}
  BY DEF VerifyOffline
<1> DEFINE new == Reminded([groups[g] EXCEPT !.verification = v, !.note = "verified-offline"])
<1>2. GroupInv(new)
  <2> DEFINE confirmed == [groups[g] EXCEPT !.verification = v, !.note = "verified-offline"]
  <2>1. new \in Group
    <3>1. groups[g] \in Group
      BY DEF IInv
    <3>2. confirmed \in Group
      BY <3>1 DEF Group, Notes
    <3>3. new = Reminded(confirmed)
      OBVIOUS
    <3> HIDE DEF confirmed, new
    <3> QED BY <3>2, <3>3 DEF Group, Reminded
  <2>2. /\ new.status = "approved" /\ new.verification = v /\ new.note = "verified-offline"
        /\ new.approvedAt = groups[g].approvedAt /\ new.revision = groups[g].revision
        /\ new.content = groups[g].content /\ groups[g].reminders \in Nat
        /\ new.failure = groups[g].failure /\ new.reminders = groups[g].reminders + 1
    BY DEF IInv, Group, VerifyOffline, Reminded
  <2>3. groups[g].status = "approved" /\ GroupInv(groups[g])
    BY DEF IInv, VerifyOffline
  <2> HIDE DEF new
  <2> QED BY <2>1, <2>2, <2>3, NoneAssumption DEF GroupInv, Notes
<1>3. Replace(g, new) /\ verified' \subseteq Verifications
  BY <1>1 DEF IInv
<1> QED BY <1>2, <1>3, ReplaceKeepsInv

(* Marking a player online only clears the reminder with its failure.      *)
LEMMA MarkOnlineInv ==
    ASSUME IInv, NEW u \in Users, NEW g \in GroupIds, MarkOnline(u, g)
    PROVE  IInv'
<1> DEFINE new == ClearReminder(groups[g])
<1>1. GroupInv(new)
  <2>1. GroupInv(groups[g]) /\ groups[g].status = "approved"
    BY DEF IInv, MarkOnline
  <2>2. /\ new \in Group
        /\ new.status = groups[g].status /\ new.content = groups[g].content
        /\ new.revision = groups[g].revision /\ new.approvedAt = groups[g].approvedAt
        /\ new.reminders = 0 /\ new.failure = None
        /\ new.verification = groups[g].verification /\ new.note = groups[g].note
    BY <2>1 DEF GroupInv, Group, Statuses, ClearReminder
  <2> HIDE DEF new
  <2> QED BY <2>1, <2>2 DEF GroupInv
<1>2. Replace(g, new) /\ verified' \subseteq Verifications
  BY DEF MarkOnline, IInv
<1> QED BY <1>1, <1>2, ReplaceKeepsInv

(* A failure of auto comes with a reminder.                                *)
LEMMA FailureInv ==
    ASSUME IInv, NEW g \in GroupIds, NEW reason \in Failures, RecordAutomationFailure(g, reason)
    PROVE  IInv'
<1> DEFINE reminded == IF groups[g].reminders = 0 THEN Reminded(groups[g]) ELSE groups[g]
           new == [reminded EXCEPT !.failure = reason]
<1>1. GroupInv(new)
  BY NoneAssumption DEF IInv, RecordAutomationFailure, GroupInv, Group, Statuses, Reminded
<1>2. Replace(g, new) /\ verified' \subseteq Verifications
  BY DEF RecordAutomationFailure, IInv
<1> QED BY <1>1, <1>2, ReplaceKeepsInv

(* A success of auto finishes an approved order.                           *)
LEMMA SuccessInv ==
    ASSUME IInv, NEW g \in GroupIds, RecordAutomationSuccess(g)
    PROVE  IInv'
<1> DEFINE new == ClearReminder([groups[g] EXCEPT !.verification = None,
                     !.status = IF IsIssuanceGroup(groups[g].content) THEN "issued" ELSE "completed"])
<1>1. GroupInv(new)
  <2>1. GroupInv(groups[g]) /\ groups[g].status = "approved"
    BY DEF IInv, RecordAutomationSuccess
  <2>2. /\ new \in Group
        /\ new.status \in {"issued", "completed"} /\ new.content = groups[g].content
        /\ new.revision = groups[g].revision /\ new.approvedAt = groups[g].approvedAt
        /\ new.reminders = 0 /\ new.failure = None
        /\ new.verification = None /\ new.note = groups[g].note
    <3> DEFINE st == IF IsIssuanceGroup(groups[g].content) THEN "issued" ELSE "completed"
    <3>1. st \in {"issued", "completed"}
      OBVIOUS
    <3>2. \A grp \in Group, t \in {"issued", "completed"} :
              [grp EXCEPT !.verification = None, !.status = t] \in Group
      BY DEF Group, Statuses
    <3>3. \A grp \in Group : ClearReminder(grp) \in Group
      BY DEF Group, ClearReminder
    <3>4. groups[g] \in Group /\ new \in Group
      BY <2>1, <3>1, <3>2, <3>3 DEF GroupInv
    <3> QED BY <3>1, <3>4 DEF Group, ClearReminder
  <2> HIDE DEF new
  <2> QED BY <2>1, <2>2 DEF GroupInv
<1>2. Replace(g, new) /\ verified' \subseteq Verifications
  BY DEF RecordAutomationSuccess, IInv
<1> QED BY <1>1, <1>2, ReplaceKeepsInv

(* An unknown delivery takes its own note and drops the confirmation.      *)
LEMMA UnknownInv ==
    ASSUME IInv, NEW g \in GroupIds, RecordAutomationUnknown(g)
    PROVE  IInv'
<1> DEFINE new == ClearReminder([groups[g] EXCEPT !.note = "unknown-delivery", !.verification = None])
<1>1. GroupInv(new)
  <2>1. GroupInv(groups[g]) /\ groups[g].status = "approved"
    BY DEF IInv, RecordAutomationUnknown
  <2>2. /\ new \in Group
        /\ new.status = groups[g].status /\ new.content = groups[g].content
        /\ new.revision = groups[g].revision /\ new.approvedAt = groups[g].approvedAt
        /\ new.reminders = 0 /\ new.failure = None
        /\ new.verification = None /\ new.note = "unknown-delivery"
    BY <2>1 DEF GroupInv, Group, Statuses, ClearReminder, Notes
  <2> HIDE DEF new
  <2> QED BY <2>1, <2>2 DEF GroupInv
<1>2. Replace(g, new) /\ verified' \subseteq Verifications
  BY DEF RecordAutomationUnknown, IInv
<1> QED BY <1>1, <1>2, ReplaceKeepsInv

(* The batch stores many records at once, each of them new.                 *)
LEMMA BatchInv ==
    ASSUME IInv, NEW u \in Users, NEW ids \in SUBSET BatchIds, NEW entries \in [ids -> Contents],
           SubmitApprovedBatch(u, entries)
    PROVE  IInv'
<1> DEFINE reward(c) == [NoGroup EXCEPT !.status = "approved", !.owner = u,
                                        !.content = c, !.approvedAt = 0]
<1>1. ASSUME NEW c \in Contents PROVE GroupInv(reward(c))
  <2>1. reward(c) \in Group
    BY DEF NoGroup, Group, Statuses
  <2>2. /\ reward(c).status = "approved" /\ reward(c).content = c
        /\ reward(c).approvedAt = reward(c).revision
        /\ reward(c).failure = None /\ reward(c).verification = None /\ reward(c).note = None
    BY DEF NoGroup
  <2> HIDE DEF reward
  <2> QED BY <2>1, <2>2, NoneAssumption DEF GroupInv, Notes
<1>2. ASSUME NEW g \in GroupIds PROVE GroupInv(groups'[g])
  <2>1. CASE g \in ids /\ groups[g].status = "absent"
    <3>1. groups'[g] = reward(entries[g]) /\ entries[g] \in Contents
      BY <2>1 DEF SubmitApprovedBatch
    <3> QED BY <3>1, <1>1
  <2>2. CASE ~(g \in ids /\ groups[g].status = "absent")
    BY <2>2 DEF SubmitApprovedBatch, IInv
  <2> QED BY <2>1, <2>2
<1>3. groups' \in [GroupIds -> Group]
  BY <1>2 DEF SubmitApprovedBatch, GroupInv
<1> QED BY <1>2, <1>3 DEF IInv, SubmitApprovedBatch

-----------------------------------------------------------------------------
(* The empty table satisfies the invariant.                                *)
LEMMA InitInv == Init => IInv
BY NoGroupInv DEF Init, IInv, GroupInv

(* Every operation of the service keeps the invariant.                     *)
LEMMA NextInv == IInv /\ [Next]_vars => IInv'
<1> SUFFICES ASSUME IInv, [Next]_vars PROVE IInv'
  OBVIOUS
<1>1. ASSUME NEW u \in Users, NEW g \in GroupIds, CustomerStep(u, g) PROVE IInv'
  BY <1>1, SubmitInv, UpdateInv, CancelInv, MarkOnlineInv DEF CustomerStep
<1>2. ASSUME NEW u \in Users, NEW g \in GroupIds, StaffStep(u, g) PROVE IInv'
  BY <1>2, ApproveInv, RejectInv, IssueInv, CompleteInv, RemindInv, VerifyOfflineInv DEF StaffStep
<1>3. ASSUME NEW u \in Users, BatchStep(u) PROVE IInv'
  BY <1>3, BatchInv DEF BatchStep
<1>4. ASSUME NEW g \in GroupIds, AutomationStep(g) PROVE IInv'
  BY <1>4, FailureInv, SuccessInv, UnknownInv DEF AutomationStep
<1>5. CASE UNCHANGED vars
  BY <1>5 DEF vars, IInv, GroupInv
<1> QED BY <1>1, <1>2, <1>3, <1>4, <1>5 DEF Next

(* The inductive invariant holds of every behaviour.                        *)
LEMMA Invariance == Spec => []IInv
BY InitInv, NextInv, PTL DEF Spec

-----------------------------------------------------------------------------
(* The state is always well typed.                                          *)
THEOREM TypeCorrect == Spec => []TypeOK
<1>1. IInv => TypeOK
  BY DEF IInv, TypeOK
<1> QED BY <1>1, Invariance, PTL

(* No order is released on an approval of an earlier version of it: an edit *)
(* (service.ts update) always costs the approval it had.                    *)
THEOREM ReleaseIsReviewed == Spec => []ReviewedBeforeRelease
<1>1. IInv => ReviewedBeforeRelease
  BY DEF IInv, GroupInv, ReviewedBeforeRelease
<1> QED BY <1>1, Invariance, PTL

(* What waits for review carries nothing of an earlier release.             *)
THEOREM ReviewIsClean == Spec => []ReviewStartsClean
<1>1. IInv => ReviewStartsClean
  BY DEF IInv, GroupInv, ReviewStartsClean
<1> QED BY <1>1, Invariance, PTL

(* A failure reason is never stored on an order outside the reminder list.  *)
THEOREM FailuresAreReminded == Spec => []FailureIsReminded
<1>1. IInv => FailureIsReminded
  BY DEF IInv, GroupInv, FailureIsReminded
<1> QED BY <1>1, Invariance, PTL

(* The note shown to staff and the verification id held always agree.       *)
THEOREM VerificationAgreesWithNote == Spec => []VerificationMatchesNote
<1>1. IInv => VerificationMatchesNote
  BY DEF IInv, GroupInv, VerificationMatchesNote
<1> QED BY <1>1, Invariance, PTL

-----------------------------------------------------------------------------
(* What each step does to owners and keys: it keeps those of the stored     *)
(* groups, and only Submit gives a key to a group that had none, after the  *)
(* lookup found no group of this owner with it.                             *)
KeysKept == \A g \in GroupIds :
               groups'[g].key = groups[g].key /\ groups'[g].owner = groups[g].owner

(* A record that replaces a stored one and agrees on owner and key.         *)
LEMMA ReplaceKeepsKeys ==
    ASSUME IInv, NEW g \in GroupIds, NEW grp, Replace(g, grp),
           grp.key = groups[g].key, grp.owner = groups[g].owner
    PROVE  KeysKept
BY DEF IInv, Replace, KeysKept

(* An operation of a submitter keeps owner and key of the order.           *)
LEMMA CustomerKeepsKeys ==
    ASSUME IInv, NEW u \in Users, NEW g \in GroupIds,
           (\E c \in Contents : Update(u, g, c)) \/ Cancel(u, g) \/ MarkOnline(u, g)
    PROVE  KeysKept
<1>1. groups[g] \in Group
  BY DEF IInv
<1>2. ASSUME NEW c \in Contents, Update(u, g, c) PROVE KeysKept
  BY <1>1, <1>2, ReplaceKeepsKeys DEF Update, ClearReminder, Group
<1>3. CASE Cancel(u, g)
  BY <1>1, <1>3, ReplaceKeepsKeys DEF Cancel, Group
<1>4. CASE MarkOnline(u, g)
  BY <1>1, <1>4, ReplaceKeepsKeys DEF MarkOnline, ClearReminder, Group
<1> QED BY <1>2, <1>3, <1>4

(* An operation of the staff keeps owner and key of the order.             *)
LEMMA StaffKeepsKeys ==
    ASSUME IInv, NEW u \in Users, NEW g \in GroupIds, StaffStep(u, g)
    PROVE  KeysKept
<1>1. groups[g] \in Group
  BY DEF IInv
<1>2. CASE Approve(u, g)
  BY <1>1, <1>2, ReplaceKeepsKeys DEF Approve, Group
<1>3. CASE Reject(u, g)
  BY <1>1, <1>3, ReplaceKeepsKeys DEF Reject, Group
<1>4. ASSUME NEW note \in {"manual", None}, Issue(u, g, note) PROVE KeysKept
  BY <1>1, <1>4, ReplaceKeepsKeys DEF Issue, WithNote, Group
<1>5. ASSUME NEW note \in {"manual", None}, Complete(u, g, note) PROVE KeysKept
  BY <1>1, <1>5, ReplaceKeepsKeys DEF Complete, WithNote, Group
<1>6. CASE Remind(u, g)
  BY <1>1, <1>6, ReplaceKeepsKeys DEF Remind, Reminded, Group
<1>7. CASE VerifyOffline(u, g)
  BY <1>1, <1>7, ReplaceKeepsKeys DEF VerifyOffline, Reminded, Group
<1> QED BY <1>2, <1>3, <1>4, <1>5, <1>6, <1>7 DEF StaffStep

(* A result of auto keeps owner and key of the order.                      *)
LEMMA AutomationKeepsKeys ==
    ASSUME IInv, NEW g \in GroupIds, AutomationStep(g)
    PROVE  KeysKept
<1>1. groups[g] \in Group
  BY DEF IInv
<1>2. ASSUME NEW reason \in Failures, RecordAutomationFailure(g, reason) PROVE KeysKept
  BY <1>1, <1>2, ReplaceKeepsKeys DEF RecordAutomationFailure, Reminded, Group
<1>3. CASE RecordAutomationSuccess(g)
  BY <1>1, <1>3, ReplaceKeepsKeys DEF RecordAutomationSuccess, ClearReminder, Group
<1>4. CASE RecordAutomationUnknown(g)
  BY <1>1, <1>4, ReplaceKeepsKeys DEF RecordAutomationUnknown, ClearReminder, Group
<1> QED BY <1>2, <1>3, <1>4 DEF AutomationStep

(* Rewards carry no key, and only absent groups are filled.                 *)
LEMMA BatchKeepsKeyed ==
    ASSUME NEW u \in Users, BatchStep(u)
    PROVE  \A g \in GroupIds :
             groups'[g].key = None \/ (groups'[g] = groups[g])
BY DEF BatchStep, SubmitApprovedBatch, NoGroup

(* A submission stores a key only if no order has it.                      *)
LEMMA SubmitKeepsOneGroupPerKey ==
    ASSUME IInv, OneGroupPerKey, NEW u \in Users, NEW g \in GroupIds, NEW c \in Contents,
           NEW k \in Keys \cup {None}, Submit(u, g, c, k)
    PROVE  OneGroupPerKey'
<1>1. /\ groups'[g].key = k /\ groups'[g].owner = u
      /\ \A h \in GroupIds \ {g} : groups'[h] = groups[h]
  BY DEF IInv, Submit, Replace, NoGroup
<1>2. k # None => \A h \in GroupIds : ~(groups[h].key = k /\ groups[h].owner = u)
  BY DEF Submit, KeyTaken
<1> QED BY <1>1, <1>2 DEF OneGroupPerKey

(* Whatever is retried, interleaved or edited, one owner and one            *)
(* idempotency key name at most one stored order.                           *)
THEOREM SubmissionIsIdempotent == Spec => []OneGroupPerKey
<1>1. Init => OneGroupPerKey
  BY DEF Init, OneGroupPerKey, NoGroup
<1>2. IInv /\ OneGroupPerKey /\ [Next]_vars => OneGroupPerKey'
  <2> SUFFICES ASSUME IInv, OneGroupPerKey, [Next]_vars PROVE OneGroupPerKey'
    OBVIOUS
  <2>1. KeysKept => OneGroupPerKey'
    BY DEF KeysKept, OneGroupPerKey
  <2>2. ASSUME NEW u \in Users, NEW g \in GroupIds, CustomerStep(u, g) PROVE OneGroupPerKey'
    BY <2>1, <2>2, CustomerKeepsKeys, SubmitKeepsOneGroupPerKey DEF CustomerStep
  <2>3. ASSUME NEW u \in Users, NEW g \in GroupIds, StaffStep(u, g) PROVE OneGroupPerKey'
    BY <2>1, <2>3, StaffKeepsKeys
  <2>4. ASSUME NEW u \in Users, BatchStep(u) PROVE OneGroupPerKey'
    BY <2>4, BatchKeepsKeyed DEF OneGroupPerKey
  <2>5. ASSUME NEW g \in GroupIds, AutomationStep(g) PROVE OneGroupPerKey'
    BY <2>1, <2>5, AutomationKeepsKeys
  <2>6. CASE UNCHANGED vars
    BY <2>6 DEF vars, OneGroupPerKey
  <2> QED BY <2>2, <2>3, <2>4, <2>5, <2>6 DEF Next
<1> QED BY <1>1, <1>2, Invariance, PTL DEF Spec

-----------------------------------------------------------------------------
(* Every operation but SubmitApprovedBatch rewrites one row, and not one    *)
(* that is issued, completed or cancelled.                                  *)
LEMMA OnlyOpenRowsChange ==
    ASSUME NEW g \in GroupIds,
           (\E u \in Users : CustomerStep(u, g) \/ StaffStep(u, g)) \/ AutomationStep(g)
    PROVE  /\ groups[g].status \notin Final
           /\ \E grp : Replace(g, grp)
<1>1. ASSUME NEW u \in Users, CustomerStep(u, g)
      PROVE groups[g].status \notin Final /\ \E grp : Replace(g, grp)
  BY <1>1 DEF CustomerStep, Submit, Update, Cancel, MarkOnline, CanCustomerModify, Final
<1>2. ASSUME NEW u \in Users, StaffStep(u, g)
      PROVE groups[g].status \notin Final /\ \E grp : Replace(g, grp)
  BY <1>2 DEF StaffStep, Approve, Reject, Issue, Complete, CanComplete, Remind, VerifyOffline, Final
<1>3. ASSUME AutomationStep(g)
      PROVE groups[g].status \notin Final /\ \E grp : Replace(g, grp)
  BY <1>3 DEF AutomationStep, RecordAutomationFailure, RecordAutomationSuccess,
              RecordAutomationUnknown, Final
<1> QED BY <1>1, <1>2, <1>3

(* No step, not even a late automation result or a replayed reward batch,   *)
(* changes an order that was issued, completed or cancelled.                *)
THEOREM FinalOrdersNeverChange == Spec => FinalIsImmutable
<1>1. IInv /\ [Next]_vars
        => [\A g \in GroupIds : groups[g].status \in Final => groups'[g] = groups[g]]_vars
  <2> SUFFICES ASSUME IInv, Next, NEW h \in GroupIds, groups[h].status \in Final
               PROVE  groups'[h] = groups[h]
    OBVIOUS
  <2>1. ASSUME NEW g \in GroupIds,
               (\E u \in Users : CustomerStep(u, g) \/ StaffStep(u, g)) \/ AutomationStep(g)
        PROVE  groups'[h] = groups[h]
    <3>1. groups[g].status \notin Final /\ \E grp : Replace(g, grp)
      BY <2>1, OnlyOpenRowsChange
    <3> QED BY <3>1 DEF Replace, IInv
  <2>2. ASSUME NEW u \in Users, BatchStep(u) PROVE groups'[h] = groups[h]
    BY <2>2 DEF BatchStep, SubmitApprovedBatch, Final
  <2> QED BY <2>1, <2>2 DEF Next
<1> QED BY <1>1, Invariance, PTL DEF Spec, FinalIsImmutable

-----------------------------------------------------------------------------
(* No order is released on an approval it does not carry, and none enters   *)
(* review with leftovers of an earlier release.                             *)
THEOREM ReviewHolds == Spec => []ReviewIsRespected
<1>1. ReviewedBeforeRelease /\ ReviewStartsClean => ReviewIsRespected
  BY DEF ReviewIsRespected
<1> QED BY <1>1, ReleaseIsReviewed, ReviewIsClean, PTL

(* A failure has its reminder, a note its verification and a key one order, *)
(* in every reachable state.                                                *)
THEOREM RecordsAlwaysAgree == Spec => []RecordsAgree
<1>1. FailureIsReminded /\ VerificationMatchesNote /\ OneGroupPerKey => RecordsAgree
  BY DEF RecordsAgree
<1> QED BY <1>1, FailuresAreReminded, VerificationAgreesWithNote, SubmissionIsIdempotent, PTL
=============================================================================
