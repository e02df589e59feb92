---------------------- MODULE AutomationWorkflow_proofs ----------------------
(***************************************************************************)
(* Proofs about AutomationWorkflow for any users, orders, verifications,   *)
(* edits and calls.  What holds of the work orders alone is taken from     *)
(* OperationGroups_proofs: every step of the workflow is one of theirs or  *)
(* leaves them alone.  The inductive invariant relates the two processes:  *)
(* an approved order, a verification it holds and every call made of it    *)
(* are of a revision that was authorised (Orders, Sent), and an answer     *)
(* tells what was delivered.                                               *)
(***************************************************************************)
EXTENDS AutomationWorkflow, TLAPS

(* The work orders with the theorems about them.                           *)
P == INSTANCE OperationGroups_proofs

USE DEF P!GroupIds, G!GroupIds

(* The two instances of the work orders are the same.                      *)
LEMMA SameNext == G!Next => P!Next
BY DEF G!Next, P!Next, G!CustomerStep, P!CustomerStep, G!StaffStep, P!StaffStep, G!BatchStep, P!BatchStep,
   G!AutomationStep, P!AutomationStep, G!Submit, P!Submit, G!Update, P!Update, G!Cancel, P!Cancel,
   G!MarkOnline, P!MarkOnline, G!Approve, P!Approve, G!Reject, P!Reject, G!Issue, P!Issue,
   G!Complete, P!Complete, G!Remind, P!Remind, G!VerifyOffline, P!VerifyOffline,
   G!SubmitApprovedBatch, P!SubmitApprovedBatch, G!RecordAutomationFailure, P!RecordAutomationFailure,
   G!RecordAutomationSuccess, P!RecordAutomationSuccess, G!RecordAutomationUnknown, P!RecordAutomationUnknown,
   G!Replace, P!Replace, G!MayUse, P!MayUse, G!KeyTaken, P!KeyTaken, G!NoGroup, P!NoGroup,
   G!IsNoReviewGroup, P!IsNoReviewGroup, G!IsIssuanceGroup, P!IsIssuanceGroup,
   G!CanCustomerModify, P!CanCustomerModify, G!ClearReminder, P!ClearReminder, G!Reminded, P!Reminded,
   G!WithNote, P!WithNote, G!CanComplete, P!CanComplete, G!Failures, P!Failures

LEMMA OrdersKept ==
    ASSUME P!IInv, [G!Next]_orderVars
    PROVE  P!IInv'
<1>1. [P!Next]_P!vars
  BY SameNext DEF orderVars, P!vars
<1>2. P!IInv /\ [P!Next]_P!vars => P!IInv'
  BY P!NextInv, OrdersAssumption DEF P!Workspaces, P!OperationTypes, P!Failures, P!Notes,
     G!Workspaces, G!OperationTypes, G!Failures, G!Notes
<1> QED BY <1>1, <1>2

LEMMA SameTypes == P!IInv => G!TypeOK /\ P!TypeOK
BY DEF P!IInv, P!TypeOK, G!TypeOK, P!Group, G!Group, P!Statuses, G!Statuses, P!Failures, G!Failures,
   P!Notes, G!Notes

LEMMA SameInit == G!Init => P!IInv
<1>1. G!Init => P!Init
  BY DEF G!Init, P!Init, G!NoGroup, P!NoGroup
<1>2. P!Init => P!IInv
  BY P!InitInv, OrdersAssumption DEF P!Workspaces, P!OperationTypes, P!Failures, P!Notes,
     G!Workspaces, G!OperationTypes, G!Failures, G!Notes
<1> QED BY <1>1, <1>2

-----------------------------------------------------------------------------
(* A record an order may have: within the bound, authorised when approved, *)
(* and with no verification but one that was given for its revision.  A, V *)
(* and M are authorised, verified and minted.                              *)
Fits(g, grp, A, V, M) ==
    /\ grp.revision \in 0..MaxRevision
    /\ grp.status = "absent" => grp.revision = 0
    /\ grp.status = "approved" => <<g, grp.revision>> \in A
    /\ grp.verification # None => grp.verification \in V /\ M[grp.verification] = <<g, grp.revision>>

Orders == \A g \in G!GroupIds : Fits(g, groups[g], authorised, verified, minted)

(* A call that is under way was made of an authorised revision, with none  *)
(* but a verification given for it, and its answer tells what was delivered*)
Backed(c) ==
    calls[c].pc # "idle" =>
        /\ calls[c].group \in G!GroupIds
        /\ CallId(c) \in authorised
        /\ calls[c].revision <= groups[calls[c].group].revision
        /\ calls[c].verification # None =>
               calls[c].verification \in verified /\ minted[calls[c].verification] = CallId(c)
        /\ calls[c].pc = "answered" /\ calls[c].reply = "success" =>
               delivery[CallId(c)] = "delivered"

Sent == \A c \in Calls : Backed(c) /\ (calls[c].waiting => calls[c].pc # "idle")

(* The types of what is not an order.                                      *)
RestTyped ==
    /\ D!TypeOK /\ enabled \in BOOLEAN /\ calls \in [Calls -> Call]
    /\ finisher \in [G!GroupIds -> {"auto", "staff", None}]
    /\ authorised \subseteq Executions /\ minted \in [Verifications -> Executions \cup {None}]

WInv == P!IInv /\ RestTyped /\ Orders /\ Sent /\ ReviewedBeforeSending /\ AutoFinishIsOfADelivery

(* An order gets another record.                                           *)
Stores(g) ==
    \E grp : /\ groups' = [groups EXCEPT ![g] = grp]
             /\ groups[g].revision <= grp.revision
             /\ Fits(g, grp, authorised', verified', minted')

(* What no step takes back.                                                *)
Remembers ==
    /\ authorised \subseteq authorised' /\ verified \subseteq verified'
    /\ \A v \in verified : minted'[v] = minted[v]

Grows ==
    /\ Remembers
    /\ \A g \in G!GroupIds : groups[g].revision <= groups'[g].revision
    /\ \A e \in Executions : delivery[e] = "delivered" => delivery'[e] = "delivered"

-----------------------------------------------------------------------------
LEMMA GroupsTyped ==
    ASSUME WInv
    PROVE  /\ groups \in [G!GroupIds -> G!Group] /\ verified \subseteq Verifications
           /\ \A g \in G!GroupIds : /\ groups[g].revision \in Nat /\ groups[g].revision <= MaxRevision
                                     /\ ExecutionId(g) \in Executions
<1>1. groups \in [G!GroupIds -> G!Group] /\ verified \subseteq Verifications
  BY SameTypes DEF WInv, G!TypeOK
<1>2. \A g \in G!GroupIds : groups[g].revision \in 0..MaxRevision
  BY DEF WInv, Orders, Fits
<1> QED BY <1>1, <1>2, OrdersAssumption DEF ExecutionId, Executions

LEMMA StoreKeeps ==
    ASSUME WInv, Remembers, NEW g \in G!GroupIds, Stores(g)
    PROVE  Orders' /\ \A h \in G!GroupIds : groups[h].revision <= groups'[h].revision
<1>1. PICK grp : /\ groups' = [groups EXCEPT ![g] = grp]
                 /\ groups[g].revision <= grp.revision
                 /\ Fits(g, grp, authorised', verified', minted')
  BY DEF Stores
<1>2. ASSUME NEW h \in G!GroupIds
      PROVE  /\ Fits(h, groups'[h], authorised', verified', minted')
             /\ groups[h].revision <= groups'[h].revision
  <2>1. CASE h = g
    BY <1>1, <2>1, GroupsTyped
  <2>2. CASE h # g
    <3>1. groups'[h] = groups[h] /\ Fits(h, groups[h], authorised, verified, minted)
      BY <1>1, <2>2, GroupsTyped DEF WInv, Orders
    <3> QED BY <3>1, GroupsTyped DEF Fits, Remembers
  <2> QED BY <2>1, <2>2
<1> QED BY <1>2 DEF Orders

LEMMA SameOrders ==
    ASSUME WInv, UNCHANGED <<orderVars, authorised, minted>>
    PROVE  Orders' /\ Remembers /\ \A h \in G!GroupIds : groups[h].revision <= groups'[h].revision
BY GroupsTyped DEF WInv, Orders, Fits, Remembers, orderVars

(* A call that is left alone stays backed.                                 *)
LEMMA StaysBacked ==
    ASSUME WInv, Grows, NEW c \in Calls, calls'[c] = calls[c], groups' \in [G!GroupIds -> G!Group]
    PROVE  Backed(c)' /\ (calls'[c].waiting => calls'[c].pc # "idle")
<1>1. calls[c] \in Call /\ Backed(c) /\ (calls[c].waiting => calls[c].pc # "idle")
  BY DEF WInv, RestTyped, Sent
<1>2. calls[c].revision \in Nat
  BY <1>1, OrdersAssumption DEF Call
<1>3. CallId(c)' = CallId(c)
  BY DEF CallId
<1>4. calls[c].pc # "idle" =>
          /\ CallId(c) \in Executions /\ groups'[calls[c].group].revision \in Nat
          /\ groups[calls[c].group].revision \in Nat
  BY <1>1, GroupsTyped DEF CallId, Executions, Call, Backed, G!Group
<1> QED BY <1>1, <1>2, <1>3, <1>4 DEF Backed, Grows, Remembers

(* What a step must show.                                                  *)
LEMMA Assemble ==
    ASSUME WInv, [G!Next]_orderVars, RestTyped', Orders', Grows,
           \A c \in Calls : \/ calls'[c] = calls[c]
                            \/ calls'[c].pc = "idle" /\ ~calls'[c].waiting
                            \/ calls'[c].pc # "idle" /\ Backed(c)',
           \A e \in Executions : delivery'[e] # "unsent" => delivery[e] # "unsent" \/ e \in authorised,
           \A g \in G!GroupIds : finisher'[g] = "auto" =>
               finisher[g] = "auto" \/ \E r \in 0..groups[g].revision : delivery[<<g, r>>] = "delivered"
    PROVE  WInv'
<1>1. P!IInv' /\ groups' \in [G!GroupIds -> G!Group]
  <2>1. P!IInv'
    BY OrdersKept DEF WInv
  <2>2. G!TypeOK'
    BY <2>1, SameTypes, PTL
  <2> QED BY <2>1, <2>2 DEF G!TypeOK
<1>2. Sent'
  <2> SUFFICES ASSUME NEW c \in Calls PROVE Backed(c)' /\ (calls'[c].waiting => calls'[c].pc # "idle")
    BY DEF Sent
  <2>1. CASE calls'[c] = calls[c]
    BY <1>1, <2>1, StaysBacked
  <2>2. CASE calls'[c].pc = "idle" /\ ~calls'[c].waiting
    BY <2>2 DEF Backed
  <2>3. CASE calls'[c].pc # "idle" /\ Backed(c)'
    BY <2>3
  <2> QED BY <2>1, <2>2, <2>3
<1>3. ReviewedBeforeSending'
  BY DEF ReviewedBeforeSending, WInv, Grows, Remembers
<1>4. AutoFinishIsOfADelivery'
  <2> SUFFICES ASSUME NEW g \in G!GroupIds, finisher'[g] = "auto"
               PROVE  \E r \in 0..groups'[g].revision : delivery'[<<g, r>>] = "delivered"
    BY DEF AutoFinishIsOfADelivery
  <2>1. PICK r \in 0..groups[g].revision : delivery[<<g, r>>] = "delivered"
    BY DEF WInv, AutoFinishIsOfADelivery
  <2>2. groups[g].revision \in 0..MaxRevision /\ groups[g].revision <= groups'[g].revision
        /\ groups'[g].revision \in Nat
    BY <1>1, GroupsTyped DEF Grows, G!Group
  <2>3. <<g, r>> \in Executions /\ r \in 0..groups'[g].revision
    BY <2>1, <2>2, OrdersAssumption DEF Executions
  <2> QED BY <2>1, <2>3 DEF Grows
<1> QED BY <1>1, <1>2, <1>3, <1>4 DEF WInv

-----------------------------------------------------------------------------
(* The operations of the work orders.                                      *)
LEMMA SubmitStores ==
    ASSUME WInv, NEW u, NEW g \in G!GroupIds, NEW content, NEW k, G!Submit(u, g, content, k),
           Remembers, G!IsNoReviewGroup(content) => ExecutionId(g) \in authorised'
    PROVE  Stores(g) /\ groups[g].revision = 0
<1> DEFINE new == [G!NoGroup EXCEPT !.status = IF G!IsNoReviewGroup(content) THEN "approved" ELSE "pending",
                                    !.owner = u, !.content = content, !.key = k]
<1>1. groups' = [groups EXCEPT ![g] = new] /\ groups[g].status = "absent"
  BY DEF G!Submit, G!Replace
<1>2. groups[g].revision = 0
  BY <1>1 DEF WInv, Orders, Fits
<1>3. /\ new.revision = 0 /\ new.verification = None
      /\ new.status = IF G!IsNoReviewGroup(content) THEN "approved" ELSE "pending"
  BY DEF G!NoGroup
<1> HIDE DEF new
<1>4. Fits(g, new, authorised', verified', minted')
  BY <1>2, <1>3, OrdersAssumption DEF Fits, ExecutionId
<1>5. groups[g].revision <= new.revision
  BY <1>2, <1>3
<1> QED BY <1>1, <1>2, <1>4, <1>5, Zenon DEF Stores

(* An operation that keeps the revision of an order keeps it fitting, if   *)
(* it approves nothing and adds no verification.                           *)
LEMMA SameRevisionStores ==
    ASSUME WInv, Remembers, NEW g \in G!GroupIds, NEW grp, groups' = [groups EXCEPT ![g] = grp],
           grp.revision = groups[g].revision, grp.status # "absent",
           grp.status = "approved" => groups[g].status = "approved" \/ ExecutionId(g) \in authorised',
           grp.verification \in {None, groups[g].verification}
    PROVE  Stores(g)
<1>1. Fits(g, groups[g], authorised, verified, minted)
  BY DEF WInv, Orders
<1>2. Fits(g, grp, authorised', verified', minted')
  BY <1>1 DEF Fits, Remembers, ExecutionId
<1>3. groups[g].revision <= grp.revision
  BY GroupsTyped
<1> QED BY <1>2, <1>3, Zenon DEF Stores

LEMMA UpdateStores ==
    ASSUME WInv, Remembers, NEW u, NEW g \in G!GroupIds, NEW content, G!Update(u, g, content)
    PROVE  Stores(g)
<1> DEFINE new == G!ClearReminder([groups[g] EXCEPT !.content = content, !.revision = @ + 1,
                     !.status = "pending", !.approvedAt = None, !.verification = None, !.note = None])
<1>1. groups' = [groups EXCEPT ![g] = new] /\ groups[g].revision < MaxRevision
  BY DEF G!Update, G!Replace
<1>2. groups[g] \in G!Group
  BY GroupsTyped
<1>3. new.revision = groups[g].revision + 1 /\ new.status = "pending" /\ new.verification = None
  BY <1>2 DEF G!ClearReminder, G!Group
<1> HIDE DEF new
<1>4. Fits(g, new, authorised', verified', minted')
  BY <1>1, <1>3, GroupsTyped, OrdersAssumption DEF Fits
<1>5. groups[g].revision <= new.revision
  BY <1>3, GroupsTyped
<1> QED BY <1>1, <1>4, <1>5, Zenon DEF Stores

LEMMA ApproveStores ==
    ASSUME WInv, Remembers, NEW u, NEW g \in G!GroupIds, G!Approve(u, g), ExecutionId(g) \in authorised'
    PROVE  Stores(g)
<1> DEFINE new == [groups[g] EXCEPT !.status = "approved", !.approvedAt = groups[g].revision]
<1>1. groups' = [groups EXCEPT ![g] = new] /\ groups[g] \in G!Group
  BY GroupsTyped DEF G!Approve, G!Replace
<1>2. /\ new.revision = groups[g].revision /\ new.status = "approved"
      /\ new.verification = groups[g].verification
  BY <1>1 DEF G!Group
<1> HIDE DEF new
<1> QED BY <1>1, <1>2, SameRevisionStores

(* Cancelling, rejecting, reminding and finishing by hand.                 *)
LEMMA OtherStores ==
    ASSUME WInv, Remembers, NEW u, NEW g \in G!GroupIds,
           \/ G!Cancel(u, g) \/ G!Reject(u, g) \/ G!Remind(u, g) \/ G!MarkOnline(u, g)
           \/ \E note \in {"manual", None} : G!Issue(u, g, note) \/ G!Complete(u, g, note)
    PROVE  Stores(g)
<1>1. groups[g] \in G!Group
  BY GroupsTyped
<1>2. CASE G!Cancel(u, g)
  <2> DEFINE new == [groups[g] EXCEPT !.status = "cancelled"]
  <2>1. groups' = [groups EXCEPT ![g] = new]
    BY <1>2 DEF G!Cancel, G!Replace
  <2>2. /\ new.revision = groups[g].revision /\ new.status = "cancelled"
        /\ new.verification \in {None, groups[g].verification}
    BY <1>1, <1>2 DEF G!Group, G!Cancel
  <2> HIDE DEF new
  <2> QED BY <1>2, <2>1, <2>2, SameRevisionStores DEF G!Cancel
<1>3. CASE G!Reject(u, g)
  <2> DEFINE new == [groups[g] EXCEPT !.status = "rejected"]
  <2>1. groups' = [groups EXCEPT ![g] = new]
    BY <1>3 DEF G!Reject, G!Replace
  <2>2. /\ new.revision = groups[g].revision /\ new.status = "rejected"
        /\ new.verification \in {None, groups[g].verification}
    BY <1>1, <1>3 DEF G!Group, G!Reject
  <2> HIDE DEF new
  <2> QED BY <1>3, <2>1, <2>2, SameRevisionStores DEF G!Reject
<1>4. CASE G!Remind(u, g)
  <2> DEFINE new == G!Reminded(groups[g])
  <2>1. groups' = [groups EXCEPT ![g] = new]
    BY <1>4 DEF G!Remind, G!Replace
  <2>2. /\ new.revision = groups[g].revision /\ new.status = "approved"
        /\ new.verification \in {None, groups[g].verification}
    BY <1>1, <1>4 DEF G!Group, G!Remind, G!Reminded
  <2> HIDE DEF new
  <2> QED BY <1>4, <2>1, <2>2, SameRevisionStores DEF G!Remind
<1>5. CASE G!MarkOnline(u, g)
  <2> DEFINE new == G!ClearReminder(groups[g])
  <2>1. groups' = [groups EXCEPT ![g] = new]
    BY <1>5 DEF G!MarkOnline, G!Replace
  <2>2. /\ new.revision = groups[g].revision /\ new.status = "approved"
        /\ new.verification \in {None, groups[g].verification}
    BY <1>1, <1>5 DEF G!Group, G!MarkOnline, G!ClearReminder
  <2> HIDE DEF new
  <2> QED BY <1>5, <2>1, <2>2, SameRevisionStores DEF G!MarkOnline
<1>6. ASSUME NEW note \in {"manual", None}, G!Issue(u, g, note) \/ G!Complete(u, g, note)
      PROVE  Stores(g)
  <2> DEFINE new(st) == [G!WithNote(groups[g], note) EXCEPT !.status = st]
  <2>1. PICK st \in {"issued", "completed"} : groups' = [groups EXCEPT ![g] = new(st)]
    BY <1>6 DEF G!Issue, G!Complete, G!Replace
  <2>2. /\ new(st).revision = groups[g].revision /\ new(st).status = st
        /\ new(st).verification = groups[g].verification
    BY <1>1 DEF G!WithNote, G!Group
  <2> DEFINE grp == new(st)
  <2>3. groups' = [groups EXCEPT ![g] = grp] /\ grp.revision = groups[g].revision
        /\ grp.status \in {"issued", "completed"} /\ grp.verification = groups[g].verification
    BY <2>1, <2>2
  <2> HIDE DEF grp
  <2> QED BY <2>3, SameRevisionStores
<1> QED BY <1>2, <1>3, <1>4, <1>5, <1>6, Zenon

(* Results of auto keep the revision and at most drop the verification.    *)
LEMMA ResultStores ==
    ASSUME WInv, Remembers, NEW g \in G!GroupIds,
           \/ \E reason : G!RecordAutomationFailure(g, reason)
           \/ G!RecordAutomationSuccess(g) \/ G!RecordAutomationUnknown(g)
    PROVE  Stores(g)
<1>1. groups[g] \in G!Group
  BY GroupsTyped
<1>2. ASSUME NEW reason, G!RecordAutomationFailure(g, reason)
      PROVE  Stores(g)
  <2> DEFINE reminded == IF groups[g].reminders = 0 THEN G!Reminded(groups[g]) ELSE groups[g]
             new == [reminded EXCEPT !.failure = reason]
  <2>1. groups' = [groups EXCEPT ![g] = new] /\ groups[g].status = "approved"
    BY <1>2 DEF G!RecordAutomationFailure, G!Replace
  <2>2. /\ new.revision = groups[g].revision /\ new.status = "approved"
        /\ new.verification = groups[g].verification
    BY <1>1, <2>1 DEF G!Reminded, G!Group
  <2> HIDE DEF new
  <2> QED BY <2>1, <2>2, SameRevisionStores
<1>3. CASE G!RecordAutomationSuccess(g)
  <2> DEFINE st == IF G!IsIssuanceGroup(groups[g].content) THEN "issued" ELSE "completed"
             new == G!ClearReminder([groups[g] EXCEPT !.verification = None, !.status = st])
  <2>1. groups' = [groups EXCEPT ![g] = new]
    BY <1>3 DEF G!RecordAutomationSuccess, G!Replace
  <2>2. new.revision = groups[g].revision /\ new.status = st /\ new.verification = None
    BY <1>1 DEF G!Group, G!ClearReminder
  <2>3. st \in {"issued", "completed"}
    OBVIOUS
  <2> HIDE DEF new, st
  <2> QED BY <2>1, <2>2, <2>3, SameRevisionStores
<1>4. CASE G!RecordAutomationUnknown(g)
  <2> DEFINE new == G!ClearReminder([groups[g] EXCEPT !.note = "unknown-delivery", !.verification = None])
  <2>1. groups' = [groups EXCEPT ![g] = new] /\ groups[g].status = "approved"
    BY <1>4 DEF G!RecordAutomationUnknown, G!Replace
  <2>2. new.revision = groups[g].revision /\ new.status = "approved" /\ new.verification = None
    BY <1>1, <2>1 DEF G!Group, G!ClearReminder
  <2> HIDE DEF new
  <2> QED BY <2>1, <2>2, SameRevisionStores
<1> QED BY <1>2, <1>3, <1>4, Zenon

(* A verification is given for the revision the order has.                 *)
LEMMA VerifyStores ==
    ASSUME WInv, NEW u, NEW g \in G!GroupIds, StaffVerifiesOffline(u, g)
    PROVE  Remembers /\ Stores(g) /\ minted' \in [Verifications -> Executions \cup {None}]
<1>1. PICK v \in Verifications :
          /\ IF groups[g].verification = None THEN v \notin verified ELSE v = groups[g].verification
          /\ groups' = [groups EXCEPT ![g] =
                 G!Reminded([groups[g] EXCEPT !.verification = v, !.note = "verified-offline"])]
          /\ verified' = verified \cup {v} /\ groups[g].status = "approved"
  BY DEF StaffVerifiesOffline, G!VerifyOffline, G!Replace
<1>2. /\ minted' = [w \in Verifications |-> IF w \in verified' \ verified THEN ExecutionId(g) ELSE minted[w]]
      /\ authorised' = authorised
  BY DEF StaffVerifiesOffline
<1>3. Remembers /\ minted' \in [Verifications -> Executions \cup {None}]
  BY <1>1, <1>2, GroupsTyped DEF Remembers, WInv, RestTyped
<1> DEFINE new == G!Reminded([groups[g] EXCEPT !.verification = v, !.note = "verified-offline"])
<1>4. /\ new.revision = groups[g].revision /\ new.status = "approved" /\ new.verification = v
      /\ groups' = [groups EXCEPT ![g] = new]
  BY <1>1, GroupsTyped DEF G!Reminded, G!Group
<1> HIDE DEF new
<1>5. Fits(g, groups[g], authorised, verified, minted)
  BY DEF WInv, Orders
<1>6. v \in verified' /\ minted'[v] = <<g, groups[g].revision>>
  BY <1>1, <1>2, <1>5 DEF Fits, ExecutionId
<1>7. Fits(g, new, authorised', verified', minted')
  BY <1>1, <1>2, <1>4, <1>5, <1>6 DEF Fits
<1>8. groups[g].revision <= new.revision
  BY <1>4, GroupsTyped
<1> QED BY <1>3, <1>4, <1>7, <1>8, Zenon DEF Stores

(* Rewards are new orders, approved as they are.                           *)
LEMMA RewardsKeep ==
    ASSUME WInv, NEW u \in Users, RewardsApproved(u)
    PROVE  /\ G!Next /\ Remembers /\ Orders' /\ authorised' \subseteq Executions
           /\ \A h \in G!GroupIds : groups[h].revision <= groups'[h].revision
<1>1. PICK ids \in SUBSET BatchIds : \E entries \in [ids -> Contents] :
          /\ G!SubmitApprovedBatch(u, entries)
          /\ authorised' = authorised \cup {<<g, 0>> : g \in {h \in DOMAIN entries : groups[h].status = "absent"}}
          /\ minted' = minted
  BY DEF RewardsApproved
<1>2. PICK entries \in [ids -> Contents] :
          /\ G!SubmitApprovedBatch(u, entries)
          /\ authorised' = authorised \cup {<<g, 0>> : g \in {h \in DOMAIN entries : groups[h].status = "absent"}}
          /\ minted' = minted
  BY <1>1
<1>3. G!Next
  BY <1>2 DEF G!Next, G!BatchStep
<1>4. verified' = verified /\ Remembers
  BY <1>2 DEF G!SubmitApprovedBatch, Remembers
<1>5. authorised' \subseteq Executions
  BY <1>2, OrdersAssumption DEF WInv, RestTyped, Executions
<1>6. ASSUME NEW h \in G!GroupIds
      PROVE  /\ Fits(h, groups'[h], authorised', verified', minted')
             /\ groups[h].revision <= groups'[h].revision
  <2>1. Fits(h, groups[h], authorised, verified, minted)
    BY DEF WInv, Orders
  <2>2. CASE h \in ids /\ groups[h].status = "absent"
    <3> DEFINE new == [G!NoGroup EXCEPT !.status = "approved", !.owner = u,
                                        !.content = entries[h], !.approvedAt = 0]
    <3>1. groups'[h] = new
      BY <1>2, <2>2 DEF G!SubmitApprovedBatch
    <3>2. new.revision = 0 /\ new.status = "approved" /\ new.verification = None
      BY DEF G!NoGroup
    <3> HIDE DEF new
    <3>3. <<h, 0>> \in authorised'
      BY <1>2, <2>2
    <3> QED BY <2>1, <2>2, <3>1, <3>2, <3>3, OrdersAssumption DEF Fits
  <2>3. CASE ~(h \in ids /\ groups[h].status = "absent")
    <3>1. groups'[h] = groups[h]
      BY <1>2, <2>3 DEF G!SubmitApprovedBatch
    <3> QED BY <1>4, <2>1, <3>1, GroupsTyped DEF Fits, Remembers
  <2> QED BY <2>2, <2>3
<1> QED BY <1>3, <1>4, <1>5, <1>6 DEF Orders

-----------------------------------------------------------------------------
(* What becomes of a call in a step of the work orders.                    *)
SameOrBacked(c) == calls'[c] = calls[c] \/ (calls'[c].pc # "idle" /\ Backed(c)')

(* A call that is made now is backed by the order it is made of.           *)
LEMMA ExecuteBacks ==
    ASSUME WInv, Remembers, NEW g \in G!GroupIds, NEW retry \in BOOLEAN, Execute(g, retry),
           ExecutionId(g) \in authorised', groups[g].revision <= groups'[g].revision
    PROVE  /\ calls' \in [Calls -> Call]
           /\ \A c \in Calls : SameOrBacked(c)
<1>1. CASE UNCHANGED calls
  BY <1>1 DEF WInv, RestTyped, SameOrBacked
<1>2. ASSUME NEW c \in Calls,
             calls' = [calls EXCEPT ![c] =
                  [pc |-> "queued", group |-> g, revision |-> groups[g].revision,
                   retry |-> retry, waiting |-> TRUE, reply |-> None,
                   verification |-> IF retry THEN groups[g].verification ELSE None]]
      PROVE  /\ calls' \in [Calls -> Call]
             /\ \A d \in Calls : SameOrBacked(d)
  <2> DEFINE v == IF retry THEN groups[g].verification ELSE None
             new == [pc |-> "queued", group |-> g, revision |-> groups[g].revision,
                     retry |-> retry, waiting |-> TRUE, reply |-> None, verification |-> v]
  <2>1. groups[g].revision \in 0..MaxRevision /\ v \in Verifications \cup {None}
    BY GroupsTyped, OrdersAssumption DEF G!Group
  <2> HIDE DEF v
  <2>2. new \in Call
    BY <2>1 DEF Call
  <2>3. /\ new.pc = "queued" /\ new.group = g /\ new.revision = groups[g].revision
        /\ new.verification = v
    OBVIOUS
  <2>4. calls' = [calls EXCEPT ![c] = new]
    BY <1>2 DEF v
  <2> HIDE DEF new
  <2>5. calls' \in [Calls -> Call] /\ calls'[c] = new /\ \A d \in Calls \ {c} : calls'[d] = calls[d]
    BY <2>2, <2>4 DEF WInv, RestTyped
  <2>6. CallId(c)' = ExecutionId(g)
    BY <2>3, <2>5 DEF CallId, ExecutionId
  <2>7. v # None => v \in verified' /\ minted'[v] = ExecutionId(g)
    BY DEF v, WInv, Orders, Fits, Remembers, ExecutionId
  <2>8. Backed(c)'
    BY <2>3, <2>5, <2>6, <2>7 DEF Backed
  <2>9. calls'[c].pc # "idle"
    BY <2>3, <2>5
  <2> QED BY <2>5, <2>8, <2>9 DEF SameOrBacked
<1> QED BY <1>1, <1>2, Zenon DEF Execute

(* A step of the work orders.                                              *)
LEMMA OrderStep ==
    ASSUME WInv, [G!Next]_orderVars, UNCHANGED <<executorVars, enabled>>, Remembers, Orders',
           \A h \in G!GroupIds : groups[h].revision <= groups'[h].revision,
           authorised' \subseteq Executions, minted' \in [Verifications -> Executions \cup {None}],
           calls' \in [Calls -> Call],
           \A c \in Calls : SameOrBacked(c),
           finisher' \in [G!GroupIds -> {"auto", "staff", None}],
           \A g \in G!GroupIds : finisher'[g] = "auto" => finisher[g] = "auto"
    PROVE  WInv'
<1>1. Grows
  BY DEF Grows, executorVars
<1>2. RestTyped'
  BY DEF RestTyped, WInv, D!TypeOK, executorVars
<1>3. \A e \in Executions : delivery'[e] # "unsent" => delivery[e] # "unsent"
  BY DEF executorVars
<1> QED BY <1>1, <1>2, <1>3, Assemble DEF SameOrBacked

LEMMA StoredStep ==
    ASSUME WInv, NEW g \in G!GroupIds, Stores(g), [G!Next]_orderVars, UNCHANGED <<executorVars, enabled>>,
           Remembers, UNCHANGED <<authorised, calls>>,
           minted' \in [Verifications -> Executions \cup {None}],
           finisher' \in [G!GroupIds -> {"auto", "staff", None}],
           \A h \in G!GroupIds : finisher'[h] = "auto" => finisher[h] = "auto"
    PROVE  WInv'
<1>1. Orders' /\ \A h \in G!GroupIds : groups[h].revision <= groups'[h].revision
  BY StoreKeeps
<1>2. authorised' \subseteq Executions /\ calls' \in [Calls -> Call]
  BY DEF WInv, RestTyped
<1>3. \A c \in Calls : SameOrBacked(c)
  BY DEF SameOrBacked
<1> QED BY <1>1, <1>2, <1>3, OrderStep

-----------------------------------------------------------------------------
(* What users do: each step is one of the work orders, and keeps WInv.     *)
LEMMA SubmitStep ==
    ASSUME WInv, NEW u \in Users, NEW g \in SubmitIds, NEW content \in Contents,
           NEW k \in Keys \cup {None}, SubmitAndExecute(u, g, content, k)
    PROVE  WInv' /\ G!Next
<1>1. G!Submit(u, g, content, k) /\ G!Next /\ g \in G!GroupIds
  BY DEF SubmitAndExecute, G!Next, G!CustomerStep
<1>2. verified' = verified /\ UNCHANGED <<executorVars, enabled, finisher, minted>>
  BY <1>1 DEF SubmitAndExecute, G!Submit
<1>3. \/ G!IsNoReviewGroup(content) /\ Execute(g, FALSE) /\ authorised' = authorised \cup {ExecutionId(g)}
      \/ ~G!IsNoReviewGroup(content) /\ UNCHANGED <<calls, authorised>>
  BY DEF SubmitAndExecute, Authorise
<1>4. Remembers /\ authorised' \subseteq Executions
  BY <1>1, <1>2, <1>3, GroupsTyped DEF Remembers, WInv, RestTyped
<1>5. Stores(g)
  BY <1>1, <1>3, <1>4, SubmitStores
<1>6. Orders' /\ \A h \in G!GroupIds : groups[h].revision <= groups'[h].revision
  BY <1>1, <1>4, <1>5, StoreKeeps
<1>7. calls' \in [Calls -> Call] /\ \A c \in Calls : SameOrBacked(c)
  <2>1. CASE Execute(g, FALSE) /\ authorised' = authorised \cup {ExecutionId(g)}
    BY <1>1, <1>4, <1>6, <2>1, ExecuteBacks
  <2>2. CASE UNCHANGED calls
    BY <2>2 DEF SameOrBacked, WInv, RestTyped
  <2> QED BY <1>3, <2>1, <2>2
<1>8. finisher' \in [G!GroupIds -> {"auto", "staff", None}] /\ finisher' = finisher
      /\ minted' \in [Verifications -> Executions \cup {None}]
  BY <1>2 DEF WInv, RestTyped
<1> QED BY <1>1, <1>2, <1>4, <1>6, <1>7, <1>8, OrderStep

LEMMA ApproveStep ==
    ASSUME WInv, NEW u \in Users, NEW g \in G!GroupIds, ApproveAndExecute(u, g)
    PROVE  WInv' /\ G!Next
<1>1. G!Approve(u, g) /\ G!Next
  BY DEF ApproveAndExecute, G!Next, G!StaffStep
<1>2. verified' = verified /\ UNCHANGED <<executorVars, enabled, finisher, minted>>
      /\ authorised' = authorised \cup {ExecutionId(g)} /\ Execute(g, FALSE)
  BY <1>1 DEF ApproveAndExecute, G!Approve, Authorise
<1>3. Remembers /\ authorised' \subseteq Executions
  BY <1>2, GroupsTyped DEF Remembers, WInv, RestTyped
<1>4. Stores(g)
  BY <1>1, <1>2, <1>3, ApproveStores
<1>5. Orders' /\ \A h \in G!GroupIds : groups[h].revision <= groups'[h].revision
  BY <1>3, <1>4, StoreKeeps
<1>6. calls' \in [Calls -> Call] /\ \A c \in Calls : SameOrBacked(c)
  BY <1>2, <1>3, <1>5, ExecuteBacks
<1>7. finisher' \in [G!GroupIds -> {"auto", "staff", None}] /\ finisher' = finisher
      /\ minted' \in [Verifications -> Executions \cup {None}]
  BY <1>2 DEF WInv, RestTyped
<1> QED BY <1>1, <1>2, <1>3, <1>5, <1>6, <1>7, OrderStep

(* An order that is approved already is executed again.                    *)
LEMMA AgainStep ==
    ASSUME WInv, NEW u \in Users, NEW g \in G!GroupIds, ExecuteAgain(u, g) \/ RetryAfterOnline(u, g)
    PROVE  WInv' /\ [G!Next]_orderVars
<1>1. PICK retry \in BOOLEAN : Execute(g, retry)
  BY DEF ExecuteAgain, RetryAfterOnline
<1>2. groups[g].status = "approved" /\ (G!MarkOnline(u, g) \/ UNCHANGED orderVars)
      /\ UNCHANGED <<executorVars, enabled, finisher, authorised, minted>>
  BY DEF ExecuteAgain, RetryAfterOnline, G!MarkOnline, history
<1>3. ExecutionId(g) \in authorised
  BY <1>2 DEF WInv, Orders, Fits, ExecutionId
<1>4. verified' = verified
  BY <1>2 DEF G!MarkOnline, orderVars
<1>5. Remembers /\ [G!Next]_orderVars
  BY <1>2, <1>4 DEF Remembers, G!Next, G!CustomerStep
<1>6. Orders' /\ \A h \in G!GroupIds : groups[h].revision <= groups'[h].revision
  <2>1. CASE G!MarkOnline(u, g)
    BY <1>5, <2>1, OtherStores, StoreKeeps
  <2>2. CASE UNCHANGED orderVars
    BY <1>2, <2>2, SameOrders
  <2> QED BY <1>2, <2>1, <2>2
<1>7. calls' \in [Calls -> Call] /\ \A c \in Calls : SameOrBacked(c)
  BY <1>1, <1>2, <1>3, <1>5, <1>6, ExecuteBacks
<1>8. finisher' \in [G!GroupIds -> {"auto", "staff", None}] /\ finisher' = finisher
      /\ minted' \in [Verifications -> Executions \cup {None}] /\ authorised' \subseteq Executions
  BY <1>2 DEF WInv, RestTyped
<1> QED BY <1>2, <1>5, <1>6, <1>7, <1>8, OrderStep

LEMMA StaffStep ==
    ASSUME WInv, NEW u \in Users, NEW g \in G!GroupIds,
           StaffFinishes(u, g) \/ StaffVerifiesOffline(u, g) \/ OrderChanges(u, g)
    PROVE  WInv' /\ G!Next
<1>1. UNCHANGED <<executorVars, enabled, calls, authorised>>
  BY DEF StaffFinishes, StaffVerifiesOffline, OrderChanges, history
<1>2. CASE StaffVerifiesOffline(u, g)
  <2>1. G!Next
    BY <1>2 DEF StaffVerifiesOffline, G!Next, G!StaffStep
  <2>2. finisher' = finisher
    BY <1>2 DEF StaffVerifiesOffline
  <2> QED BY <1>1, <1>2, <2>1, <2>2, VerifyStores, StoredStep DEF WInv, RestTyped
<1>3. CASE StaffFinishes(u, g) \/ OrderChanges(u, g)
  <2>1. \/ \E note \in {"manual", None} : G!Issue(u, g, note) \/ G!Complete(u, g, note)
        \/ \E content \in Contents : G!Update(u, g, content)
        \/ G!Cancel(u, g) \/ G!Reject(u, g) \/ G!Remind(u, g)
    BY <1>3 DEF StaffFinishes, OrderChanges
  <2>2. G!Next
    BY <2>1, Zenon DEF G!Next, G!CustomerStep, G!StaffStep
  <2>3. verified' = verified
    BY <2>1 DEF G!Issue, G!Complete, G!Update, G!Cancel, G!Reject, G!Remind
  <2>4. minted' = minted /\ finisher' \in {finisher, [finisher EXCEPT ![g] = "staff"]}
    BY <1>3 DEF StaffFinishes, OrderChanges, history
  <2>5. Remembers
    BY <1>1, <2>3, <2>4 DEF Remembers
  <2>6. Stores(g)
    BY <2>1, <2>5, OtherStores, UpdateStores
  <2>7. /\ finisher' \in [G!GroupIds -> {"auto", "staff", None}]
        /\ \A h \in G!GroupIds : finisher'[h] = "auto" => finisher[h] = "auto"
        /\ minted' \in [Verifications -> Executions \cup {None}]
    BY <2>4 DEF WInv, RestTyped
  <2> QED BY <1>1, <2>2, <2>5, <2>6, <2>7, StoredStep
<1> QED BY <1>2, <1>3

LEMMA RewardsStep ==
    ASSUME WInv, NEW u \in Users, RewardsApproved(u)
    PROVE  WInv' /\ G!Next
<1>1. UNCHANGED <<executorVars, enabled, calls, finisher, minted>>
  BY DEF RewardsApproved
<1>2. /\ \A c \in Calls : SameOrBacked(c)
      /\ calls' \in [Calls -> Call] /\ finisher' \in [G!GroupIds -> {"auto", "staff", None}]
      /\ minted' \in [Verifications -> Executions \cup {None}]
  BY <1>1 DEF SameOrBacked, WInv, RestTyped
<1> QED BY <1>1, <1>2, RewardsKeep, OrderStep

-----------------------------------------------------------------------------
(* The executor, and what becomes of its answers.                          *)
LEMMA CallTyped ==
    ASSUME WInv, NEW c \in Calls, calls[c].pc # "idle"
    PROVE  /\ calls[c] \in Call /\ CallId(c) \in Executions /\ CallId(c) \in authorised
           /\ calls[c].group \in G!GroupIds /\ calls[c].verification \in Verifications \cup {None}
BY DEF WInv, RestTyped, Sent, Backed, Call

LEMMA ExecutorKeeps ==
    ASSUME WInv, NEW e \in authorised, NEW v \in Verifications \cup {None},
           D!Attempt(e, v) \/ D!Release(e, v)
    PROVE  /\ D!TypeOK' /\ D!Next
           /\ \A d \in Executions : delivery[d] = "delivered" => delivery'[d] = "delivered"
           /\ \A d \in Executions : delivery'[d] # "unsent" => delivery[d] # "unsent" \/ d \in authorised
<1>1. e \in Executions
  BY DEF WInv, RestTyped
<1>2. D!Next
  BY <1>1 DEF D!Next
<1>3. PICK stage \in {"partial", "unknown", "delivered"} : D!Becomes(e, stage, v) \/ D!Becomes(e, stage, None)
  BY DEF D!Attempt, D!Release
<1>4. delivery[e] # "delivered"
  BY DEF D!Attempt, D!Release, D!CanAttempt, D!CanRelease
<1>5. /\ delivery' = [delivery EXCEPT ![e] = stage]
      /\ mark' \in {[mark EXCEPT ![e] = v], [mark EXCEPT ![e] = None]}
  BY <1>3 DEF D!Becomes
<1>6. D!TypeOK'
  BY <1>5 DEF WInv, RestTyped, D!TypeOK, D!Stages
<1> QED BY <1>1, <1>2, <1>4, <1>5, <1>6 DEF WInv, RestTyped, D!TypeOK

(* A call goes on, or is gone.                                             *)
SettledCall(c) ==
    \/ calls'[c] = calls[c]
    \/ calls'[c].pc = "idle" /\ ~calls'[c].waiting
    \/ (calls'[c].pc # "idle" /\ Backed(c)')

LEMMA NoCallTyped == NoCall \in Call /\ NoCall.pc = "idle" /\ NoCall.waiting = FALSE
BY OrdersAssumption DEF NoCall, Call

(* A call that goes on as the request it was stays backed.                 *)
LEMMA GoesOn ==
    ASSUME WInv, Grows, groups' \in [G!GroupIds -> G!Group], NEW c \in Calls, calls[c].pc # "idle",
           NEW new \in Call, calls'[c] = new, new.pc # "idle",
           new.group = calls[c].group, new.revision = calls[c].revision,
           new.verification = calls[c].verification,
           new.pc = "answered" /\ new.reply = "success" => delivery'[CallId(c)] = "delivered"
    PROVE  SettledCall(c)
<1>1. CallId(c)' = CallId(c) /\ CallId(c) \in Executions /\ calls[c].group \in G!GroupIds
  BY CallTyped DEF CallId
<1>2. Backed(c) /\ calls[c].revision \in Nat
  BY CallTyped, OrdersAssumption DEF WInv, Sent, Call
<1>3. groups[calls[c].group].revision \in Nat /\ groups'[calls[c].group].revision \in Nat
  BY <1>1, GroupsTyped DEF G!Group
<1>4. calls[c].revision <= groups'[calls[c].group].revision
  BY <1>1, <1>2, <1>3 DEF Backed, Grows
<1>5. Backed(c)'
  BY <1>1, <1>2, <1>4 DEF Backed, Grows, Remembers
<1> QED BY <1>5 DEF SettledCall

LEMMA MovesOn ==
    ASSUME WInv, Grows, groups' \in [G!GroupIds -> G!Group], NEW c \in Calls, calls[c].pc # "idle",
           NEW new \in Call, calls' = [calls EXCEPT ![c] = new], new.pc # "idle",
           new.group = calls[c].group, new.revision = calls[c].revision,
           new.verification = calls[c].verification,
           new.pc = "answered" /\ new.reply = "success" => delivery'[CallId(c)] = "delivered"
    PROVE  calls' \in [Calls -> Call] /\ \A d \in Calls : SettledCall(d)
<1>1. /\ calls' \in [Calls -> Call] /\ calls'[c] = new
      /\ \A d \in Calls \ {c} : calls'[d] = calls[d]
  BY DEF WInv, RestTyped
<1>2. SettledCall(c)
  BY <1>1, GoesOn
<1> QED BY <1>1, <1>2 DEF SettledCall

LEMMA Forgotten ==
    ASSUME WInv, NEW c \in Calls, calls' = [calls EXCEPT ![c] = NoCall]
    PROVE  calls' \in [Calls -> Call] /\ \A d \in Calls : SettledCall(d)
<1>1. /\ calls' \in [Calls -> Call] /\ calls'[c] = NoCall
      /\ \A d \in Calls \ {c} : calls'[d] = calls[d]
  BY NoCallTyped DEF WInv, RestTyped
<1> QED BY <1>1, NoCallTyped DEF SettledCall

LEMMA AnswerSettles ==
    ASSUME WInv, Grows, groups' \in [G!GroupIds -> G!Group], NEW c \in Calls, calls[c].pc # "idle",
           NEW reply \in Replies, Answered(c, reply),
           reply = "success" => delivery'[CallId(c)] = "delivered"
    PROVE  calls' \in [Calls -> Call] /\ \A d \in Calls : SettledCall(d)
<1>1. CASE calls[c].waiting
  <2> DEFINE new == [calls[c] EXCEPT !.pc = "answered", !.reply = reply]
  <2>1. calls' = [calls EXCEPT ![c] = new]
    BY <1>1 DEF Answered
  <2>2. calls[c] \in Call
    BY CallTyped
  <2>3. /\ new \in Call /\ new.pc = "answered" /\ new.reply = reply
        /\ new.group = calls[c].group /\ new.revision = calls[c].revision
        /\ new.verification = calls[c].verification
    BY <2>2 DEF Call
  <2> HIDE DEF new
  <2> QED BY <2>1, <2>3, MovesOn
<1>2. CASE ~calls[c].waiting
  BY <1>2, Forgotten DEF Answered
<1> QED BY <1>1, <1>2

LEMMA ServingSettles ==
    ASSUME WInv, Grows, groups' \in [G!GroupIds -> G!Group], NEW c \in Calls, calls[c].pc # "idle",
           calls' = [calls EXCEPT ![c].pc = "serving"]
    PROVE  calls' \in [Calls -> Call] /\ \A d \in Calls : SettledCall(d)
<1> DEFINE new == [calls[c] EXCEPT !.pc = "serving"]
<1>1. calls[c] \in Call
  BY CallTyped
<1>2. /\ new \in Call /\ new.pc = "serving"
      /\ new.group = calls[c].group /\ new.revision = calls[c].revision
      /\ new.verification = calls[c].verification
  BY <1>1 DEF Call
<1>3. calls' = [calls EXCEPT ![c] = new]
  OBVIOUS
<1> HIDE DEF new
<1> QED BY <1>2, <1>3, MovesOn

(* The executor writes and answers; the orders stay.                       *)
LEMMA ExecutorStep ==
    ASSUME WInv, NEW c \in Calls, Replay(c) \/ Start(c) \/ Serve(c)
    PROVE  WInv' /\ UNCHANGED orderVars /\ (D!Next \/ UNCHANGED executorVars)
<1>1. calls[c].pc # "idle" /\ UNCHANGED <<orderVars, enabled, history>>
  BY DEF Replay, Start, Serve
<1>2. CallId(c) \in authorised /\ CallId(c) \in Executions
      /\ calls[c].verification \in Verifications \cup {None}
  BY <1>1, CallTyped
<1>3. /\ D!TypeOK' /\ (D!Next \/ UNCHANGED executorVars)
      /\ \A d \in Executions : delivery[d] = "delivered" => delivery'[d] = "delivered"
      /\ \A d \in Executions : delivery'[d] # "unsent" => delivery[d] # "unsent" \/ d \in authorised
  <2>1. CASE UNCHANGED executorVars
    BY <2>1 DEF executorVars, WInv, RestTyped, D!TypeOK
  <2>2. CASE D!Attempt(CallId(c), calls[c].verification) \/ D!Release(CallId(c), calls[c].verification)
    BY <1>2, <2>2, ExecutorKeeps
  <2> QED BY <2>1, <2>2 DEF Replay, Start, Serve
<1>4. groups' = groups /\ verified' = verified /\ authorised' = authorised /\ minted' = minted
      /\ finisher' = finisher /\ enabled' = enabled
  BY <1>1 DEF orderVars, history
<1>5. Grows /\ groups' \in [G!GroupIds -> G!Group] /\ Orders'
  BY <1>3, <1>4, GroupsTyped DEF Grows, Remembers, WInv, Orders, Fits
<1>6. calls' \in [Calls -> Call] /\ \A d \in Calls : SettledCall(d)
  <2>1. CASE Replay(c)
    <3>1. PICK reply \in Replies : /\ Answered(c, reply)
                                   /\ reply = "success" => delivery[CallId(c)] = "delivered"
      BY <2>1 DEF Replay, Replies
    <3>2. reply = "success" => delivery'[CallId(c)] = "delivered"
      BY <1>2, <1>3, <3>1
    <3> QED BY <1>1, <1>5, <3>1, <3>2, AnswerSettles
  <2>2. CASE Start(c)
    BY <1>1, <1>5, <2>2, ServingSettles DEF Start
  <2>3. CASE Serve(c)
    <3>1. PICK reply \in Replies : /\ Answered(c, reply)
                                   /\ reply = "success" => delivery'[CallId(c)] = "delivered"
      <4>1. \/ Answered(c, ReplyFor(delivery'[CallId(c)]))
            \/ \E reply \in {"failure", "no-accounts", "error"} : Answered(c, reply)
        BY <2>3 DEF Serve
      <4>2. /\ ReplyFor(delivery'[CallId(c)]) \in Replies
            /\ ReplyFor(delivery'[CallId(c)]) = "success" => delivery'[CallId(c)] = "delivered"
        BY DEF ReplyFor, Replies
      <4>3. {"failure", "no-accounts", "error"} \subseteq Replies \ {"success"}
        BY DEF Replies
      <4> QED BY <4>1, <4>2, <4>3
    <3> QED BY <1>1, <1>5, <3>1, AnswerSettles
  <2> QED BY <2>1, <2>2, <2>3
<1>7. RestTyped'
  BY <1>3, <1>4, <1>6 DEF RestTyped, WInv
<1> QED BY <1>1, <1>3, <1>4, <1>5, <1>6, <1>7, Assemble DEF SettledCall

-----------------------------------------------------------------------------
(* The workflow after its await.                                           *)
LEMMA AbandonSettles ==
    ASSUME WInv, Grows, groups' \in [G!GroupIds -> G!Group], NEW c \in Calls, calls[c].waiting,
           calls'[c] = Abandon(calls[c])
    PROVE  calls'[c] \in Call /\ SettledCall(c)
<1>1. calls[c].pc # "idle"
  BY DEF WInv, Sent
<1>2. calls[c] \in Call
  BY <1>1, CallTyped
<1>3. CASE calls[c].pc = "answered"
  BY <1>3, NoCallTyped DEF Abandon, SettledCall
<1>4. CASE calls[c].pc # "answered"
  <2> DEFINE new == [calls[c] EXCEPT !.waiting = FALSE]
  <2>1. /\ new \in Call /\ new.pc = calls[c].pc
        /\ new.group = calls[c].group /\ new.revision = calls[c].revision
        /\ new.verification = calls[c].verification
    BY <1>2 DEF Call
  <2>2. calls'[c] = new
    BY <1>4 DEF Abandon
  <2> HIDE DEF new
  <2> QED BY <1>1, <1>4, <2>1, <2>2, GoesOn
<1> QED BY <1>3, <1>4

(* A result is written to an approved order, or to none.                   *)
LEMMA ResultKeeps ==
    ASSUME WInv, NEW g \in G!GroupIds, UNCHANGED <<executorVars, authorised, minted>>,
           \/ UNCHANGED orderVars
           \/ \E reason \in G!Failures : G!RecordAutomationFailure(g, reason)
           \/ G!RecordAutomationSuccess(g) \/ G!RecordAutomationUnknown(g)
    PROVE  /\ [G!Next]_orderVars /\ Grows /\ Orders' /\ groups' \in [G!GroupIds -> G!Group]
<1>1. [G!Next]_orderVars
  BY Zenon DEF G!Next, G!AutomationStep
<1>2. P!IInv'
  BY <1>1, OrdersKept DEF WInv
<1>3. groups' \in [G!GroupIds -> G!Group]
  <2>1. G!TypeOK'
    BY <1>2, SameTypes, PTL
  <2> QED BY <2>1 DEF G!TypeOK
<1>4. verified' = verified
  BY DEF orderVars, G!RecordAutomationFailure, G!RecordAutomationSuccess, G!RecordAutomationUnknown
<1>5. Remembers
  BY <1>4 DEF Remembers
<1>6. Orders' /\ \A h \in G!GroupIds : groups[h].revision <= groups'[h].revision
  <2>1. CASE UNCHANGED orderVars
    BY <2>1, SameOrders
  <2>2. CASE \/ \E reason \in G!Failures : G!RecordAutomationFailure(g, reason)
             \/ G!RecordAutomationSuccess(g) \/ G!RecordAutomationUnknown(g)
    <3>1. Stores(g)
      BY <1>5, <2>2, ResultStores
    <3> QED BY <1>5, <3>1, StoreKeeps
  <2> QED BY <2>1, <2>2
<1> QED BY <1>1, <1>3, <1>5, <1>6 DEF Grows, executorVars

LEMMA ResultStep ==
    ASSUME WInv, NEW c \in Calls, RecordResult(c)
    PROVE  WInv' /\ [G!Next]_orderVars /\ UNCHANGED executorVars
<1> DEFINE g == calls[c].group
<1>1. /\ calls[c].pc = "answered" /\ calls' = [calls EXCEPT ![c] = NoCall]
      /\ UNCHANGED <<executorVars, enabled, authorised, minted>>
      /\ finisher' = IF Finishes(c) THEN [finisher EXCEPT ![g] = "auto"] ELSE finisher
  BY DEF RecordResult
<1>2. g \in G!GroupIds /\ calls[c] \in Call /\ CallId(c) \in Executions
  BY <1>1, CallTyped
<1>3. \/ UNCHANGED orderVars
      \/ \E reason \in G!Failures : G!RecordAutomationFailure(g, reason)
      \/ G!RecordAutomationSuccess(g) \/ G!RecordAutomationUnknown(g)
  <2>1. FailureReason(calls[c].reply) \in G!Failures
    BY DEF FailureReason, G!Failures
  <2> QED BY <2>1, Zenon DEF RecordResult
<1>4. [G!Next]_orderVars /\ Grows /\ Orders' /\ groups' \in [G!GroupIds -> G!Group]
  BY <1>1, <1>2, <1>3, ResultKeeps
<1>5. calls' \in [Calls -> Call] /\ \A d \in Calls : SettledCall(d)
  BY <1>1, Forgotten
<1>6. \A e \in Executions : delivery'[e] # "unsent" => delivery[e] # "unsent"
  BY <1>1 DEF executorVars
<1>7. RestTyped'
  BY <1>1, <1>2, <1>5 DEF RestTyped, WInv, D!TypeOK, executorVars
<1>8. ASSUME NEW h \in G!GroupIds, finisher'[h] = "auto", finisher[h] # "auto"
      PROVE  \E r \in 0..groups[h].revision : delivery[<<h, r>>] = "delivered"
  <2>1. h = g /\ Finishes(c)
    BY <1>1, <1>2, <1>8 DEF WInv, RestTyped
  <2>2. Backed(c) /\ calls[c].reply = "success"
    BY <2>1 DEF WInv, Sent, Finishes
  <2>3. calls[c].revision \in 0..MaxRevision /\ calls[c].revision <= groups[g].revision
        /\ delivery[<<g, calls[c].revision>>] = "delivered"
    BY <1>1, <1>2, <2>2 DEF Backed, CallId, Call
  <2>4. calls[c].revision \in 0..groups[g].revision
    BY <1>2, <2>3, GroupsTyped, OrdersAssumption
  <2> QED BY <2>1, <2>3, <2>4
<1> QED BY <1>1, <1>4, <1>5, <1>6, <1>7, <1>8, Assemble DEF SettledCall

LEMMA TimeoutStep ==
    ASSUME WInv, NEW c \in Calls, Timeout(c)
    PROVE  WInv' /\ [G!Next]_orderVars /\ UNCHANGED executorVars
<1> DEFINE g == calls[c].group
<1>1. /\ calls[c].waiting /\ calls' = [calls EXCEPT ![c] = Abandon(calls[c])]
      /\ UNCHANGED <<executorVars, enabled, finisher, authorised, minted>>
  BY DEF Timeout, history
<1>2. g \in G!GroupIds
  BY <1>1, CallTyped DEF WInv, Sent
<1>3. UNCHANGED orderVars \/ \E reason \in G!Failures : G!RecordAutomationFailure(g, reason)
  BY DEF Timeout, G!Failures
<1>4. [G!Next]_orderVars /\ Grows /\ Orders' /\ groups' \in [G!GroupIds -> G!Group]
  BY <1>1, <1>2, <1>3, ResultKeeps
<1>5. calls'[c] = Abandon(calls[c]) /\ \A d \in Calls \ {c} : calls'[d] = calls[d]
  BY <1>1 DEF WInv, RestTyped
<1>6. calls'[c] \in Call /\ SettledCall(c)
  BY <1>1, <1>4, <1>5, AbandonSettles
<1>7. calls' \in [Calls -> Call] /\ \A d \in Calls : SettledCall(d)
  BY <1>1, <1>5, <1>6 DEF WInv, RestTyped, SettledCall
<1>8. RestTyped'
  BY <1>1, <1>7 DEF RestTyped, WInv, D!TypeOK, executorVars
<1>9. \A e \in Executions : delivery'[e] # "unsent" => delivery[e] # "unsent"
  BY <1>1 DEF executorVars
<1> QED BY <1>1, <1>4, <1>7, <1>8, <1>9, Assemble DEF SettledCall

LEMMA RestStep ==
    ASSUME WInv, UNCHANGED <<orderVars, executorVars, history>>, enabled' \in BOOLEAN,
           \/ UNCHANGED calls
           \/ calls' = [c \in Calls |-> IF calls[c].waiting THEN Abandon(calls[c]) ELSE calls[c]]
    PROVE  WInv'
<1>1. /\ groups' = groups /\ verified' = verified /\ delivery' = delivery /\ mark' = mark
      /\ finisher' = finisher /\ authorised' = authorised /\ minted' = minted
  BY DEF orderVars, executorVars, history
<1>2. Grows /\ Orders' /\ groups' \in [G!GroupIds -> G!Group]
  <2>1. Orders' /\ Remembers /\ \A h \in G!GroupIds : groups[h].revision <= groups'[h].revision
    BY <1>1, SameOrders DEF orderVars
  <2> QED BY <1>1, <2>1, GroupsTyped DEF Grows
<1>3. ASSUME NEW c \in Calls PROVE calls'[c] \in Call /\ SettledCall(c)
  <2>1. calls[c] \in Call
    BY DEF WInv, RestTyped
  <2>2. CASE calls'[c] = calls[c]
    BY <2>1, <2>2 DEF SettledCall
  <2>3. CASE calls[c].waiting /\ calls'[c] = Abandon(calls[c])
    BY <1>2, <2>3, AbandonSettles
  <2> QED BY <2>2, <2>3
<1>4. calls' \in [Calls -> Call]
  BY <1>3 DEF WInv, RestTyped
<1>5. RestTyped'
  BY <1>1, <1>4 DEF RestTyped, WInv, D!TypeOK
<1> QED BY <1>1, <1>2, <1>3, <1>5, Assemble DEF SettledCall

-----------------------------------------------------------------------------
LEMMA InitWInv == Init => WInv
<1> SUFFICES ASSUME Init PROVE WInv
  OBVIOUS
<1>1. P!IInv
  BY SameInit DEF Init
<1>2. RestTyped
  BY NoCallTyped DEF Init, RestTyped, D!Init, D!TypeOK, D!Stages
<1>3. Orders
  BY OrdersAssumption DEF Init, Orders, Fits, G!Init, G!NoGroup
<1>4. Sent
  BY NoCallTyped DEF Init, Sent, Backed
<1>5. ReviewedBeforeSending
  BY DEF Init, D!Init, ReviewedBeforeSending
<1>6. AutoFinishIsOfADelivery
  BY FinisherAssumption DEF Init, AutoFinishIsOfADelivery
<1> QED BY <1>1, <1>2, <1>3, <1>4, <1>5, <1>6 DEF WInv

LEMMA NextWInv ==
    ASSUME WInv, [Next]_vars
    PROVE  WInv' /\ [G!Next]_orderVars /\ (D!Next \/ UNCHANGED executorVars)
<1>1. ASSUME NEW u \in Users, NEW g \in G!GroupIds, UserStep(u, g)
      PROVE  WInv' /\ [G!Next]_orderVars /\ UNCHANGED executorVars
  <2>1. UNCHANGED executorVars
    BY <1>1 DEF UserStep, SubmitAndExecute, ApproveAndExecute, ExecuteAgain, RetryAfterOnline,
       StaffFinishes, StaffVerifiesOffline, OrderChanges
  <2>2. CASE g \in SubmitIds /\ \E content \in Contents, k \in Keys \cup {None} :
                 SubmitAndExecute(u, g, content, k)
    BY <2>1, <2>2, SubmitStep
  <2>3. CASE ApproveAndExecute(u, g)
    BY <2>1, <2>3, ApproveStep
  <2>4. CASE ExecuteAgain(u, g) \/ RetryAfterOnline(u, g)
    BY <2>1, <2>4, AgainStep
  <2>5. CASE StaffFinishes(u, g) \/ StaffVerifiesOffline(u, g) \/ OrderChanges(u, g)
    BY <2>1, <2>5, StaffStep
  <2> QED BY <1>1, <2>2, <2>3, <2>4, <2>5 DEF UserStep
<1>2. ASSUME NEW u \in Users, RewardsApproved(u)
      PROVE  WInv' /\ [G!Next]_orderVars /\ UNCHANGED executorVars
  BY <1>2, RewardsStep DEF RewardsApproved
<1>3. ASSUME NEW c \in Calls, CallStep(c)
      PROVE  WInv' /\ [G!Next]_orderVars /\ (D!Next \/ UNCHANGED executorVars)
  BY <1>3, ExecutorStep, ResultStep, TimeoutStep DEF CallStep
<1>4. CASE SetConnection
  <2>1. enabled' \in BOOLEAN
    BY <1>4 DEF SetConnection, WInv, RestTyped
  <2> QED BY <1>4, <2>1, RestStep DEF SetConnection
<1>5. CASE Restart
  BY <1>5, RestStep DEF Restart, WInv, RestTyped
<1>6. CASE UNCHANGED vars
  BY <1>6, RestStep DEF vars, WInv, RestTyped
<1> QED BY <1>1, <1>2, <1>3, <1>4, <1>5, <1>6 DEF Next

THEOREM Invariance == Spec => []WInv
<1>1. Init => WInv
  BY InitWInv
<1>2. WInv /\ [Next]_vars => WInv'
  BY NextWInv
<1> QED BY <1>1, <1>2, PTL DEF Spec

-----------------------------------------------------------------------------
(* The state is always well typed, in both processes.                      *)
THEOREM WorkflowTyped == Spec => []TypeOK
<1>1. WInv => TypeOK
  BY SameTypes DEF WInv, RestTyped, TypeOK
<1> QED BY <1>1, Invariance, PTL

(* Whatever is written to the game was approved, by a reviewer or a rule,  *)
(* at the revision it is written for (automation-workflow.ts:25-27).       *)
THEOREM SendingIsReviewed == Spec => []ReviewedBeforeSending
<1>1. WInv => ReviewedBeforeSending
  BY DEF WInv
<1> QED BY <1>1, Invariance, PTL

(* An unknown delivery becomes partial only where a call starts.           *)
LEMMA ReleasedByACall ==
    ASSUME WInv, Next, NEW e \in Executions, delivery[e] = "unknown", delivery'[e] = "partial"
    PROVE  \E c \in Calls : /\ CallId(c) = e
                            /\ calls[c].pc = "queued" /\ calls'[c].pc = "serving"
                            /\ calls[c].verification # None
                            /\ minted[calls[c].verification] = e
<1>1. ~UNCHANGED executorVars
  BY DEF executorVars
<1>2. PICK c \in Calls : Start(c) \/ Serve(c)
  BY <1>1 DEF Next, UserStep, SubmitAndExecute, ApproveAndExecute, ExecuteAgain, RetryAfterOnline,
     StaffFinishes, StaffVerifiesOffline, OrderChanges, RewardsApproved, CallStep, Replay,
     RecordResult, Timeout, SetConnection, Restart
<1>3. calls[c].pc # "idle" /\ calls[c] \in Call /\ CallId(c) \in Executions /\ Backed(c)
  BY <1>2, CallTyped DEF Start, Serve, WInv, Sent
<1>4. delivery \in [Executions -> D!Stages]
  BY DEF WInv, RestTyped, D!TypeOK
<1>5. CASE Serve(c)
  <2>1. D!Attempt(CallId(c), calls[c].verification)
    BY <1>1, <1>5 DEF Serve
  <2> QED BY <1>3, <1>4, <2>1 DEF D!Attempt, D!CanAttempt, D!Becomes
<1>6. CASE Start(c)
  <2>1. D!Release(CallId(c), calls[c].verification)
    BY <1>1, <1>6 DEF Start
  <2>2. CallId(c) = e /\ calls[c].verification # None
    BY <1>3, <1>4, <2>1 DEF D!Release, D!CanRelease, D!Becomes
  <2>3. calls[c].pc = "queued" /\ calls'[c].pc = "serving"
    BY <1>3, <1>6 DEF Start, WInv, RestTyped
  <2> QED BY <1>3, <2>2, <2>3 DEF Backed
<1> QED BY <1>2, <1>5, <1>6

(* An unknown delivery is released only by a verification given for that   *)
(* revision, and an order finished by auto was delivered, over any edits,  *)
(* late answers, time-outs and restarts (automation-workflow.ts:40-58).    *)
THEOREM EarnedForAll == Spec => ReleaseAndFinishAreEarned
<1>1. WInv /\ WInv' /\ [Next]_vars => [ReleasedForItsRevision /\ AutoFinishIsOfADelivery']_vars
  BY ReleasedByACall DEF ReleasedForItsRevision, WInv
<1> QED BY <1>1, Invariance, PTL DEF Spec, ReleaseAndFinishAreEarned
=============================================================================
