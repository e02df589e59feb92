------------------------- MODULE AutomationWorkflow -------------------------
(***************************************************************************)
(* How an approved work order is carried out: the SOP backend sends its    *)
(* commands to auto-process and writes the answer back.  Composes the work *)
(* orders (OperationGroups) with the executor (Delivery, which             *)
(* AutoExecution is shown to implement), two processes that share nothing  *)
(* but requests and answers.                                               *)
(*                                                                         *)
(* The preflight isEnabled(), the check in AutoIntegrationService.execute  *)
(* and the start of the HTTP request run in one turn of the Node event     *)
(* loop, together with the transition that triggered them; what comes      *)
(* after the await may find the order in any state.  The executor serves   *)
(* one request at a time (executionMu).                                    *)
(*                                                                         *)
(* The versioned execution id (a hash over updatedAt and the request) is   *)
(* the pair of the group and its revision.  Endpoint and token are         *)
(* configured.                                                             *)
(***************************************************************************)
EXTENDS Integers, FiniteSets

CONSTANTS Users, Access, SubmitIds, BatchIds, Contents, Keys, Verifications, None,
          MaxRevision, MaxReminders,
          Calls     \* bound: executions in flight at the same time

VARIABLES
    groups, verified,   \* the work orders: see OperationGroups
    delivery, mark,     \* the executions: see Delivery
    enabled,            \* auto_integration_state: the connection switch
    calls,              \* requests to POST /servers/{id}/executions
    finisher,           \* issuedBy/completedBy of each order: "auto", "staff" or None
    authorised,         \* history: the revisions a reviewer or a rule approved
    minted              \* history: the revision each verification was given for

orderVars == <<groups, verified>>
executorVars == <<delivery, mark>>
history == <<finisher, authorised, minted>>
vars == <<orderVars, executorVars, enabled, calls, history>>

G == INSTANCE OperationGroups
Executions == G!GroupIds \X (0..MaxRevision)
D == INSTANCE Delivery

(* What OperationGroups assumes of the same constants.                      *)
ASSUME OrdersAssumption ==
    /\ Access \in [Users -> SUBSET G!Workspaces]
    /\ Contents \subseteq (SUBSET G!OperationTypes) \ {{}}
    /\ SubmitIds \cap BatchIds = {}
    /\ None \notin Users \cup Keys \cup Verifications \cup Contents
    /\ None \notin G!Failures \cup G!Notes \cup Nat
    /\ MaxRevision \in Nat /\ MaxReminders \in Nat
ASSUME FinisherAssumption == None # "auto"

NoCall == [pc |-> "idle", group |-> None, revision |-> 0, retry |-> FALSE,
           verification |-> None, waiting |-> FALSE, reply |-> None]

Replies == {"success", "unknown", "failure", "no-accounts", "error"}

Call == [pc : {"idle", "queued", "serving", "answered"},
         group : G!GroupIds \cup {None},
         revision : 0..MaxRevision,
         retry : BOOLEAN,
         verification : Verifications \cup {None},
         waiting : BOOLEAN,     \* the workflow still awaits the answer
         reply : Replies \cup {None}]

TypeOK == /\ G!TypeOK /\ D!TypeOK
          /\ enabled \in BOOLEAN
          /\ calls \in [Calls -> Call]
          /\ finisher \in [G!GroupIds -> {"auto", "staff", None}]
          /\ authorised \subseteq Executions
          /\ minted \in [Verifications -> Executions \cup {None}]

Init == /\ G!Init /\ D!Init
        /\ enabled = TRUE
        /\ calls = [c \in Calls |-> NoCall]
        /\ finisher = [g \in G!GroupIds |-> None]
        /\ authorised = {}
        /\ minted = [v \in Verifications |-> None]

ExecutionId(g) == <<g, groups[g].revision>>
CallId(c) == <<calls[c].group, calls[c].revision>>

-----------------------------------------------------------------------------
(* OperationAutomationWorkflow.execute up to its await, for an order that   *)
(* is approved now: the current revision's commands are sent, a retry with  *)
(* the verification the order holds.  With the connection off the order is  *)
(* left to be finished by hand.                                             *)
Execute(g, retry) ==
    IF enabled
    THEN \E c \in Calls :
            /\ calls[c].pc = "idle"
            /\ calls' = [calls EXCEPT ![c] =
                  [pc |-> "queued", group |-> g, revision |-> groups[g].revision,
                   retry |-> retry, waiting |-> TRUE, reply |-> None,
                   verification |-> IF retry THEN groups[g].verification ELSE None]]
    ELSE UNCHANGED calls

Authorise(g) == authorised' = authorised \cup {ExecutionId(g)}

SubmitAndExecute(u, g, content, k) ==
    /\ G!Submit(u, g, content, k)
    /\ IF G!IsNoReviewGroup(content) THEN Execute(g, FALSE) /\ Authorise(g)
                                     ELSE UNCHANGED <<calls, authorised>>
    /\ UNCHANGED <<executorVars, enabled, finisher, minted>>

ApproveAndExecute(u, g) ==
    /\ G!Approve(u, g)
    /\ Execute(g, FALSE)
    /\ Authorise(g)
    /\ UNCHANGED <<executorVars, enabled, finisher, minted>>

(* An approval or a keyed submission that is repeated finds the order       *)
(* approved, changes nothing in it, and executes it again.                  *)
ExecuteAgain(u, g) ==
    /\ groups[g].status = "approved"
    /\ \/ G!MayUse(u, "queue")
       \/ G!MayUse(u, "request") /\ groups[g].owner = u /\ groups[g].key # None
    /\ enabled
    /\ Execute(g, FALSE)
    /\ UNCHANGED <<orderVars, executorVars, enabled, history>>

(* The owner confirms that the player is online; an order that is not       *)
(* reminded is retried all the same.                                        *)
RetryAfterOnline(u, g) ==
    /\ \/ G!MarkOnline(u, g)
       \/ /\ G!MayUse(u, "reminders") /\ groups[g].owner = u
          /\ groups[g].status = "approved" /\ groups[g].reminders = 0
          /\ UNCHANGED orderVars
    /\ Execute(g, TRUE)
    /\ UNCHANGED <<executorVars, enabled, history>>

-----------------------------------------------------------------------------
(* What happens to an order without the workflow.                           *)
StaffFinishes(u, g) ==
    /\ \E note \in {"manual", None} : G!Issue(u, g, note) \/ G!Complete(u, g, note)
    /\ finisher' = [finisher EXCEPT ![g] = "staff"]
    /\ UNCHANGED <<executorVars, enabled, calls, authorised, minted>>

StaffVerifiesOffline(u, g) ==
    /\ G!VerifyOffline(u, g)
    /\ minted' = [v \in Verifications |-> IF v \in verified' \ verified THEN ExecutionId(g) ELSE minted[v]]
    /\ UNCHANGED <<executorVars, enabled, calls, finisher, authorised>>

OrderChanges(u, g) ==
    /\ \/ \E content \in Contents : G!Update(u, g, content)
       \/ G!Cancel(u, g) \/ G!Reject(u, g) \/ G!Remind(u, g)
    /\ UNCHANGED <<executorVars, enabled, calls, history>>

RewardsApproved(u) ==
    \E entries \in UNION {[ids -> Contents] : ids \in (SUBSET BatchIds) \ {{}}} :
        /\ G!SubmitApprovedBatch(u, entries)
        /\ authorised' = authorised \cup {<<g, 0>> : g \in {h \in DOMAIN entries : groups[h].status = "absent"}}
        /\ UNCHANGED <<executorVars, enabled, calls, finisher, minted>>

(* A super admin switches the connection; what is in flight stays.          *)
SetConnection ==
    /\ enabled' = ~enabled
    /\ UNCHANGED <<orderVars, executorVars, calls, history>>

-----------------------------------------------------------------------------
(* The executor.  An answer is delivered only to a workflow that waits.     *)
Answered(c, reply) ==
    calls' = [calls EXCEPT ![c] = IF @.waiting THEN [@ EXCEPT !.pc = "answered", !.reply = reply]
                                               ELSE NoCall]

Free == \A c \in Calls : calls[c].pc # "serving"

(* Answered from the stored row: delivered (the row may not say so if the   *)
(* process died before the last save), unknown and not released, or not a   *)
(* retry.                                                                   *)
Replay(c) ==
    /\ calls[c].pc = "queued" /\ Free
    /\ \/ delivery[CallId(c)] = "delivered" /\ (Answered(c, "success") \/ Answered(c, "failure"))
       \/ /\ delivery[CallId(c)] = "unknown" /\ ~D!CanRelease(CallId(c), calls[c].verification)
          /\ Answered(c, "unknown")
       \/ D!CanAttempt(CallId(c)) /\ ~calls[c].retry /\ Answered(c, "failure")
    /\ UNCHANGED <<orderVars, executorVars, enabled, history>>

Start(c) ==
    /\ calls[c].pc = "queued" /\ Free
    /\ \/ D!Release(CallId(c), calls[c].verification)
       \/ D!CanAttempt(CallId(c)) /\ UNCHANGED executorVars
    /\ calls' = [calls EXCEPT ![c].pc = "serving"]
    /\ UNCHANGED <<orderVars, enabled, history>>

ReplyFor(stage) == CASE stage = "delivered" -> "success"
                     [] stage = "unknown" -> "unknown"
                     [] OTHER -> "failure"

(* The attempt ends: commands were written, or none was; or it ended in a   *)
(* server error or with the process, whatever had been written.             *)
Serve(c) ==
    /\ calls[c].pc = "serving"
    /\ \/ /\ D!Attempt(CallId(c), calls[c].verification)
          /\ Answered(c, ReplyFor(delivery'[CallId(c)])) \/ Answered(c, "error")
       \/ /\ UNCHANGED executorVars
          /\ \E reply \in {"failure", "no-accounts", "error"} : Answered(c, reply)
    /\ UNCHANGED <<orderVars, enabled, history>>

-----------------------------------------------------------------------------
(* execute after its await.  A result for an order that is no longer        *)
(* approved is dropped.                                                     *)
RawReason(reply) == reply   \* slip: the executor's reason is stored as it came
FailureReason(reply) == IF reply = "no-accounts" THEN "no-online-accounts" ELSE "execution-failed"

FinishesUnlessFailed(c) ==  \* slip: only a failure keeps the order open
    /\ calls[c].reply \in {"success", "unknown"}
    /\ groups[calls[c].group].status = "approved"

Finishes(c) == calls[c].reply = "success" /\ groups[calls[c].group].status = "approved"

RecordResult(c) ==
    LET g == calls[c].group
    IN  /\ calls[c].pc = "answered"
        /\ IF groups[g].status # "approved" THEN UNCHANGED orderVars
           ELSE IF Finishes(c) THEN G!RecordAutomationSuccess(g)
           ELSE IF calls[c].reply = "unknown" THEN G!RecordAutomationUnknown(g)
           ELSE G!RecordAutomationFailure(g, FailureReason(calls[c].reply))
        /\ finisher' = IF Finishes(c) THEN [finisher EXCEPT ![g] = "auto"] ELSE finisher
        /\ calls' = [calls EXCEPT ![c] = NoCall]
        /\ UNCHANGED <<executorVars, enabled, authorised, minted>>

(* The client aborts after its timeout; the executor may not notice.        *)
Abandon(call) == IF call.pc = "answered" THEN NoCall ELSE [call EXCEPT !.waiting = FALSE]

Timeout(c) ==
    LET g == calls[c].group
    IN  /\ calls[c].waiting
        /\ IF groups[g].status = "approved" THEN G!RecordAutomationFailure(g, "execution-failed")
                                            ELSE UNCHANGED orderVars
        /\ calls' = [calls EXCEPT ![c] = Abandon(@)]
        /\ UNCHANGED <<executorVars, enabled, history>>

(* The SOP backend restarts: orders and the switch are on disk, the awaits  *)
(* are gone.                                                                *)
Restart ==
    /\ \E c \in Calls : calls[c].waiting
    /\ calls' = [c \in Calls |-> IF calls[c].waiting THEN Abandon(calls[c]) ELSE calls[c]]
    /\ UNCHANGED <<orderVars, executorVars, enabled, history>>

-----------------------------------------------------------------------------
UserStep(u, g) ==
    \/ g \in SubmitIds /\ \E content \in Contents, k \in Keys \cup {None} : SubmitAndExecute(u, g, content, k)
    \/ ApproveAndExecute(u, g) \/ ExecuteAgain(u, g) \/ RetryAfterOnline(u, g)
    \/ StaffFinishes(u, g) \/ StaffVerifiesOffline(u, g) \/ OrderChanges(u, g)

CallStep(c) == Replay(c) \/ Start(c) \/ Serve(c) \/ RecordResult(c) \/ Timeout(c)

Next ==
    \/ \E u \in Users, g \in G!GroupIds : UserStep(u, g)
    \/ \E u \in Users : RewardsApproved(u)
    \/ \E c \in Calls : CallStep(c)
    \/ SetConnection
    \/ Restart

Spec == Init /\ [][Next]_vars

-----------------------------------------------------------------------------
(* Nothing is written to the game for a revision that no reviewer and no    *)
(* no-review rule approved: not by a retry or a repeated approval after an  *)
(* edit, nor by an edit racing the approval (automation-workflow.ts:25-27,  *)
(* service.ts:163-175).                                                     *)
ReviewedBeforeSending ==
    \A e \in Executions : delivery[e] # "unsent" => e \in authorised

(* An unknown delivery is released only by a verification staff gave for    *)
(* that very revision, never by one that an edit, an earlier unknown result *)
(* or a late request carried over (service.ts:163-175, 334-345,             *)
(* automation-workflow.ts:40-41).                                           *)
ReleasedForItsRevision ==
    \A e \in Executions :
        delivery[e] = "unknown" /\ delivery'[e] = "partial" =>
            \E c \in Calls : /\ CallId(c) = e
                             /\ calls[c].pc = "queued" /\ calls'[c].pc = "serving"
                             /\ calls[c].verification # None
                             /\ minted[calls[c].verification] = e

(* An order is finished by auto-process only after a delivery: all commands *)
(* of one of its revisions reached the game, whatever was sent twice, lost, *)
(* abandoned or answered late (automation-workflow.ts:44-58).               *)
AutoFinishIsOfADelivery ==
    \A g \in G!GroupIds : finisher[g] = "auto" =>
        \E r \in 0..groups[g].revision : delivery[<<g, r>>] = "delivered"

(* What releases an unknown delivery and what finishes an order was earned  *)
(* by that order: both of the above, over every mixture of edits, repeated  *)
(* requests and late answers (automation-workflow.ts:40-58).                *)
ReleaseAndFinishAreEarned ==
    [][ReleasedForItsRevision /\ AutoFinishIsOfADelivery']_vars

(* That revision is the one the order now shows (automation-workflow.ts:49, *)
(* service.ts:315-332).  Not so: an edit while an answer is out breaks it.  *)
AutoFinishIsDelivered ==
    \A g \in G!GroupIds : finisher[g] = "auto" => delivery[ExecutionId(g)] = "delivered"
=============================================================================
